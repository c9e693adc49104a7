------------------------- MODULE SegmentStoreProofs -------------------------
(***************************************************************************)
(* For any number of processes, events and faults, any size of segment and *)
(* any flush interval: the sealed segments of a session are one chain, a   *)
(* fault loses less than a flush of acknowledged events and nothing else   *)
(* loses any, and a checkpoint that succeeded left nothing unsealed.       *)
(*                                                                         *)
(* The invariant keeps a number for every segment, the sequence number of  *)
(* its first event (start); the process that has the lock writes, or       *)
(* rebuilds, the segment after the last (top).  A chain need not begin     *)
(* with segment 0: when the session's first file has a bad header,         *)
(* recovery goes on with index 1, and no later process can read the        *)
(* session (base).  What makes a loss countable is that the events of a    *)
(* file and of its writer's buffer differ by less than a flush (Backed).   *)
(*                                                                         *)
(* That read_session reads a chain in whole is a fact about a recursive    *)
(* function (FlattenSeq), proved by way of the least length for which it   *)
(* fails (Least).                                                          *)
(***************************************************************************)
EXTENDS SegmentStore, FiniteSetTheorems, FunctionTheorems, SequenceTheorems, WellFoundedInduction, TLAPS

-----------------------------------------------------------------------------
(* The invariant                                                           *)

Fields == {"pc", "cur", "next", "seq", "prev", "degraded", "sealed", "todo", "then", "mine"}
Working == {"run", "create", "header", "write", "footer", "rename", "sealed", "drop"}
Places == Working \union {"down", "opening", "rebuilding", "loaded"}

\* The events handed out so far can have these numbers.
Issued(n) == [seq : 1 .. n, id : 1 .. n]
EventsIn(files) == UNION {ToSet(f.events) : f \in files}

FileOK(f, n) ==
  /\ DOMAIN f = {"index", "header", "prev", "events"}
  /\ f.index \in Nat /\ f.header \in BOOLEAN /\ f.events \in Seq(Issued(n)) /\ Len(f.events) <= SegmentMax

\* Events with the sequence numbers from one on.
NumberedFrom(events, first) == \A i \in 1 .. Len(events) : events[i].seq = first + i - 1

\* One segment of a chain, whose events are numbered by start.
LinkOK(s, S, base, top, start, n) ==
  /\ DOMAIN s = {"index", "prev", "events"}
  /\ s.index \in base .. top - 1 /\ s.events \in Seq(Issued(n))
  /\ start[s.index + 1] = start[s.index] + Len(s.events) /\ NumberedFrom(s.events, start[s.index])
  /\ s.index = base => s.prev = NoHash
  /\ \A t \in S : s.index = t.index + 1 => s.prev = t

\* The sealed segments have the indices from base up to top, and each knows the one before.
\* The first sequence number of segment i is start[i]; the next to be written is start[top].
Linked(S, base, top, start, n) ==
  /\ base \in Nat /\ top \in Nat /\ base <= top
  /\ start \in [base .. top -> Nat] /\ start[base] = 1 /\ start[top] <= n + 1
  /\ \A i, j \in base .. top : i <= j => start[i] <= start[j]
  /\ \A i \in base .. top - 1 : \E s \in S : s.index = i
  /\ \A s, t \in S : s.index = t.index => s = t
  /\ \A s \in S : LinkOK(s, S, base, top, start, n)
  /\ \A k \in 1 .. start[top] - 1 : \E s \in S : start[s.index] <= k /\ k < start[s.index + 1]

\* The hash of the last segment.
Heads(h, S, top) ==
  /\ S = {} => h = NoHash
  /\ \A t \in S : t.index + 1 = top => h = t

\* The segment a process writes, or rebuilds, comes after all sealed ones.
Continues(s, S, top, first, n) ==
  /\ s.cur # NoSegment =>
       /\ s.cur.index = top /\ Heads(s.cur.prev, S, top)
       /\ s.cur.events \in Seq(Issued(n)) /\ Len(s.cur.events) <= SegmentMax /\ NumberedFrom(s.cur.events, first)
       /\ s.pc \in Working => s.seq = first + Len(s.cur.events)
  /\ s.pc \in Working /\ ~s.degraded /\ s.cur = NoSegment =>
       s.next = top /\ Heads(s.prev, S, top) /\ s.seq = first

\* What a process holds, and what it has in hand, by where it is.
Has(s, n) ==
  /\ DOMAIN s = Fields /\ s.pc \in Places
  /\ s.degraded \in BOOLEAN /\ s.sealed \in BOOLEAN /\ s.next \in Nat /\ s.seq \in 1 .. n + 1
  /\ s.todo \in Seq(Issued(n))
  /\ s.pc \notin Working => s.mine = {} /\ ~s.degraded /\ ~s.sealed
  /\ s.pc \in {"write", "footer", "rename", "rebuilding"} => s.cur # NoSegment
  /\ s.pc \in {"create", "header", "sealed", "drop", "down", "opening", "loaded"} => s.cur = NoSegment
  /\ s.degraded \/ s.sealed => s.cur = NoSegment /\ s.pc = "run"
  /\ s.pc \in {"footer", "rename"} => s.then \in {"run", "create", "sealed", "drop"}
  /\ s.pc \in {"create", "header", "write"} \/ (s.pc \in {"footer", "rename"} /\ s.then = "create") =>
       s.seq <= n /\ \E id \in 1 .. n : s.todo = <<[seq |-> s.seq, id |-> id]>>
  /\ s.pc = "write" => Len(s.cur.events) < SegmentMax

Memory(s) == IF s.cur = NoSegment THEN {} ELSE ToSet(s.cur.events)

\* The files behind it: nothing is in the file that is not in memory too, and memory is
\* less than a flush ahead of the file.
Backed(s, O, P, sealedEvents) ==
  /\ s.pc \in Working /\ s.cur # NoSegment =>
       /\ DOMAIN s.cur = {"index", "prev", "events", "flushed"}
       /\ s.cur.flushed \in 0 .. Len(s.cur.events) /\ Len(s.cur.events) - s.cur.flushed < FlushEvery
       /\ \E f \in O : f.index = s.cur.index
       /\ \A f \in O : f.index = s.cur.index => ToSet(f.events) \subseteq ToSet(s.cur.events)
  /\ s.pc = "header" =>
       /\ \E f \in O : f.index = s.next
       /\ \A f \in O : f.index = s.next => f.events = <<>>
  /\ s.pc = "rebuilding" =>
       /\ DOMAIN s.cur = {"index", "prev", "events"}
       /\ ToSet(s.cur.events) \subseteq EventsIn(P)
  /\ s.pc \in Working /\ ~s.degraded =>
       s.mine \subseteq sealedEvents \union Memory(s)

Alone == \A p, q \in Procs : p # q => proc[p].pc = "down" \/ proc[q].pc = "down"

FilesInv ==
  /\ appended \in 0 .. MaxEvents /\ faults \in 0 .. MaxFaults
  /\ acked \subseteq Issued(appended) /\ IsFiniteSet(acked)
  /\ \A f \in open \union preserved : FileOK(f, appended)

ProcsInv ==
  /\ DOMAIN proc = Procs /\ Alone
  /\ \A p \in Procs : Has(proc[p], appended) /\ Backed(proc[p], open, preserved, EventsIn(sealed))

Fits(s, S, base, top, start, n) ==
  Continues(s, S, top, start[top], n) /\ (s.pc \in {"rebuilding", "loaded"} => base = 0)
ChainInv ==
  \E base, top, start :
    /\ Linked(sealed, base, top, start, appended)
    /\ \A p \in Procs : Fits(proc[p], sealed, base, top, start, appended)

Kept == EventsIn(sealed) \union EventsIn(open \union preserved) \union InMemory
Losses(events, kept) == Cardinality(events \ kept)
LossInv == Losses(acked, Kept) <= faults * (FlushEvery - 1)

StoreInv == FilesInv /\ ProcsInv /\ ChainInv /\ LossInv
-----------------------------------------------------------------------------
(* Sets of numbers                                                         *)

\* An initial segment is finite.
LEMMA IntervalFinite ==
  ASSUME NEW n \in Nat
  PROVE  0 .. n \in FiniteSubsetsOf(Nat)
  BY FS_Interval DEF FiniteSubsetsOf

\* A set of numbers has a least one: of its initial segments one is the smallest.
LEMMA Least ==
  ASSUME NEW T \in SUBSET Nat, T # {}
  PROVE  \E n \in T : \A m \in T : n <= m
<1> DEFINE R == StrictSubsetOrdering(Nat)
           B == {0 .. n : n \in T}
<1>1. IsWellFoundedOn(R, FiniteSubsetsOf(Nat))
  BY FS_StrictSubsetOrderingWellFounded
<1>2. B # {} /\ B \subseteq FiniteSubsetsOf(Nat)
  BY IntervalFinite
<1>3. PICK s \in B : \A t \in B : ~(<<t, s>> \in R)
  <2> HIDE DEF R, B
  <2> QED BY <1>1, <1>2, WFMin
<1>4. PICK n \in T : s = 0 .. n
  OBVIOUS
<1>5. ASSUME NEW m \in T, m < n
      PROVE  FALSE
  <2>1. 0 .. m \in B
    OBVIOUS
  <2>2. 0 .. m \subseteq 0 .. n /\ 0 .. m # 0 .. n /\ 0 .. m \in SUBSET Nat /\ 0 .. n \in SUBSET Nat
    BY <1>5
  <2>3. <<0 .. m, 0 .. n>> \in R
    BY <2>2 DEF StrictSubsetOrdering
  <2> QED BY <1>3, <1>4, <2>1, <2>3
<1> QED BY <1>5

-----------------------------------------------------------------------------
(* Lists of events and files                                               *)

\* FlattenSeq, as the function it is the last value of.
Flattens(f, seqs, n) == f = [i \in 1 .. n |-> IF i = 1 THEN seqs[i] ELSE f[i - 1] \o seqs[i]]
Flat(seqs) == CHOOSE f : Flattens(f, seqs, Len(seqs))

\* The two say the same of a list that is not empty.
LEMMA FlattenIsFlat ==
  ASSUME NEW seqs, Len(seqs) # 0
  PROVE  FlattenSeq(seqs) = Flat(seqs)[Len(seqs)]
  BY ZenonT(30) DEF FlattenSeq, Flat, Flattens

\* There is such a function for every length.
LEMMA CanBeFlattened ==
  ASSUME NEW seqs, NEW n \in Nat
  PROVE  \E f : Flattens(f, seqs, n)
<1> DEFINE Bad == {m \in Nat : ~ \E f : Flattens(f, seqs, m)}
<1>1. SUFFICES ASSUME Bad # {} PROVE FALSE
  OBVIOUS
<1>2. PICK k \in Bad : \A m \in Bad : k <= m
  <2> HIDE DEF Bad
  <2>1. Bad \in SUBSET Nat
    BY DEF Bad
  <2> QED BY <1>1, <2>1, Least
<1>3. k \in Nat /\ ~ \E f : Flattens(f, seqs, k)
  OBVIOUS
<1>4. CASE k = 0
  <2> DEFINE f == [i \in 1 .. k |-> seqs[i]]
  <2>1. Flattens(f, seqs, k)
    BY <1>4 DEF Flattens
  <2> HIDE DEF f
  <2> QED BY <1>3, <2>1
<1>5. CASE k # 0
  <2>1. k - 1 \in Nat /\ k - 1 \notin Bad
    BY <1>2, <1>3, <1>5
  <2>2. PICK f : Flattens(f, seqs, k - 1)
    BY <2>1
  <2> HIDE DEF Bad
  <2>3. \A i \in 1 .. k - 1 : f[i] = IF i = 1 THEN seqs[i] ELSE f[i - 1] \o seqs[i]
    BY <2>2 DEF Flattens
  <2> DEFINE last == IF k = 1 THEN seqs[k] ELSE f[k - 1] \o seqs[k]
             g == [i \in 1 .. k |-> IF i = k THEN last ELSE f[i]]
  <2>4. DOMAIN g = 1 .. k /\ g[k] = last /\ (\A i \in 1 .. k - 1 : g[i] = f[i]) /\ g = [i \in 1 .. k |-> g[i]]
    <3> HIDE DEF last
    <3> QED BY <1>3, <1>5
  <2> HIDE DEF g
  <2>5. \A i \in 1 .. k : g[i] = IF i = 1 THEN seqs[i] ELSE g[i - 1] \o seqs[i]
    <3> SUFFICES ASSUME NEW i \in 1 .. k
                 PROVE  g[i] = IF i = 1 THEN seqs[i] ELSE g[i - 1] \o seqs[i]
      OBVIOUS
    <3>1. CASE i = k
      <4>1. k # 1 => k - 1 \in 1 .. k - 1
        BY <1>3, <1>5
      <4>2. k # 1 => g[k - 1] = f[k - 1]
        BY <2>4, <4>1
      <4> QED BY <2>4, <3>1, <4>2
    <3>2. CASE i # k
      <4>1. i \in 1 .. k - 1 /\ (i # 1 => i - 1 \in 1 .. k - 1)
        BY <1>3, <3>2
      <4>2. g[i] = f[i] /\ (i # 1 => g[i - 1] = f[i - 1])
        BY <2>4, <4>1
      <4> QED BY <2>3, <4>1, <4>2
    <3> QED BY <3>1, <3>2
  <2>6. Flattens(g, seqs, k)
    BY <2>4, <2>5 DEF Flattens
  <2> QED BY <1>3, <2>6
<1> QED BY <1>4, <1>5

\* How long the flattened list is, when start counts the elements.
LEMMA FlattenLength ==
  ASSUME NEW V, NEW n \in Nat, NEW seqs \in [1 .. n -> Seq(V)], NEW start \in [0 .. n -> Nat], start[0] = 1,
         \A i \in 0 .. n - 1 : start[i + 1] = start[i] + Len(seqs[i + 1])
  PROVE  Len(FlattenSeq(seqs)) = start[n] - 1
<1>1. Len(seqs) = n /\ DOMAIN seqs = 1 .. n
  OBVIOUS
<1>2. CASE n = 0
  <2>1. FlattenSeq(seqs) = seqs
    BY <1>1, <1>2 DEF FlattenSeq
  <2> QED BY <1>1, <1>2, <2>1
<1>3. CASE n # 0
  <2> DEFINE f == Flat(seqs)
  <2>1. Flattens(f, seqs, n)
    BY <1>1, CanBeFlattened DEF Flat
  <2>2. FlattenSeq(seqs) = f[n]
    BY <1>1, <1>3, FlattenIsFlat
  <2> HIDE DEF f
  <2>3. \A i \in 1 .. n : f[i] = IF i = 1 THEN seqs[i] ELSE f[i - 1] \o seqs[i]
    BY <2>1 DEF Flattens
  <2> DEFINE Bad == {i \in 1 .. n : ~(f[i] \in Seq(V) /\ Len(f[i]) = start[i] - 1)}
  <2>4. ASSUME Bad # {}
        PROVE  FALSE
    <3>1. PICK k \in Bad : \A m \in Bad : k <= m
      <4>1. Bad \in SUBSET Nat
        OBVIOUS
      <4> HIDE DEF Bad
      <4> QED BY <2>4, <4>1, Least
    <3>2. k \in 1 .. n /\ seqs[k] \in Seq(V) /\ start[k] \in Nat /\ k - 1 \in 0 .. n - 1
      OBVIOUS
    <3>3. start[k] = start[k - 1] + Len(seqs[k]) /\ start[k - 1] \in Nat
      BY <3>2
    <3>4. CASE k = 1
      <4>1. f[k] = seqs[k] /\ start[k - 1] = 1
        BY <2>3, <3>2, <3>4
      <4>2. f[k] \in Seq(V) /\ Len(f[k]) = start[k] - 1
        BY <3>2, <3>3, <4>1
      <4> QED BY <4>2
    <3>5. CASE k # 1
      <4>1. k - 1 \in 1 .. n /\ k - 1 \notin Bad
        <5>1. k - 1 \in 1 .. n /\ k - 1 < k
          BY <3>2, <3>5
        <5> HIDE DEF Bad
        <5> QED BY <3>1, <3>2, <5>1
      <4>2. f[k - 1] \in Seq(V) /\ Len(f[k - 1]) = start[k - 1] - 1
        BY <4>1
      <4>3. f[k] = f[k - 1] \o seqs[k]
        BY <2>3, <3>2, <3>5
      <4> DEFINE a == f[k - 1]
                 b == seqs[k]
      <4>4. a \in Seq(V) /\ b \in Seq(V) /\ f[k] = a \o b
        BY <3>2, <4>2, <4>3
      <4> HIDE DEF a, b
      <4>5. f[k] \in Seq(V) /\ Len(f[k]) = Len(a) + Len(b) /\ Len(a) \in Nat /\ Len(b) \in Nat
        BY <4>4
      <4>6. Len(f[k]) = start[k] - 1
        BY <3>3, <4>2, <4>5 DEF a, b
      <4> QED BY <4>5, <4>6
    <3> QED BY <3>4, <3>5
  <2>5. n \in 1 .. n /\ n \notin Bad
    <3>1. n \in 1 .. n
      BY <1>3
    <3> HIDE DEF Bad
    <3> QED BY <2>4, <3>1
  <2> QED BY <2>2, <2>5
<1> QED BY <1>2, <1>3

\* The events of some files.
LEMMA InEvents ==
  ASSUME NEW F, NEW e
  PROVE  e \in EventsIn(F) <=> \E f \in F : e \in ToSet(f.events)
  BY DEF EventsIn

\* Of two sets of files; of one file.
LEMMA EventsUnion ==
  ASSUME NEW F, NEW G
  PROVE  EventsIn(F \union G) = EventsIn(F) \union EventsIn(G)
  BY InEvents

LEMMA EventsOfOne ==
  ASSUME NEW f
  PROVE  EventsIn({f}) = ToSet(f.events)
<1>1. \A e : e \in EventsIn({f}) <=> e \in ToSet(f.events)
  BY InEvents
<1>2. EventsIn({f}) = {e \in EventsIn({f}) : TRUE} /\ ToSet(f.events) = {e \in ToSet(f.events) : TRUE}
  OBVIOUS
<1> QED BY <1>1, <1>2

\* What was issued stays issued.
LEMMA IssuedGrows ==
  ASSUME NEW n \in Nat, NEW m \in Nat, n <= m, NEW s \in Seq(Issued(n))
  PROVE  s \in Seq(Issued(m))
<1>1. Issued(n) \subseteq Issued(m)
  BY DEF Issued
<1> HIDE DEF Issued
<1> QED BY <1>1

\* As many elements as numbers they can be told apart by.
LEMMA Counted ==
  ASSUME NEW U, NEW m \in Nat, NEW g \in [U -> 1 .. m],
         \A a, b \in U : g[a] = g[b] => a = b, \A k \in 1 .. m : \E a \in U : g[a] = k
  PROVE  IsFiniteSet(U) /\ Cardinality(U) = m
<1>1. g \in Bijection(U, 1 .. m)
  BY Fun_IsBij
<1>2. Inverse(g, U, 1 .. m) \in Bijection(1 .. m, U)
  BY <1>1, Fun_BijInverse
<1>3. ExistsBijection(1 .. m, U)
  BY <1>2 DEF ExistsBijection
<1>4. IsFiniteSet(1 .. m) /\ Cardinality(1 .. m) = m
  <2>1. 1 \in Int /\ m \in Int /\ (1 > m <=> m = 0)
    OBVIOUS
  <2> QED BY <2>1, FS_Interval
<1> QED BY <1>3, <1>4, FS_Bijection

-----------------------------------------------------------------------------
(* The chain                                                               *)

\* No segment at all, wherever the next one goes.
LEMMA NoChain ==
  ASSUME NEW b \in Nat, NEW n \in Nat
  PROVE  Linked({}, b, b, [i \in b .. b |-> 1], n)
  BY DEF Linked

\* Later events do not matter to the segments there are.
LEMMA ChainStays ==
  ASSUME NEW S, NEW base, NEW top, NEW start, NEW n \in Nat, NEW m \in Nat, n <= m, Linked(S, base, top, start, n)
  PROVE  Linked(S, base, top, start, m)
<1>1. start[top] \in Nat /\ start[top] <= m + 1
  <2>1. top \in base .. top
    BY DEF Linked
  <2> QED BY <2>1 DEF Linked
<1>2. ASSUME NEW s \in S
      PROVE  LinkOK(s, S, base, top, start, m)
  <2>1. LinkOK(s, S, base, top, start, n)
    BY DEF Linked
  <2>2. s.events \in Seq(Issued(m))
    BY <2>1, IssuedGrows DEF LinkOK
  <2> QED BY <2>1, <2>2 DEF LinkOK
<1> QED BY <1>1, <1>2 DEF Linked

\* One segment more at the end of the chain.
LEMMA ChainGrows ==
  ASSUME NEW S, NEW base, NEW top, NEW start, NEW n \in Nat, Linked(S, base, top, start, n),
         NEW r, DOMAIN r = {"index", "prev", "events"}, r.index = top, Heads(r.prev, S, top),
         r.events \in Seq(Issued(n)), NumberedFrom(r.events, start[top])
  PROVE  LET longer == [i \in base .. top + 1 |-> IF i <= top THEN start[i] ELSE start[top] + Len(r.events)]
         IN Linked(S \union {r}, base, top + 1, longer, n)
<1> DEFINE T == S \union {r}
           k == Len(r.events)
           longer == [i \in base .. top + 1 |-> IF i <= top THEN start[i] ELSE start[top] + k]
<1>1. /\ base \in Nat /\ top \in Nat /\ base <= top /\ k \in Nat
      /\ start \in [base .. top -> Nat] /\ start[base] = 1 /\ start[top] <= n + 1
      /\ \A i, j \in base .. top : i <= j => start[i] <= start[j]
  BY DEF Linked
<1>2. start[top] \in Nat /\ start[top] >= 1
  <2>1. top \in base .. top /\ base \in base .. top
    BY <1>1
  <2> QED BY <1>1, <2>1
<1>3. start[top] + k <= n + 1
  <2>1. CASE k = 0
    BY <1>1, <1>2, <2>1
  <2>2. CASE k # 0
    <3>1. k \in 1 .. k /\ r.events[k] \in Issued(n)
      BY <1>1, <2>2
    <3>2. r.events[k].seq = start[top] + k - 1 /\ r.events[k].seq \in 1 .. n
      BY <3>1 DEF NumberedFrom, Issued
    <3> HIDE DEF k
    <3> QED BY <1>1, <1>2, <3>2
  <2> QED BY <2>1, <2>2
<1> HIDE DEF k
<1>4. /\ longer \in [base .. top + 1 -> Nat] /\ longer[top + 1] = start[top] + k
      /\ \A i \in base .. top : longer[i] = start[i]
  BY <1>1, <1>2
<1>5. /\ longer[base] = 1 /\ longer[top + 1] <= n + 1 /\ longer[top] = start[top]
      /\ \A i, j \in base .. top + 1 : i <= j => longer[i] <= longer[j]
  <2>1. base \in base .. top /\ top \in base .. top
    BY <1>1
  <2>2. ASSUME NEW i \in base .. top + 1, NEW j \in base .. top + 1, i <= j
        PROVE  longer[i] <= longer[j]
    <3>1. CASE j \in base .. top
      <4>1. i \in base .. top
        BY <1>1, <2>2, <3>1
      <4> HIDE DEF longer
      <4> QED BY <1>1, <1>4, <2>2, <3>1, <4>1
    <3>2. CASE j \notin base .. top /\ i \in base .. top
      <4>1. j = top + 1 /\ start[i] <= start[top] /\ start[i] \in Nat
        BY <1>1, <2>1, <3>2
      <4> HIDE DEF longer
      <4> QED BY <1>1, <1>2, <1>4, <3>2, <4>1
    <3>3. CASE j \notin base .. top /\ i \notin base .. top
      <4>1. i = j
        BY <1>1, <3>3
      <4>2. longer[i] \in Nat
        BY <1>4
      <4> HIDE DEF longer
      <4> QED BY <4>1, <4>2
    <3> QED BY <3>1, <3>2, <3>3
  <2> HIDE DEF longer
  <2> QED BY <1>1, <1>3, <1>4, <2>1, <2>2
<1> HIDE DEF longer
<1>6. \A s \in S : LinkOK(s, S, base, top, start, n)
  BY DEF Linked
<1>7. \A s \in S : s.index \in base .. top - 1 /\ s # r
  BY <1>1, <1>6 DEF LinkOK
<1>8. ASSUME NEW s \in S
      PROVE  LinkOK(s, T, base, top + 1, longer, n)
  <2>1. LinkOK(s, S, base, top, start, n) /\ s.index \in base .. top - 1
    BY <1>6, <1>7
  <2>2. s.index \in base .. top /\ s.index + 1 \in base .. top /\ s.index \in base .. (top + 1) - 1 /\ s.index # top + 1
    BY <1>1, <2>1
  <2>3. \A t \in T : s.index = t.index + 1 => t \in S
    BY <2>2
  <2>4. longer[s.index] = start[s.index] /\ longer[s.index + 1] = start[s.index + 1]
    BY <1>4, <2>2
  <2>5. \A t \in T : s.index = t.index + 1 => s.prev = t
    BY <2>1, <2>3 DEF LinkOK
  <2>6. /\ DOMAIN s = {"index", "prev", "events"} /\ s.events \in Seq(Issued(n))
        /\ start[s.index + 1] = start[s.index] + Len(s.events) /\ NumberedFrom(s.events, start[s.index])
        /\ (s.index = base => s.prev = NoHash)
    BY <2>1 DEF LinkOK
  <2>7. /\ s.index \in base .. (top + 1) - 1
        /\ longer[s.index + 1] = longer[s.index] + Len(s.events) /\ NumberedFrom(s.events, longer[s.index])
    BY <2>2, <2>4, <2>6
  <2> QED BY <2>5, <2>6, <2>7 DEF LinkOK
<1>9. LinkOK(r, T, base, top + 1, longer, n)
  <2>1. r.index \in base .. (top + 1) - 1
    BY <1>1
  <2>2. longer[r.index + 1] = longer[r.index] + Len(r.events) /\ NumberedFrom(r.events, longer[r.index])
    BY <1>4, <1>5 DEF k
  <2>3. r.index = base => r.prev = NoHash
    <3>1. ASSUME base = top
          PROVE  S = {}
      <4>1. \A s \in S : FALSE
        BY <1>1, <1>7, <3>1
      <4> QED BY <4>1
    <3> QED BY <3>1 DEF Heads
  <2>4. \A t \in T : r.index = t.index + 1 => r.prev = t
    <3>1. ASSUME NEW t \in T, r.index = t.index + 1
          PROVE  r.prev = t
      <4>1. t \in S
        BY <1>1, <3>1
      <4> QED BY <3>1, <4>1 DEF Heads
    <3> QED BY <3>1
  <2> QED BY <2>1, <2>2, <2>3, <2>4 DEF LinkOK
<1>10. \A i \in base .. (top + 1) - 1 : \E s \in T : s.index = i
  <2> SUFFICES ASSUME NEW i \in base .. (top + 1) - 1
               PROVE  \E s \in T : s.index = i
    OBVIOUS
  <2>1. i = top \/ i \in base .. top - 1
    BY <1>1
  <2>2. \A j \in base .. top - 1 : \E s \in S : s.index = j
    BY DEF Linked
  <2> QED BY <2>1, <2>2
<1>11. \A s, t \in T : s.index = t.index => s = t
  <2>1. \A s, t \in S : s.index = t.index => s = t
    BY DEF Linked
  <2>2. \A s \in S : s.index # r.index
    BY <1>1, <1>7
  <2> QED BY <2>1, <2>2
<1>12. \A l \in 1 .. longer[top + 1] - 1 : \E s \in T : longer[s.index] <= l /\ l < longer[s.index + 1]
  <2> SUFFICES ASSUME NEW l \in 1 .. longer[top + 1] - 1
               PROVE  \E s \in T : longer[s.index] <= l /\ l < longer[s.index + 1]
    OBVIOUS
  <2>1. CASE l < start[top]
    <3>1. l \in 1 .. start[top] - 1
      BY <1>1, <1>2, <1>4, <2>1
    <3>2. PICK s \in S : start[s.index] <= l /\ l < start[s.index + 1]
      BY <3>1 DEF Linked
    <3>3. s.index \in base .. top /\ s.index + 1 \in base .. top
      BY <1>1, <1>7
    <3>4. longer[s.index] = start[s.index] /\ longer[s.index + 1] = start[s.index + 1]
      BY <1>4, <3>3
    <3> QED BY <3>2, <3>4
  <2>2. CASE ~(l < start[top])
    <3>1. longer[r.index] <= l /\ l < longer[r.index + 1]
      BY <1>1, <1>2, <1>4, <1>5, <2>2
    <3> QED BY <3>1
  <2> QED BY <2>1, <2>2
<1>13. \A s \in T : LinkOK(s, T, base, top + 1, longer, n)
  BY <1>8, <1>9
<1>14. base <= top + 1 /\ top + 1 \in Nat
  BY <1>1
<1> HIDE DEF T
<1>15. Linked(T, base, top + 1, longer, n)
  BY <1>1, <1>4, <1>5, <1>10, <1>11, <1>12, <1>13, <1>14 DEF Linked
<1> QED BY <1>15 DEF longer, k, T

\* The fields of a chain, one by one.
LEMMA ChainFields ==
  ASSUME NEW S, NEW base, NEW top, NEW start, NEW n \in Nat, Linked(S, base, top, start, n)
  PROVE  /\ base \in Nat /\ top \in Nat /\ base <= top
         /\ start \in [base .. top -> Nat] /\ start[base] = 1 /\ start[top] \in Nat /\ start[top] >= 1 /\ start[top] <= n + 1
         /\ \A i, j \in base .. top : i <= j => start[i] <= start[j]
         /\ \A s \in S : /\ s.index \in base .. top - 1 /\ s.index \in base .. top /\ s.index + 1 \in base .. top
                         /\ s.events \in Seq(Issued(n)) /\ NumberedFrom(s.events, start[s.index])
                         /\ start[s.index + 1] = start[s.index] + Len(s.events)
                         /\ start[s.index] \in Nat /\ start[s.index + 1] \in Nat
                         /\ start[s.index] >= 1 /\ start[s.index + 1] <= start[top]
<1>1. /\ base \in Nat /\ top \in Nat /\ base <= top
      /\ start \in [base .. top -> Nat] /\ start[base] = 1 /\ start[top] <= n + 1
      /\ \A i, j \in base .. top : i <= j => start[i] <= start[j]
  BY DEF Linked
<1>2. base \in base .. top /\ top \in base .. top
  BY <1>1
<1>3. start[top] \in Nat /\ start[top] >= 1
  BY <1>1, <1>2
<1>4. ASSUME NEW s \in S
      PROVE  /\ s.index \in base .. top - 1 /\ s.index \in base .. top /\ s.index + 1 \in base .. top
             /\ s.events \in Seq(Issued(n)) /\ NumberedFrom(s.events, start[s.index])
             /\ start[s.index + 1] = start[s.index] + Len(s.events)
             /\ start[s.index] \in Nat /\ start[s.index + 1] \in Nat
             /\ start[s.index] >= 1 /\ start[s.index + 1] <= start[top]
  <2>1. LinkOK(s, S, base, top, start, n)
    BY DEF Linked
  <2>2. /\ s.index \in base .. top - 1 /\ s.events \in Seq(Issued(n)) /\ NumberedFrom(s.events, start[s.index])
        /\ start[s.index + 1] = start[s.index] + Len(s.events)
    BY <2>1 DEF LinkOK
  <2>3. s.index \in base .. top /\ s.index + 1 \in base .. top
    BY <1>1, <2>2
  <2>4. start[s.index] \in Nat /\ start[s.index + 1] \in Nat /\ start[s.index] >= 1 /\ start[s.index + 1] <= start[top]
    BY <1>1, <1>2, <2>3
  <2> QED BY <2>2, <2>3, <2>4
<1> QED BY <1>1, <1>3, <1>4

\* A session that can be read starts with segment 0.
LEMMA ReadableStarts ==
  ASSUME NEW base, NEW top, NEW start, NEW n \in Nat, Linked(sealed, base, top, start, n), Readable,
         IsFiniteSet(sealed)
  PROVE  \E t, st : Linked(sealed, 0, t, st, n)
<1>1. CASE sealed = {}
  <2>1. Linked(sealed, 0, 0, [i \in 0 .. 0 |-> 1], n)
    BY <1>1, NoChain
  <2> QED BY <2>1
<1>2. CASE sealed # {}
  <2>1. Segments \in Nat /\ Segments # 0
    BY <1>2, FS_CardinalityType, FS_EmptySet DEF Segments
  <2>2. 0 \in 0 .. Segments - 1
    BY <2>1
  <2>3. PICK s \in sealed : s.index = 0
    BY <2>2 DEF Readable
  <2>4. base = 0
    <3>1. base \in Nat /\ s.index \in base .. top - 1 /\ top \in Nat
      BY ChainFields
    <3> QED BY <2>3, <3>1
  <2> QED BY <2>4
<1> QED BY <1>1, <1>2

\* There are as many segments as indices.
LEMMA ChainSize ==
  ASSUME NEW S, NEW base, NEW top, NEW start, NEW n \in Nat, Linked(S, base, top, start, n)
  PROVE  IsFiniteSet(S) /\ Cardinality(S) = top - base
<1>1. /\ base \in Nat /\ top \in Nat /\ base <= top /\ \A s \in S : s.index \in base .. top - 1
  BY ChainFields
<1> DEFINE m == top - base
           g == [s \in S |-> s.index - base + 1]
<1>2. m \in Nat
  BY <1>1
<1>3. g \in [S -> 1 .. m]
  BY <1>1
<1>4. \A a, b \in S : g[a] = g[b] => a = b
  <2>1. \A a, b \in S : a.index = b.index => a = b
    BY DEF Linked
  <2>2. \A a, b \in S : g[a] = g[b] => a.index = b.index
    BY <1>1
  <2> QED BY <2>1, <2>2
<1>5. \A k \in 1 .. m : \E a \in S : g[a] = k
  <2> SUFFICES ASSUME NEW k \in 1 .. m
               PROVE  \E a \in S : g[a] = k
    OBVIOUS
  <2>1. base + k - 1 \in base .. top - 1
    BY <1>1
  <2>2. PICK a \in S : a.index = base + k - 1
    BY <2>1 DEF Linked
  <2>3. g[a] = k
    BY <1>1, <2>2
  <2> QED BY <2>3
<1> HIDE DEF g, m
<1>6. IsFiniteSet(S) /\ Cardinality(S) = m
  BY <1>2, <1>3, <1>4, <1>5, Counted
<1> QED BY <1>6 DEF m

\* What read_session reads of a chain from segment 0: all of it, in order.
LEMMA ChainIsRead ==
  ASSUME NEW top, NEW start, NEW n \in Nat, Linked(sealed, 0, top, start, n)
  PROVE  /\ Segments = top /\ Len(ReadSession) = start[top] - 1
         /\ Heads(ChainHead, sealed, top)
<1>1. /\ top \in Nat /\ start \in [0 .. top -> Nat] /\ start[0] = 1
      /\ \A s \in sealed : /\ s.index \in 0 .. top - 1 /\ s.events \in Seq(Issued(n))
                           /\ start[s.index + 1] = start[s.index] + Len(s.events)
  BY ChainFields
<1>2. Segments = top
  BY <1>1, ChainSize DEF Segments
<1>3. ASSUME NEW i \in 0 .. top - 1
      PROVE  At(i) \in sealed /\ At(i).index = i
  <2>1. \E s \in sealed : s.index = i
    BY DEF Linked
  <2> QED BY <2>1 DEF At
<1>4. Len(InOrder) = top /\ DOMAIN InOrder = 1 .. top /\ \A i \in 1 .. top : InOrder[i] = At(i - 1)
  BY <1>1, <1>2 DEF InOrder
<1> DEFINE seqs == [i \in 1 .. Len(InOrder) |-> InOrder[i].events]
<1>5. seqs \in [1 .. top -> Seq(Issued(n))] /\ \A i \in 0 .. top - 1 : start[i + 1] = start[i] + Len(seqs[i + 1])
  <2>1. \A i \in 1 .. top : seqs[i] = At(i - 1).events /\ i - 1 \in 0 .. top - 1
    BY <1>1, <1>4
  <2>2. \A i \in 1 .. top : seqs[i] \in Seq(Issued(n))
    BY <1>1, <1>3, <2>1
  <2>3. seqs = [i \in 1 .. top |-> seqs[i]]
    BY <1>4
  <2> HIDE DEF seqs
  <2>4. seqs \in [1 .. top -> Seq(Issued(n))]
    BY <2>2, <2>3
  <2>5. ASSUME NEW i \in 0 .. top - 1
        PROVE  start[i + 1] = start[i] + Len(seqs[i + 1])
    <3>1. i + 1 \in 1 .. top /\ (i + 1) - 1 = i
      BY <1>1
    <3>2. seqs[i + 1] = At(i).events
      BY <2>1, <3>1
    <3>3. At(i) \in sealed /\ At(i).index = i
      BY <1>3
    <3> QED BY <1>1, <3>2, <3>3
  <2> QED BY <2>4, <2>5
<1>6. Len(ReadSession) = start[top] - 1
  <2>1. ReadSession = FlattenSeq(seqs)
    BY DEF ReadSession, EventsOf
  <2> HIDE DEF seqs
  <2>2. Len(FlattenSeq(seqs)) = start[top] - 1
    BY <1>1, <1>5, FlattenLength
  <2> QED BY <2>1, <2>2
<1>7. Heads(ChainHead, sealed, top)
  <2>1. CASE top = 0
    <3>1. sealed = {}
      <4>1. \A s \in sealed : FALSE
        BY <1>1, <2>1
      <4> QED BY <4>1
    <3> QED BY <1>2, <2>1, <3>1 DEF ChainHead, Heads
  <2>2. CASE top # 0
    <3>1. top - 1 \in 0 .. top - 1 /\ top \in 1 .. top
      BY <1>1, <2>2
    <3>2. ChainHead = At(top - 1)
      BY <1>2, <1>4, <2>2, <3>1 DEF ChainHead
    <3>3. At(top - 1) \in sealed /\ At(top - 1).index = top - 1
      BY <1>3, <3>1
    <3>4. \A s, t \in sealed : s.index = t.index => s = t
      BY DEF Linked
    <3>5. ASSUME NEW t \in sealed, t.index + 1 = top
          PROVE  ChainHead = t
      <4>1. t.index = top - 1
        BY <1>1, <3>5
      <4> QED BY <3>2, <3>3, <3>4, <4>1
    <3> QED BY <3>3, <3>5 DEF Heads
  <2> QED BY <2>1, <2>2
<1> QED BY <1>2, <1>6, <1>7

\* Up to a segment there are as many events as sequence numbers.
LEMMA EventsBefore ==
  ASSUME NEW S, NEW base, NEW top, NEW start, NEW n \in Nat, Linked(S, base, top, start, n), NEW s \in S
  PROVE  Cardinality(EventsIn({t \in S : t.index < s.index})) = start[s.index] - 1
<1> DEFINE B == {t \in S : t.index < s.index}
           U == EventsIn(B)
           m == start[s.index] - 1
<1>1. /\ base \in Nat /\ top \in Nat /\ start \in [base .. top -> Nat]
      /\ \A i, j \in base .. top : i <= j => start[i] <= start[j]
      /\ \A t \in S : /\ t.index \in base .. top /\ t.index + 1 \in base .. top
                      /\ t.events \in Seq(Issued(n)) /\ NumberedFrom(t.events, start[t.index])
                      /\ start[t.index + 1] = start[t.index] + Len(t.events)
                      /\ start[t.index] \in Nat /\ start[t.index] >= 1
                      /\ start[t.index + 1] <= start[top] /\ start[t.index + 1] \in Nat
  BY ChainFields
<1>2. m \in Nat
  BY <1>1
<1>3. ASSUME NEW e \in U
      PROVE  \E t \in B : /\ start[t.index] <= e.seq /\ e.seq < start[t.index + 1] /\ e.seq \in 1 .. m
                          /\ e.seq + 1 - start[t.index] \in 1 .. Len(t.events)
                          /\ e = t.events[e.seq + 1 - start[t.index]]
  <2>1. PICK t \in B : e \in ToSet(t.events)
    BY InEvents
  <2>2. PICK i \in 1 .. Len(t.events) : e = t.events[i]
    BY <1>1, <2>1 DEF ToSet
  <2>3. t \in S /\ t.index < s.index
    BY <2>1
  <2>4. e.seq = start[t.index] + i - 1
    BY <1>1, <2>2, <2>3 DEF NumberedFrom
  <2>5. start[t.index + 1] <= start[s.index]
    <3>1. t.index + 1 \in base .. top /\ s.index \in base .. top /\ t.index + 1 <= s.index
      BY <1>1, <2>3
    <3> QED BY <1>1, <3>1
  <2>6. start[t.index] \in Nat /\ start[t.index] >= 1 /\ start[t.index + 1] = start[t.index] + Len(t.events)
        /\ Len(t.events) \in Nat /\ start[s.index] \in Nat /\ i \in 1 .. Len(t.events)
    BY <1>1, <2>3
  <2>7. e.seq + 1 - start[t.index] = i
    BY <2>4, <2>6
  <2>8. start[t.index] <= e.seq /\ e.seq < start[t.index + 1] /\ e.seq \in 1 .. m
    BY <2>4, <2>5, <2>6
  <2> QED BY <2>1, <2>2, <2>6, <2>7, <2>8
<1>4. ASSUME NEW k \in 1 .. m
      PROVE  \E e \in U : e.seq = k
  <2>1. k \in 1 .. start[top] - 1 /\ k < start[s.index] /\ start[s.index] \in Nat
    <3>1. start[s.index] <= start[top] /\ start[s.index] \in Nat /\ start[top] \in Nat
      <4>1. top \in base .. top /\ s.index <= top
        BY <1>1
      <4> QED BY <1>1, <4>1
    <3> QED BY <3>1
  <2>2. PICK t \in S : start[t.index] <= k /\ k < start[t.index + 1]
    BY <2>1 DEF Linked
  <2>3. t.index < s.index
    <3>1. ASSUME t.index >= s.index
          PROVE  FALSE
      <4>1. start[s.index] <= start[t.index]
        BY <1>1, <3>1
      <4> QED BY <1>1, <2>1, <2>2, <4>1
    <3>2. t.index \in base .. top /\ s.index \in base .. top
      BY <1>1
    <3> QED BY <1>1, <3>1, <3>2
  <2> DEFINE i == k - start[t.index] + 1
  <2>4. i \in 1 .. Len(t.events) /\ start[t.index] + i - 1 = k
    <3>1. start[t.index] \in Nat /\ start[t.index + 1] = start[t.index] + Len(t.events) /\ Len(t.events) \in Nat
      BY <1>1
    <3> QED BY <2>2, <3>1
  <2> HIDE DEF i
  <2>5. t.events[i].seq = k
    BY <1>1, <2>4 DEF NumberedFrom
  <2>6. t.events[i] \in ToSet(t.events)
    <3>1. t.events \in Seq(Issued(n))
      BY <1>1
    <3>2. DOMAIN t.events = 1 .. Len(t.events)
      BY <3>1
    <3> QED BY <2>4, <3>2 DEF ToSet
  <2>7. t \in B
    BY <2>3
  <2> QED BY <2>5, <2>6, <2>7, InEvents
<1>5. ASSUME NEW a \in U, NEW b \in U, a.seq = b.seq
      PROVE  a = b
  <2>1. PICK t \in B : /\ start[t.index] <= a.seq /\ a.seq < start[t.index + 1] /\ a.seq \in 1 .. m
                       /\ a = t.events[a.seq + 1 - start[t.index]]
    BY <1>3
  <2>2. PICK u \in B : /\ start[u.index] <= b.seq /\ b.seq < start[u.index + 1]
                       /\ b = u.events[b.seq + 1 - start[u.index]]
    BY <1>3
  <2>3. /\ t \in S /\ u \in S /\ t.index \in base .. top /\ u.index \in base .. top
        /\ t.index + 1 \in base .. top /\ u.index + 1 \in base .. top
        /\ start[t.index] \in Nat /\ start[u.index] \in Nat /\ start[t.index + 1] \in Nat /\ start[u.index + 1] \in Nat
    BY <1>1
  <2>4. ~(t.index < u.index)
    <3>1. ASSUME t.index < u.index
          PROVE  FALSE
      <4>1. t.index + 1 <= u.index
        BY <1>1, <2>3, <3>1
      <4>2. start[t.index + 1] <= start[u.index]
        BY <1>1, <2>3, <4>1
      <4> QED BY <1>2, <1>5, <2>1, <2>2, <2>3, <4>2
    <3> QED BY <3>1
  <2>5. ~(u.index < t.index)
    <3>1. ASSUME u.index < t.index
          PROVE  FALSE
      <4>1. u.index + 1 <= t.index
        BY <1>1, <2>3, <3>1
      <4>2. start[u.index + 1] <= start[t.index]
        BY <1>1, <2>3, <4>1
      <4> QED BY <1>2, <1>5, <2>1, <2>2, <2>3, <4>2
    <3> QED BY <3>1
  <2>6. t.index = u.index
    BY <1>1, <2>3, <2>4, <2>5
  <2>7. t = u
    <3>1. \A x, y \in S : x.index = y.index => x = y
      BY DEF Linked
    <3> QED BY <2>3, <2>6, <3>1
  <2> QED BY <1>5, <2>1, <2>2, <2>7
<1> DEFINE g == [e \in U |-> e.seq]
<1> HIDE DEF U, m
<1>6. g \in [U -> 1 .. m] /\ (\A a, b \in U : g[a] = g[b] => a = b) /\ \A k \in 1 .. m : \E a \in U : g[a] = k
  BY <1>3, <1>4, <1>5
<1> HIDE DEF g
<1>7. Cardinality(U) = m
  BY <1>2, <1>6, Counted
<1> QED BY <1>7 DEF U, m

\* A chain in this sense is one in the sense of ChainLinked.
LEMMA ChainIsLinked ==
  ASSUME NEW base, NEW top, NEW start, NEW n \in Nat, Linked(sealed, base, top, start, n)
  PROVE  ChainLinked
<1> DEFINE before(s) == {t \in sealed : t.index < s.index}
           last(S) == CHOOSE t \in S : \A u \in S : u.index <= t.index
           first(s) == IF before(s) = {} THEN 1
                       ELSE 1 + Cardinality(UNION {ToSet(t.events) : t \in before(s)})
<1>1. /\ base \in Nat /\ top \in Nat
      /\ \A s \in sealed : s.index \in base .. top - 1 /\ start[s.index] \in Nat /\ NumberedFrom(s.events, start[s.index])
                           /\ s.events \in Seq(Issued(n))
      /\ start[base] = 1
  BY ChainFields
<1>2. ASSUME NEW s \in sealed
      PROVE  /\ s.prev = IF before(s) = {} THEN NoHash ELSE last(before(s))
             /\ \A i \in DOMAIN s.events : s.events[i].seq = first(s) + i - 1
  <2>1. LinkOK(s, sealed, base, top, start, n)
    BY DEF Linked
  <2>2. CASE s.index = base
    <3>1. before(s) = {}
      <4>1. \A t \in sealed : ~(t.index < s.index)
        BY <1>1, <2>2
      <4> QED BY <4>1
    <3>2. s.prev = NoHash
      BY <2>1, <2>2 DEF LinkOK
    <3>3. first(s) = 1 /\ start[s.index] = 1
      BY <1>1, <2>2, <3>1
    <3>4. \A i \in 1 .. Len(s.events) : s.events[i].seq = 1 + i - 1
      BY <1>1, <3>3 DEF NumberedFrom
    <3>5. DOMAIN s.events = 1 .. Len(s.events)
      BY <1>1
    <3> HIDE DEF before, last, first
    <3> QED BY <3>1, <3>2, <3>3, <3>4, <3>5
  <2>3. CASE s.index # base
    <3>1. s.index - 1 \in base .. top - 1
      BY <1>1, <2>3
    <3>2. PICK t \in sealed : t.index = s.index - 1
      BY <3>1 DEF Linked
    <3>3. t \in before(s) /\ before(s) # {}
      BY <1>1, <3>2
    <3>4. s.prev = t
      <4>1. s.index = t.index + 1
        BY <1>1, <3>2
      <4> QED BY <2>1, <4>1 DEF LinkOK
    <3>5. \A u \in before(s) : u.index <= t.index /\ u.index \in Nat /\ u \in sealed
      BY <1>1, <3>2
    <3>6. last(before(s)) = t
      <4> DEFINE b == before(s)
                 z == CHOOSE x \in b : \A u \in b : u.index <= x.index
      <4>1. t \in b /\ \A u \in b : u.index <= t.index /\ u.index \in Nat /\ u \in sealed
        BY <3>3, <3>5
      <4> HIDE DEF b
      <4>2. z \in b /\ \A u \in b : u.index <= z.index
        BY <4>1
      <4>3. z.index = t.index
        BY <4>1, <4>2
      <4>4. \A x, y \in sealed : x.index = y.index => x = y
        BY DEF Linked
      <4>5. z = t
        BY <4>1, <4>2, <4>3, <4>4
      <4> QED BY <4>5 DEF b
    <3>7. first(s) = start[s.index]
      <4>1. Cardinality(EventsIn(before(s))) = start[s.index] - 1
        BY EventsBefore
      <4>2. first(s) = 1 + Cardinality(EventsIn(before(s)))
        BY <3>3 DEF EventsIn
      <4> HIDE DEF before, first
      <4> QED BY <1>1, <4>1, <4>2
    <3>8. DOMAIN s.events = 1 .. Len(s.events) /\ \A i \in 1 .. Len(s.events) : s.events[i].seq = start[s.index] + i - 1
      BY <1>1 DEF NumberedFrom
    <3> HIDE DEF before, last, first
    <3> QED BY <3>3, <3>4, <3>6, <3>7, <3>8
  <2> QED BY <2>2, <2>3
<1> HIDE DEF before, last, first
<1> QED BY <1>2 DEF ChainLinked, before, last, first

-----------------------------------------------------------------------------
(* One step                                                                *)

\* Only one process is not down.
LEMMA OthersAreDown ==
  ASSUME ProcsInv, NEW p \in Procs, proc[p].pc # "down"
  PROVE  \A q \in Procs : q # p => proc[q].pc = "down"
  BY DEF ProcsInv, Alone

\* A process that is down holds nothing and stays in order whatever happens to the files.
LEMMA DownIsFine ==
  ASSUME NEW s, s.pc = "down", NEW n \in Nat, NEW m \in Nat, n <= m, Has(s, n)
  PROVE  /\ Has(s, m) /\ s.cur = NoSegment
         /\ \A O, P, E : Backed(s, O, P, E)
         /\ \A S, base, top, start : Fits(s, S, base, top, start, m)
<1>1. /\ s.cur = NoSegment /\ s.seq \in 1 .. n + 1 /\ s.todo \in Seq(Issued(n))
      /\ DOMAIN s = Fields /\ s.next \in Nat /\ s.degraded \in BOOLEAN /\ s.sealed \in BOOLEAN
      /\ s.mine = {} /\ ~s.degraded /\ ~s.sealed
  BY DEF Has, Working
<1>2. s.seq \in 1 .. m + 1 /\ s.todo \in Seq(Issued(m))
  BY <1>1, IssuedGrows
<1>3. Has(s, m)
  BY <1>1, <1>2 DEF Has, Places
<1>4. ASSUME NEW O, NEW P, NEW E
      PROVE  Backed(s, O, P, E)
  BY DEF Backed, Working
<1>5. ASSUME NEW S, NEW base, NEW top, NEW start
      PROVE  Fits(s, S, base, top, start, m)
  BY <1>1 DEF Fits, Continues, Working
<1> QED BY <1>1, <1>3, <1>4, <1>5

\* What is in memory is in the memory of the one process that is not down.
LEMMA MemoryIs ==
  ASSUME DOMAIN proc = Procs, NEW p \in Procs, \A q \in Procs : q # p => proc[q].cur = NoSegment
  PROVE  InMemory = Memory(proc[p])
<1>1. CASE proc[p].cur = NoSegment
  <2>1. {q \in Procs : proc[q].cur # NoSegment} = {}
    BY <1>1
  <2> QED BY <1>1, <2>1 DEF InMemory, Memory
<1>2. CASE proc[p].cur # NoSegment
  <2>1. {q \in Procs : proc[q].cur # NoSegment} = {p}
    BY <1>2
  <2>2. InMemory = UNION {ToSet(proc[q].cur.events) : q \in {p}}
    BY <2>1 DEF InMemory
  <2>3. UNION {ToSet(proc[q].cur.events) : q \in {p}} = ToSet(proc[p].cur.events)
    OBVIOUS
  <2> QED BY <1>2, <2>2, <2>3 DEF Memory
<1> QED BY <1>1, <1>2

\* What is lost at most in one step, when a set X may be.
LEMMA LossGrows ==
  ASSUME NEW A, NEW K, NEW B, NEW L, NEW X, IsFiniteSet(A), IsFiniteSet(X),
         NEW f \in Nat, NEW g \in Nat, Losses(A, K) <= f * (FlushEvery - 1),
         B \subseteq A \union L, K \subseteq L \union X,
         (X = {} /\ f <= g) \/ (g = f + 1 /\ Cardinality(X) <= FlushEvery - 1)
  PROVE  Losses(B, L) <= g * (FlushEvery - 1)
<1>0. Losses(A, K) = Cardinality(A \ K) /\ Losses(B, L) = Cardinality(B \ L)
  BY DEF Losses
<1>1. IsFiniteSet(A \ K) /\ B \ L \subseteq (A \ K) \union X
  BY FS_Difference
<1>2. /\ IsFiniteSet((A \ K) \union X)
      /\ Cardinality((A \ K) \union X) <= Cardinality(A \ K) + Cardinality(X)
  <2>1. IsFiniteSet((A \ K) \cap X) /\ Cardinality((A \ K) \cap X) \in Nat
    BY <1>1, FS_Intersection, FS_CardinalityType
  <2>2. Cardinality(A \ K) \in Nat /\ Cardinality(X) \in Nat
    BY <1>1, FS_CardinalityType
  <2>3. /\ IsFiniteSet((A \ K) \union X)
        /\ Cardinality((A \ K) \union X) = Cardinality(A \ K) + Cardinality(X) - Cardinality((A \ K) \cap X)
    BY <1>1, FS_Union
  <2> QED BY <2>1, <2>2, <2>3
<1>3. Cardinality(B \ L) <= Cardinality((A \ K) \union X) /\ Cardinality(B \ L) \in Nat
  BY <1>1, <1>2, FS_Subset, FS_CardinalityType
<1> DEFINE b == Cardinality(B \ L)
           a == Cardinality(A \ K)
           x == Cardinality(X)
           w == FlushEvery - 1
<1>4. b <= a + x /\ a <= f * w /\ b \in Nat /\ a \in Nat /\ x \in Nat /\ w \in Nat
  <2>1. a \in Nat /\ x \in Nat /\ w \in Nat
    BY <1>1, FS_CardinalityType, StoreAssumption
  <2>2. Cardinality((A \ K) \union X) \in Nat
    BY <1>2, FS_CardinalityType
  <2> QED BY <1>0, <1>2, <1>3, <2>1, <2>2
<1>5. (x = 0 /\ f <= g) \/ (g = f + 1 /\ x <= w)
  BY FS_EmptySet
<1> HIDE DEF b, a, x, w
<1>6. CASE x = 0 /\ f <= g
  <2>1. f * w <= g * w /\ f * w \in Nat /\ g * w \in Nat
    BY <1>4, <1>6
  <2>2. b <= g * w
    BY <1>4, <1>6, <2>1
  <2> QED BY <1>0, <2>2 DEF b, w
<1>7. CASE g = f + 1 /\ x <= w
  <2>1. (f + 1) * w = f * w + w /\ f * w \in Nat
    BY <1>4
  <2>2. b <= g * w
    BY <1>4, <1>7, <2>1
  <2> QED BY <1>0, <2>2 DEF b, w
<1> QED BY <1>5, <1>6, <1>7

\* A step of the process that is not down, or that is the first not to be.
LEMMA StepKeeps ==
  ASSUME StoreInv, NEW p \in Procs, \A q \in Procs : q # p => proc[q].pc = "down",
         NEW g, proc' = [proc EXCEPT ![p] = g], appended <= appended', FilesInv',
         Has(g, appended'), Backed(g, open', preserved', EventsIn(sealed')),
         NEW base, NEW top, NEW start, Linked(sealed', base, top, start, appended'),
         Fits(g, sealed', base, top, start, appended'),
         NEW X, IsFiniteSet(X), (X = {} /\ faults <= faults') \/ (faults' = faults + 1 /\ Cardinality(X) <= FlushEvery - 1),
         EventsIn(sealed) \subseteq EventsIn(sealed'),
         EventsIn(open \union preserved) \union Memory(proc[p])
           \subseteq EventsIn(sealed') \union EventsIn(open' \union preserved') \union Memory(g) \union X,
         acked' \subseteq acked \union Memory(g)
  PROVE  StoreInv'
<1>1. appended \in Nat /\ appended' \in Nat /\ faults \in Nat /\ faults' \in Nat /\ IsFiniteSet(acked)
  BY DEF StoreInv, FilesInv
<1>2. DOMAIN proc = Procs /\ DOMAIN proc' = Procs /\ proc'[p] = g /\ \A q \in Procs : q # p => proc'[q] = proc[q]
  BY DEF StoreInv, ProcsInv
<1>3. ASSUME NEW q \in Procs, q # p
      PROVE  /\ proc'[q].pc = "down" /\ proc[q].cur = NoSegment /\ proc'[q].cur = NoSegment
             /\ Has(proc'[q], appended') /\ Backed(proc'[q], open', preserved', EventsIn(sealed'))
             /\ Fits(proc'[q], sealed', base, top, start, appended')
  <2>1. Has(proc[q], appended) /\ proc[q].pc = "down" /\ proc'[q] = proc[q]
    BY <1>2, <1>3 DEF StoreInv, ProcsInv
  <2> DEFINE s == proc[q]
  <2>2. s.pc = "down" /\ Has(s, appended)
    BY <2>1
  <2> HIDE DEF s
  <2>3. /\ Has(s, appended') /\ s.cur = NoSegment /\ Backed(s, open', preserved', EventsIn(sealed'))
        /\ Fits(s, sealed', base, top, start, appended')
    BY <1>1, <2>2, DownIsFine
  <2> QED BY <2>1, <2>3 DEF s
<1>4. ProcsInv'
  <2>1. Alone'
    BY <1>3 DEF Alone
  <2>2. \A q \in Procs : Has(proc'[q], appended') /\ Backed(proc'[q], open', preserved', EventsIn(sealed'))
    BY <1>2, <1>3
  <2> QED BY <1>2, <2>1, <2>2 DEF ProcsInv
<1>5. ChainInv'
  <2>1. \A q \in Procs : Fits(proc'[q], sealed', base, top, start, appended')
    BY <1>2, <1>3
  <2> QED BY <2>1 DEF ChainInv
<1>6. InMemory = Memory(proc[p]) /\ InMemory' = Memory(g)
  <2>1. InMemory = Memory(proc[p])
    BY <1>2, <1>3, MemoryIs
  <2>2. CASE g.cur = NoSegment
    <3>1. {q \in Procs : proc'[q].cur # NoSegment} = {}
      BY <1>2, <1>3, <2>2
    <3> QED BY <2>1, <2>2, <3>1 DEF InMemory, Memory
  <2>3. CASE g.cur # NoSegment
    <3>1. {q \in Procs : proc'[q].cur # NoSegment} = {p}
      BY <1>2, <1>3, <2>3
    <3>2. InMemory' = UNION {ToSet(proc'[q].cur.events) : q \in {p}}
      BY <3>1 DEF InMemory
    <3>3. UNION {ToSet(proc'[q].cur.events) : q \in {p}} = ToSet(proc'[p].cur.events)
      OBVIOUS
    <3> QED BY <1>2, <2>1, <2>3, <3>2, <3>3 DEF Memory
  <2> QED BY <2>1, <2>2, <2>3
<1>7. LossInv'
  <2> DEFINE K == Kept
             L == EventsIn(sealed') \union EventsIn(open' \union preserved') \union Memory(g)
  <2>1. Kept' = L /\ K = EventsIn(sealed) \union EventsIn(open \union preserved) \union Memory(proc[p])
    BY <1>6 DEF Kept
  <2>2. K \subseteq L \union X /\ acked' \subseteq acked \union L
    BY <2>1
  <2>3. Losses(acked, K) <= faults * (FlushEvery - 1)
    BY DEF StoreInv, LossInv
  <2> HIDE DEF K, L
  <2> DEFINE f == faults
             h == faults'
             A == acked
             B == acked'
  <2>4. /\ IsFiniteSet(A) /\ IsFiniteSet(X) /\ f \in Nat /\ h \in Nat /\ Losses(A, K) <= f * (FlushEvery - 1)
        /\ B \subseteq A \union L /\ K \subseteq L \union X
        /\ (X = {} /\ f <= h) \/ (h = f + 1 /\ Cardinality(X) <= FlushEvery - 1)
    BY <1>1, <2>2, <2>3
  <2> HIDE DEF f, h, A, B
  <2>5. Losses(B, L) <= h * (FlushEvery - 1)
    BY <2>4, LossGrows
  <2> QED BY <2>1, <2>5 DEF LossInv, h, B
<1> QED BY <1>4, <1>5, <1>7 DEF StoreInv

\* What the invariant says of one process.
LEMMA Holds ==
  ASSUME StoreInv, NEW p \in Procs
  PROVE  LET s == proc[p]
         IN /\ Has(s, appended) /\ Backed(s, open, preserved, EventsIn(sealed))
            /\ DOMAIN proc = Procs /\ DOMAIN s = Fields
            /\ appended \in Nat /\ appended <= MaxEvents /\ faults \in Nat /\ faults <= MaxFaults
            /\ \E base, top, start : /\ Linked(sealed, base, top, start, appended)
                                     /\ Fits(s, sealed, base, top, start, appended)
<1>1. /\ Has(proc[p], appended) /\ Backed(proc[p], open, preserved, EventsIn(sealed)) /\ DOMAIN proc = Procs
  BY DEF StoreInv, ProcsInv
<1>2. /\ \E base, top, start : /\ Linked(sealed, base, top, start, appended)
                               /\ Fits(proc[p], sealed, base, top, start, appended)
  BY DEF StoreInv, ChainInv
<1>3. appended \in Nat /\ appended <= MaxEvents /\ faults \in Nat /\ faults <= MaxFaults
  BY StoreAssumption DEF StoreInv, FilesInv
<1>4. DOMAIN proc[p] = Fields
  BY <1>1 DEF Has
<1> QED BY <1>1, <1>2, <1>3, <1>4

\* A step of a process that touches no file.
LEMMA ProcMoves ==
  ASSUME StoreInv, NEW p \in Procs, \A q \in Procs : q # p => proc[q].pc = "down",
         NEW g, proc' = [proc EXCEPT ![p] = g], UNCHANGED <<sealed, open, preserved, acked, faults>>,
         appended' \in Nat, appended <= appended', appended' <= MaxEvents,
         Has(g, appended'), Backed(g, open, preserved, EventsIn(sealed)), Memory(proc[p]) \subseteq Memory(g),
         NEW base, NEW top, NEW start, Linked(sealed, base, top, start, appended),
         Fits(g, sealed, base, top, start, appended')
  PROVE  StoreInv'
<1>1. /\ appended \in Nat /\ faults \in 0 .. MaxFaults /\ acked \subseteq Issued(appended) /\ IsFiniteSet(acked)
      /\ \A f \in open \union preserved : FileOK(f, appended)
  BY DEF StoreInv, FilesInv
<1>2. FilesInv'
  <2>1. \A f \in open \union preserved : FileOK(f, appended')
    <3>1. \A f \in open \union preserved : f.events \in Seq(Issued(appended'))
      BY <1>1, IssuedGrows DEF FileOK
    <3> QED BY <1>1, <3>1 DEF FileOK
  <2>2. Issued(appended) \subseteq Issued(appended')
    BY <1>1 DEF Issued
  <2>3. acked' \subseteq Issued(appended') /\ IsFiniteSet(acked') /\ appended' \in 0 .. MaxEvents
    BY <1>1, <2>2, StoreAssumption
  <2> QED BY <1>1, <2>1, <2>3 DEF FilesInv
<1>3. Linked(sealed', base, top, start, appended')
  BY <1>1, ChainStays
<1>4. /\ Backed(g, open', preserved', EventsIn(sealed')) /\ Fits(g, sealed', base, top, start, appended')
      /\ EventsIn(sealed) \subseteq EventsIn(sealed') /\ acked' \subseteq acked \union Memory(g)
      /\ faults <= faults' /\ IsFiniteSet({})
      /\ EventsIn(open \union preserved) \union Memory(proc[p])
           \subseteq EventsIn(sealed') \union EventsIn(open' \union preserved') \union Memory(g) \union {}
  BY <1>1, FS_EmptySet
<1> QED BY <1>2, <1>3, <1>4, StepKeeps

\* What a process has that is down or about to open the session.
LEMMA DownFields ==
  ASSUME NEW s, s = Down \/ s = [Down EXCEPT !.pc = "opening"]
  PROVE  /\ DOMAIN s = Fields /\ s.cur = NoSegment /\ s.mine = {} /\ s.degraded = FALSE /\ s.sealed = FALSE
         /\ s.next \in Nat /\ s.todo = <<>> /\ s.seq = 1 /\ s.pc \in {"down", "opening"}
  BY DEF Down, Fields

\* A process that takes the lock, or goes down with nothing in memory.
LEMMA FreshKeeps ==
  ASSUME StoreInv, NEW p \in Procs, \A q \in Procs : q # p => proc[q].pc = "down",
         UNCHANGED <<sealed, open, preserved, acked, appended, faults>>, Memory(proc[p]) = {},
         NEW s, s = Down \/ s = [Down EXCEPT !.pc = "opening"], proc' = [proc EXCEPT ![p] = s]
  PROVE  StoreInv'
<1>1. PICK base, top, start : Linked(sealed, base, top, start, appended)
  BY Holds
<1>2. appended \in Nat /\ appended <= MaxEvents
  BY Holds
<1>3. /\ Has(s, appended) /\ Backed(s, open, preserved, EventsIn(sealed))
      /\ Fits(s, sealed, base, top, start, appended)
  <2>1. /\ s.pc \in {"down", "opening"} /\ DOMAIN s = Fields /\ s.cur = NoSegment /\ s.mine = {}
        /\ s.degraded = FALSE /\ s.sealed = FALSE /\ s.next \in Nat /\ s.todo = <<>> /\ s.seq = 1
    BY DownFields
  <2>2. Has(s, appended)
    <3>1. s.todo \in Seq(Issued(appended)) /\ s.seq \in 1 .. appended + 1
      BY <1>2, <2>1
    <3> QED BY <2>1, <3>1 DEF Has, Places, Working
  <2>3. Backed(s, open, preserved, EventsIn(sealed))
    BY <2>1 DEF Backed, Working
  <2>4. Fits(s, sealed, base, top, start, appended)
    BY <2>1 DEF Fits, Continues, Working
  <2> QED BY <2>2, <2>3, <2>4
<1>4. /\ appended' \in Nat /\ appended <= appended' /\ appended' <= MaxEvents
      /\ Has(s, appended') /\ Fits(s, sealed, base, top, start, appended') /\ Memory(proc[p]) \subseteq Memory(s)
  BY <1>2, <1>3
<1> QED BY <1>1, <1>3, <1>4, ProcMoves

\* Only one process at a time is not down.
LEMMA LockKeeps ==
  ASSUME StoreInv, NEW p \in Procs, Lock(p)
  PROVE  StoreInv'
<1>1. Memory(proc[p]) = {}
  <2>1. Has(proc[p], appended) /\ proc[p].pc = "down"
    BY Holds DEF Lock
  <2> QED BY <2>1 DEF Has, Memory
<1> QED BY <1>1, FreshKeeps DEF Lock

\* A session that cannot be read is left as it is.
LEMMA OpenRefusedKeeps ==
  ASSUME StoreInv, NEW p \in Procs, OpenRefused(p)
  PROVE  StoreInv'
<1>1. Memory(proc[p]) = {} /\ proc[p].pc = "opening"
  <2>1. Has(proc[p], appended) /\ proc[p].pc = "opening"
    BY Holds DEF OpenRefused
  <2> QED BY <2>1 DEF Has, Memory
<1>2. \A q \in Procs : q # p => proc[q].pc = "down"
  BY <1>1, OthersAreDown DEF StoreInv
<1>3. proc' = [proc EXCEPT ![p] = Down] /\ UNCHANGED <<sealed, open, preserved, acked, appended, faults>>
  BY DEF OpenRefused
<1> QED BY <1>1, <1>2, <1>3, FreshKeeps

\* With no stale file the sealed segments are the whole chain, from segment 0.
LEMMA OpenCleanKeeps ==
  ASSUME StoreInv, NEW p \in Procs, OpenClean(p)
  PROVE  StoreInv'
<1> DEFINE s == proc[p]
           g == [s EXCEPT !.pc = "loaded", !.next = Segments]
<1>0. /\ Has(s, appended) /\ Backed(s, open, preserved, EventsIn(sealed)) /\ DOMAIN proc = Procs /\ DOMAIN s = Fields
      /\ appended \in Nat /\ appended <= MaxEvents
  BY Holds
<1>1. PICK b, t0, st0 : Linked(sealed, b, t0, st0, appended)
  BY Holds
<1>2. /\ s.pc = "opening" /\ Readable /\ proc' = [proc EXCEPT ![p] = g]
      /\ UNCHANGED <<sealed, open, preserved, acked, appended, faults>>
  BY <1>0 DEF OpenClean
<1>3. \A q \in Procs : q # p => proc[q].pc = "down"
  BY <1>2, OthersAreDown DEF StoreInv
<1>4. IsFiniteSet(sealed) /\ Segments \in Nat
  BY <1>0, <1>1, ChainSize, FS_CardinalityType DEF Segments
<1>5. PICK top, start : Linked(sealed, 0, top, start, appended)
  BY <1>0, <1>1, <1>2, <1>4, ReadableStarts
<1>6. /\ DOMAIN g = Fields /\ g.pc = "loaded" /\ g.cur = s.cur /\ g.next = Segments /\ g.seq = s.seq /\ g.todo = s.todo
      /\ g.mine = s.mine /\ g.degraded = s.degraded /\ g.sealed = s.sealed
  <2> HIDE DEF s
  <2> QED BY <1>0 DEF Fields
<1> HIDE DEF s, g
<1>7. s.cur = NoSegment /\ s.seq \in 1 .. appended + 1 /\ s.todo \in Seq(Issued(appended)) /\ s.mine = {}
      /\ ~s.degraded /\ ~s.sealed /\ s.degraded \in BOOLEAN /\ s.sealed \in BOOLEAN
  BY <1>0, <1>2 DEF Has, Working
<1>8. Has(g, appended)
  BY <1>4, <1>6, <1>7 DEF Has, Working, Places
<1>9. /\ Backed(g, open, preserved, EventsIn(sealed)) /\ Fits(g, sealed, 0, top, start, appended)
      /\ Memory(s) \subseteq Memory(g)
  BY <1>6, <1>7 DEF Backed, Fits, Continues, Memory, Working
<1>10. /\ appended' \in Nat /\ appended <= appended' /\ appended' <= MaxEvents
       /\ Has(g, appended') /\ Fits(g, sealed, 0, top, start, appended') /\ Memory(proc[p]) \subseteq Memory(g)
  BY <1>0, <1>2, <1>8, <1>9 DEF s
<1> QED BY <1>2, <1>3, <1>5, <1>9, <1>10, ProcMoves

\* The next index, the sequence number and the hash a process goes on with.
LEMMA LoadKeeps ==
  ASSUME StoreInv, NEW p \in Procs, Load(p)
  PROVE  StoreInv'
<1> DEFINE s == proc[p]
           next == IF Segments = 0 THEN s.next ELSE Segments
           seq == Len(ReadSession) + 1
           g == [s EXCEPT !.pc = "run", !.next = next, !.seq = seq, !.prev = ChainHead]
<1>0. /\ Has(s, appended) /\ Backed(s, open, preserved, EventsIn(sealed)) /\ DOMAIN proc = Procs /\ DOMAIN s = Fields
      /\ appended \in Nat /\ appended <= MaxEvents
  BY Holds
<1>1. PICK base, top, start : Linked(sealed, base, top, start, appended) /\ Fits(s, sealed, base, top, start, appended)
  BY Holds
<1>2. /\ s.pc = "loaded" /\ UNCHANGED <<sealed, open, preserved, acked, appended, faults>>
      /\ proc' = [proc EXCEPT ![p] = g]
  BY <1>0 DEF Load
<1>3. \A q \in Procs : q # p => proc[q].pc = "down"
  BY <1>2, OthersAreDown DEF StoreInv
<1>4. base = 0
  BY <1>1, <1>2 DEF Fits
<1>5. Segments = top /\ Len(ReadSession) = start[top] - 1 /\ Heads(ChainHead, sealed, top)
  BY <1>0, <1>1, <1>4, ChainIsRead
<1>6. top \in Nat /\ start[top] \in Nat /\ start[top] >= 1 /\ start[top] <= appended + 1 /\ start[base] = 1
  BY <1>0, <1>1, ChainFields
<1> HIDE DEF next, seq
<1>7. /\ DOMAIN g = Fields /\ g.pc = "run" /\ g.cur = s.cur /\ g.next = next /\ g.seq = seq /\ g.todo = s.todo
      /\ g.prev = ChainHead /\ g.mine = s.mine /\ g.degraded = s.degraded /\ g.sealed = s.sealed
  <2> HIDE DEF s
  <2> QED BY <1>0 DEF Fields
<1>8. seq = start[top] /\ seq \in 1 .. appended + 1
  BY <1>0, <1>5, <1>6 DEF seq
<1> HIDE DEF s, g
<1>9. /\ s.cur = NoSegment /\ s.todo \in Seq(Issued(appended)) /\ s.mine = {} /\ s.next \in Nat
      /\ ~s.degraded /\ ~s.sealed /\ s.degraded \in BOOLEAN /\ s.sealed \in BOOLEAN
  BY <1>0, <1>2 DEF Has, Working
<1>10. next \in Nat
  BY <1>5, <1>6, <1>9 DEF next
<1>11. Has(g, appended)
  BY <1>7, <1>8, <1>9, <1>10 DEF Has, Working, Places
<1>12. Backed(g, open, preserved, EventsIn(sealed)) /\ Memory(s) \subseteq Memory(g)
  BY <1>7, <1>9 DEF Backed, Memory
<1>13. /\ appended' \in Nat /\ appended <= appended' /\ appended' <= MaxEvents
       /\ Has(g, appended') /\ Memory(proc[p]) \subseteq Memory(g)
  BY <1>0, <1>2, <1>11, <1>12 DEF s
<1>14. CASE top # 0
  <2>1. next = top
    BY <1>5, <1>14 DEF next
  <2>2. Fits(g, sealed, base, top, start, appended)
    BY <1>5, <1>7, <1>8, <1>9, <2>1 DEF Fits, Continues
  <2>3. Fits(g, sealed, base, top, start, appended')
    BY <1>2, <2>2
  <2> QED BY <1>1, <1>2, <1>3, <1>12, <1>13, <2>3, ProcMoves
<1>15. CASE top = 0
  <2> DEFINE st == [i \in next .. next |-> 1]
  <2>1. sealed = {}
    <3>1. \A x \in sealed : x.index \in base .. top - 1
      BY <1>0, <1>1, ChainFields
    <3>2. \A x \in sealed : FALSE
      BY <1>4, <1>15, <3>1
    <3> QED BY <3>2
  <2>2. Linked(sealed, next, next, st, appended)
    BY <1>0, <1>10, <2>1, NoChain
  <2>3. st[next] = 1 /\ seq = 1
    BY <1>4, <1>6, <1>8, <1>10, <1>15
  <2>4. Heads(ChainHead, sealed, next)
    BY <1>5, <2>1 DEF Heads
  <2> HIDE DEF st
  <2>5. Fits(g, sealed, next, next, st, appended)
    BY <1>7, <1>9, <2>3, <2>4 DEF Fits, Continues
  <2>6. Fits(g, sealed, next, next, st, appended')
    BY <1>2, <2>5
  <2> QED BY <1>2, <1>3, <1>12, <1>13, <2>2, <2>6, ProcMoves
<1> QED BY <1>14, <1>15

\* The next event gets the next sequence number, and a place in a segment that is not full.
LEMMA AppendEventKeeps ==
  ASSUME StoreInv, NEW p \in Procs, AppendEvent(p)
  PROVE  StoreInv'
<1> DEFINE s == proc[p]
           n == appended + 1
           todo == <<[seq |-> s.seq, id |-> n]>>
           pc == IF s.cur = NoSegment THEN "create"
                 ELSE IF Len(s.cur.events) >= SegmentMax THEN "footer" ELSE "write"
           g == [s EXCEPT !.todo = todo, !.then = "create", !.pc = pc]
<1>0. /\ Has(s, appended) /\ Backed(s, open, preserved, EventsIn(sealed)) /\ DOMAIN proc = Procs /\ DOMAIN s = Fields
      /\ appended \in Nat /\ appended <= MaxEvents
  BY Holds
<1>1. PICK base, top, start : Linked(sealed, base, top, start, appended) /\ Fits(s, sealed, base, top, start, appended)
  BY Holds
<1>2. /\ s.pc = "run" /\ ~s.degraded /\ ~s.sealed /\ appended < MaxEvents /\ appended' = n
      /\ proc' = [proc EXCEPT ![p] = g]
      /\ UNCHANGED <<sealed, open, preserved, acked, faults>>
  BY <1>0 DEF AppendEvent, Healthy
<1>3. \A q \in Procs : q # p => proc[q].pc = "down"
  BY <1>2, OthersAreDown DEF StoreInv
<1> HIDE DEF todo, pc
<1>4. /\ DOMAIN g = Fields /\ g.pc = pc /\ g.cur = s.cur /\ g.next = s.next /\ g.seq = s.seq /\ g.todo = todo
      /\ g.then = "create" /\ g.prev = s.prev /\ g.mine = s.mine /\ g.degraded = s.degraded /\ g.sealed = s.sealed
  <2> HIDE DEF s
  <2> QED BY <1>0 DEF Fields
<1>5. /\ s.next \in Nat /\ s.seq \in 1 .. appended + 1 /\ s.degraded \in BOOLEAN /\ s.sealed \in BOOLEAN
  BY <1>0 DEF Has
<1>6. /\ n \in Nat /\ n <= MaxEvents /\ appended <= n /\ s.seq \in 1 .. n /\ n \in 1 .. n
  <2> HIDE DEF s
  <2> QED BY <1>0, <1>2, <1>5, StoreAssumption
<1> HIDE DEF n
<1>7. todo \in Seq(Issued(n)) /\ s.seq <= n /\ s.seq \in 1 .. n + 1 /\ \E id \in 1 .. n : todo = <<[seq |-> s.seq, id |-> id]>>
  <2> HIDE DEF s
  <2>1. [seq |-> s.seq, id |-> n] \in Issued(n)
    BY <1>6 DEF Issued
  <2>2. todo \in Seq(Issued(n))
    BY <2>1 DEF todo
  <2> QED BY <1>6, <2>2 DEF todo
<1> HIDE DEF s, g
<1>8. pc \in {"create", "footer", "write"} /\ (pc = "create" <=> s.cur = NoSegment)
  BY DEF pc
<1>9. s.cur # NoSegment => /\ s.cur.events \in Seq(Issued(appended)) /\ Len(s.cur.events) <= SegmentMax
                           /\ s.cur.events \in Seq(Issued(n))
  BY <1>0, <1>1, <1>6, IssuedGrows DEF Fits, Continues
<1>10. pc = "write" => Len(s.cur.events) < SegmentMax
  <2>1. CASE pc = "write"
    <3>1. s.cur # NoSegment /\ ~(Len(s.cur.events) >= SegmentMax)
      BY <2>1 DEF pc
    <3>2. Len(s.cur.events) \in Nat
      BY <1>9, <3>1
    <3> QED BY <3>1, <3>2, StoreAssumption
  <2> QED BY <2>1
<1>11. Has(g, n)
  BY <1>2, <1>4, <1>5, <1>7, <1>8, <1>10 DEF Has, Working, Places
<1>12. Backed(g, open, preserved, EventsIn(sealed)) /\ Memory(s) \subseteq Memory(g)
  BY <1>0, <1>2, <1>4, <1>8 DEF Backed, Memory, Working
<1>13. Fits(g, sealed, base, top, start, n)
  BY <1>1, <1>2, <1>4, <1>8, <1>9 DEF Fits, Continues, Working
<1>14. /\ appended' \in Nat /\ appended <= appended' /\ appended' <= MaxEvents
       /\ Has(g, appended') /\ Fits(g, sealed, base, top, start, appended') /\ Memory(proc[p]) \subseteq Memory(g)
  BY <1>2, <1>6, <1>11, <1>12, <1>13 DEF s
<1> QED BY <1>1, <1>2, <1>3, <1>12, <1>14, ProcMoves

\* A seal is under way, on whose behalf ever.
LEMMA StartSealKeeps ==
  ASSUME StoreInv, NEW p \in Procs, NEW then \in {"run", "sealed", "drop"}, StartSeal(p, then),
         then = "run" => proc[p].cur # NoSegment
  PROVE  StoreInv'
<1> DEFINE s == proc[p]
           pc == IF s.cur = NoSegment THEN then ELSE "footer"
           g == [s EXCEPT !.then = then, !.pc = pc]
<1>0. /\ Has(s, appended) /\ Backed(s, open, preserved, EventsIn(sealed)) /\ DOMAIN proc = Procs /\ DOMAIN s = Fields
      /\ appended \in Nat /\ appended <= MaxEvents
  BY Holds
<1>1. PICK base, top, start : Linked(sealed, base, top, start, appended) /\ Fits(s, sealed, base, top, start, appended)
  BY Holds
<1>2. /\ s.pc = "run" /\ ~s.degraded /\ ~s.sealed /\ proc' = [proc EXCEPT ![p] = g]
      /\ UNCHANGED <<sealed, open, preserved, acked, appended, faults>>
  BY <1>0 DEF StartSeal, Healthy
<1>3. \A q \in Procs : q # p => proc[q].pc = "down"
  BY <1>2, OthersAreDown DEF StoreInv
<1> HIDE DEF pc
<1>4. /\ DOMAIN g = Fields /\ g.pc = pc /\ g.cur = s.cur /\ g.next = s.next /\ g.seq = s.seq /\ g.todo = s.todo
      /\ g.then = then /\ g.prev = s.prev /\ g.mine = s.mine /\ g.degraded = s.degraded /\ g.sealed = s.sealed
  <2> HIDE DEF s
  <2> QED BY <1>0 DEF Fields
<1>5. pc \in {"footer", "sealed", "drop"} /\ (pc = "footer" <=> s.cur # NoSegment)
  BY DEF pc
<1>6. /\ s.next \in Nat /\ s.seq \in 1 .. appended + 1 /\ s.degraded \in BOOLEAN /\ s.sealed \in BOOLEAN
      /\ s.todo \in Seq(Issued(appended))
  BY <1>0 DEF Has
<1> HIDE DEF s, g
<1>7. Has(g, appended)
  BY <1>2, <1>4, <1>5, <1>6 DEF Has, Working, Places
<1>8. Backed(g, open, preserved, EventsIn(sealed)) /\ Memory(s) \subseteq Memory(g)
  BY <1>0, <1>2, <1>4, <1>5 DEF Backed, Memory, Working
<1>9. Fits(g, sealed, base, top, start, appended)
  BY <1>1, <1>2, <1>4, <1>5 DEF Fits, Continues, Working
<1>10. /\ appended' \in Nat /\ appended <= appended' /\ appended' <= MaxEvents
       /\ Has(g, appended') /\ Fits(g, sealed, base, top, start, appended') /\ Memory(proc[p]) \subseteq Memory(g)
  BY <1>0, <1>2, <1>7, <1>8, <1>9 DEF s
<1> QED BY <1>1, <1>2, <1>3, <1>8, <1>10, ProcMoves

\* A sealed store writes nothing any more.
LEMMA SealedKeeps ==
  ASSUME StoreInv, NEW p \in Procs, Sealed(p)
  PROVE  StoreInv'
<1> DEFINE s == proc[p]
           g == [s EXCEPT !.pc = "run", !.sealed = TRUE]
<1>0. /\ Has(s, appended) /\ Backed(s, open, preserved, EventsIn(sealed)) /\ DOMAIN proc = Procs /\ DOMAIN s = Fields
      /\ appended \in Nat /\ appended <= MaxEvents
  BY Holds
<1>1. PICK base, top, start : Linked(sealed, base, top, start, appended) /\ Fits(s, sealed, base, top, start, appended)
  BY Holds
<1>2. /\ s.pc = "sealed" /\ proc' = [proc EXCEPT ![p] = g]
      /\ UNCHANGED <<sealed, open, preserved, acked, appended, faults>>
  BY <1>0 DEF Sealed
<1>3. \A q \in Procs : q # p => proc[q].pc = "down"
  BY <1>2, OthersAreDown DEF StoreInv
<1>4. /\ DOMAIN g = Fields /\ g.pc = "run" /\ g.cur = s.cur /\ g.next = s.next /\ g.seq = s.seq /\ g.todo = s.todo
      /\ g.prev = s.prev /\ g.mine = s.mine /\ g.degraded = s.degraded /\ g.sealed = TRUE
  <2> HIDE DEF s
  <2> QED BY <1>0 DEF Fields
<1>5. /\ s.next \in Nat /\ s.seq \in 1 .. appended + 1 /\ s.degraded \in BOOLEAN /\ s.cur = NoSegment
      /\ s.todo \in Seq(Issued(appended))
  BY <1>0, <1>2 DEF Has
<1> HIDE DEF s, g
<1>6. Has(g, appended)
  <2>1. g.sealed \in BOOLEAN
    BY <1>4
  <2> QED BY <1>4, <1>5, <2>1 DEF Has, Working, Places
<1>7. Backed(g, open, preserved, EventsIn(sealed)) /\ Memory(s) \subseteq Memory(g)
  BY <1>0, <1>2, <1>4, <1>5 DEF Backed, Memory, Working
<1>8. Fits(g, sealed, base, top, start, appended)
  BY <1>1, <1>2, <1>4, <1>5 DEF Fits, Continues, Working
<1>9. /\ appended' \in Nat /\ appended <= appended' /\ appended' <= MaxEvents
      /\ Has(g, appended') /\ Fits(g, sealed, base, top, start, appended') /\ Memory(proc[p]) \subseteq Memory(g)
  BY <1>0, <1>2, <1>6, <1>7, <1>8 DEF s
<1> QED BY <1>1, <1>2, <1>3, <1>7, <1>9, ProcMoves

\* A process that closes has nothing in memory any more, or starts to seal what it has.
LEMMA CloseKeeps ==
  ASSUME StoreInv, NEW p \in Procs, Close(p)
  PROVE  StoreInv'
<1>1. CASE StartSeal(p, "drop")
  BY <1>1, StartSealKeeps
<1>2. CASE /\ proc[p].pc = "drop" \/ (proc[p].pc = "run" /\ ~Healthy(p))
           /\ proc' = [proc EXCEPT ![p] = Down]
           /\ UNCHANGED <<sealed, open, preserved, acked, appended, faults>>
  <2>1. Memory(proc[p]) = {} /\ proc[p].pc # "down"
    <3>1. Has(proc[p], appended)
      BY Holds
    <3> QED BY <1>2, <3>1 DEF Has, Memory, Healthy
  <2>2. \A q \in Procs : q # p => proc[q].pc = "down"
    BY <2>1, OthersAreDown DEF StoreInv
  <2> QED BY <1>2, <2>1, <2>2, FreshKeeps
<1> QED BY <1>1, <1>2 DEF Close


-----------------------------------------------------------------------------
(* Steps that write files                                                  *)

\* The hash of a segment is the segment.
HashOf(s) == [index |-> s.index, prev |-> s.prev, events |-> s.events]

\* Sealing the segment that comes next replaces none.
LEMMA SealAdds ==
  ASSUME NEW base, NEW top, NEW start, NEW n \in Nat, Linked(sealed, base, top, start, n), NEW s, s.index = top
  PROVE  SealAs(s) = sealed \union {HashOf(s)}
<1>1. \A x \in sealed : x.index \in base .. top - 1 /\ base \in Nat /\ top \in Nat
  BY ChainFields
<1>2. \A x \in sealed : x.index # s.index
  BY <1>1
<1>3. {x \in sealed : x.index # s.index} = sealed
  BY <1>2
<1> QED BY <1>3 DEF SealAs, HashOf

\* The chain is longer by it.
LEMMA SealGrows ==
  ASSUME NEW base, NEW top, NEW start, NEW n \in Nat, Linked(sealed, base, top, start, n),
         NEW s, s.index = top, Heads(s.prev, sealed, top),
         s.events \in Seq(Issued(n)), NumberedFrom(s.events, start[top])
  PROVE  \E longer : Linked(SealAs(s), base, top + 1, longer, n) /\ longer[top + 1] = start[top] + Len(s.events)
<1> DEFINE r == HashOf(s)
           T == sealed \union {r}
           longer == [i \in base .. top + 1 |-> IF i <= top THEN start[i] ELSE start[top] + Len(r.events)]
<1>1. base \in Nat /\ top \in Nat /\ base <= top
  BY ChainFields
<1>2. SealAs(s) = T
  BY SealAdds
<1>3. DOMAIN r = {"index", "prev", "events"} /\ r.index = top /\ r.prev = s.prev /\ r.events = s.events
  BY DEF HashOf
<1> HIDE DEF r
<1>4. /\ DOMAIN r = {"index", "prev", "events"} /\ r.index = top /\ Heads(r.prev, sealed, top)
      /\ r.events \in Seq(Issued(n)) /\ NumberedFrom(r.events, start[top])
  BY <1>3
<1>5. Linked(T, base, top + 1, longer, n)
  BY <1>4, ChainGrows
<1>6. longer[top + 1] = start[top] + Len(s.events)
  <2>1. top + 1 \in base .. top + 1 /\ ~(top + 1 <= top)
    BY <1>1
  <2> QED BY <1>3, <2>1
<1> HIDE DEF longer, T
<1> QED BY <1>2, <1>5, <1>6

\* Its events are sealed, and it is the last.
LEMMA SealHas ==
  ASSUME NEW base, NEW top, NEW start, NEW n \in Nat, Linked(sealed, base, top, start, n), NEW s, s.index = top
  PROVE  /\ \A e : e \in EventsIn(SealAs(s)) <=> (e \in EventsIn(sealed) \/ e \in ToSet(s.events))
         /\ Heads(HashOf(s), SealAs(s), top + 1)
<1> DEFINE r == HashOf(s)
           T == sealed \union {r}
<1>1. top \in Nat /\ \A x \in sealed : x.index \in base .. top - 1
  BY ChainFields
<1>2. SealAs(s) = T
  BY SealAdds
<1>3. r.events = s.events /\ r.index = top
  BY DEF HashOf
<1> HIDE DEF r
<1>4. \A e : e \in EventsIn(T) <=> (e \in EventsIn(sealed) \/ e \in ToSet(s.events))
  BY <1>3, InEvents
<1>5. Heads(r, T, top + 1)
  <2>1. T # {}
    OBVIOUS
  <2>2. ASSUME NEW t \in T, t.index + 1 = top + 1
        PROVE  r = t
    <3>1. ~(t \in sealed)
      BY <1>1, <2>2
    <3> QED BY <3>1
  <2> QED BY <2>1, <2>2 DEF Heads
<1> HIDE DEF T
<1> QED BY <1>2, <1>4, <1>5 DEF r

\* The files after a write to those of one segment.
LEMMA WrittenIs ==
  ASSUME NEW p, NEW n, NEW events \in Seq(Issued(n)), Len(events) <= SegmentMax,
         \A f \in open : FileOK(f, n), \E f \in open : f.index = proc[p].cur.index,
         NEW old, \A f \in open : f.index = proc[p].cur.index => ToSet(f.events) \subseteq old
  PROVE  /\ \A f \in Written(p, events) : FileOK(f, n)
         /\ \E f \in Written(p, events) : f.index = proc[p].cur.index
         /\ \A f \in Written(p, events) : f.index = proc[p].cur.index => f.events = events
         /\ EventsIn(open) \subseteq EventsIn(Written(p, events)) \union old
         /\ ToSet(events) \subseteq EventsIn(Written(p, events))
<1> DEFINE index == proc[p].cur.index
           new(f) == IF f.index = index THEN [f EXCEPT !.events = events] ELSE f
           W == Written(p, events)
<1>1. W = {new(f) : f \in open}
  BY DEF Written
<1>2. ASSUME NEW f \in open
      PROVE  /\ FileOK(new(f), n) /\ new(f).index = f.index
             /\ f.index = index => new(f).events = events
             /\ f.index # index => new(f) = f
  <2>1. FileOK(f, n)
    OBVIOUS
  <2>2. CASE f.index = index
    <3> DEFINE h == [f EXCEPT !.events = events]
    <3>1. DOMAIN h = {"index", "header", "prev", "events"} /\ h.index = f.index /\ h.header = f.header /\ h.events = events
      BY <2>1 DEF FileOK
    <3>2. new(f) = h
      BY <2>2
    <3> HIDE DEF h, new
    <3>3. FileOK(h, n)
      BY <2>1, <3>1 DEF FileOK
    <3> QED BY <2>2, <3>1, <3>2, <3>3
  <2>3. CASE f.index # index
    BY <2>1, <2>3
  <2> QED BY <2>2, <2>3
<1> HIDE DEF W, new, index
<1>3. \A f \in W : FileOK(f, n)
  BY <1>1, <1>2
<1>4. PICK f \in open : f.index = index
  BY DEF index
<1>5. new(f) \in W /\ new(f).index = index /\ new(f).events = events
  BY <1>1, <1>2, <1>4
<1>6. \A w \in W : w.index = index => w.events = events
  BY <1>1, <1>2
<1>7. EventsIn(open) \subseteq EventsIn(W) \union old
  <2> SUFFICES ASSUME NEW e \in EventsIn(open), e \notin old
               PROVE  e \in EventsIn(W)
    OBVIOUS
  <2>1. PICK o \in open : e \in ToSet(o.events)
    BY InEvents
  <2>2. o.index # index
    BY <2>1 DEF index
  <2>3. o \in W
    BY <1>1, <1>2, <2>2
  <2> QED BY <2>1, <2>3, InEvents
<1>8. ToSet(events) \subseteq EventsIn(W)
  BY <1>5, InEvents
<1> QED BY <1>3, <1>5, <1>6, <1>7, <1>8 DEF W, index

\* A file that recovery preserved is rebuilt as the last segment of the chain.
LEMMA RebuildKeeps ==
  ASSUME StoreInv, NEW p \in Procs, Rebuild(p)
  PROVE  StoreInv'
<1> DEFINE s == proc[p]
           g == [s EXCEPT !.pc = "loaded", !.cur = NoSegment]
<1>0. /\ Has(s, appended) /\ Backed(s, open, preserved, EventsIn(sealed)) /\ DOMAIN proc = Procs /\ DOMAIN s = Fields
      /\ appended \in Nat /\ faults \in Nat
  BY Holds
<1>1. PICK base, top, start : Linked(sealed, base, top, start, appended) /\ Fits(s, sealed, base, top, start, appended)
  BY Holds
<1>2. /\ s.pc = "rebuilding" /\ proc' = [proc EXCEPT ![p] = g] /\ sealed' = SealAs(s.cur)
      /\ UNCHANGED <<open, preserved, acked, appended, faults>>
  BY <1>0 DEF Rebuild
<1>3. \A q \in Procs : q # p => proc[q].pc = "down"
  BY <1>2, OthersAreDown DEF StoreInv
<1>4. /\ DOMAIN g = Fields /\ g.pc = "loaded" /\ g.cur = NoSegment /\ g.next = s.next /\ g.seq = s.seq /\ g.todo = s.todo
      /\ g.mine = s.mine /\ g.degraded = s.degraded /\ g.sealed = s.sealed
  <2> HIDE DEF s
  <2> QED BY <1>0 DEF Fields
<1> HIDE DEF s, g
<1>5. s.cur # NoSegment
  BY <1>0, <1>2 DEF Has
<1>6. /\ s.cur.index = top /\ Heads(s.cur.prev, sealed, top) /\ s.cur.events \in Seq(Issued(appended))
      /\ NumberedFrom(s.cur.events, start[top]) /\ base = 0
  BY <1>1, <1>2, <1>5 DEF Fits, Continues
<1>7. PICK longer : Linked(SealAs(s.cur), base, top + 1, longer, appended)
  BY <1>0, <1>1, <1>6, SealGrows
<1>8. \A e : e \in EventsIn(SealAs(s.cur)) <=> (e \in EventsIn(sealed) \/ e \in ToSet(s.cur.events))
  BY <1>0, <1>1, <1>6, SealHas
<1>9. /\ s.next \in Nat /\ s.seq \in 1 .. appended + 1 /\ s.mine = {} /\ ~s.degraded /\ ~s.sealed
      /\ s.degraded \in BOOLEAN /\ s.sealed \in BOOLEAN /\ s.todo \in Seq(Issued(appended))
  BY <1>0, <1>2 DEF Has, Working
<1>10. Has(g, appended)
  BY <1>4, <1>9 DEF Has, Working, Places
<1>11. Backed(g, open', preserved', EventsIn(sealed')) /\ Memory(g) = {}
  BY <1>4 DEF Backed, Memory, Working
<1>12. Fits(g, sealed', base, top + 1, longer, appended)
  BY <1>4, <1>6 DEF Fits, Continues, Working
<1>13. FilesInv'
  BY <1>2 DEF StoreInv, FilesInv
<1>14. /\ EventsIn(sealed) \subseteq EventsIn(sealed') /\ acked' \subseteq acked \union Memory(g)
       /\ EventsIn(open \union preserved) \union Memory(proc[p])
            \subseteq EventsIn(sealed') \union EventsIn(open' \union preserved') \union Memory(g) \union {}
  BY <1>2, <1>8 DEF s, Memory
<1>15. /\ Linked(sealed', base, top + 1, longer, appended') /\ Has(g, appended')
       /\ Fits(g, sealed', base, top + 1, longer, appended')
       /\ appended <= appended' /\ faults <= faults' /\ IsFiniteSet({})
  BY <1>0, <1>2, <1>7, <1>10, <1>12, FS_EmptySet
<1>16. proc' = [proc EXCEPT ![p] = g]
  BY <1>2
<1> QED BY <1>3, <1>11, <1>13, <1>14, <1>15, <1>16, StepKeeps

\* What is in the buffer gets into the file before it is renamed.
LEMMA WriteFooterKeeps ==
  ASSUME StoreInv, NEW p \in Procs, WriteFooter(p)
  PROVE  StoreInv'
<1> DEFINE s == proc[p]
           g == [s EXCEPT !.pc = "rename"]
<1>0. /\ Has(s, appended) /\ Backed(s, open, preserved, EventsIn(sealed)) /\ DOMAIN proc = Procs /\ DOMAIN s = Fields
      /\ appended \in Nat /\ faults \in Nat
  BY Holds
<1>1. PICK base, top, start : Linked(sealed, base, top, start, appended) /\ Fits(s, sealed, base, top, start, appended)
  BY Holds
<1>2. /\ s.pc = "footer" /\ proc' = [proc EXCEPT ![p] = g] /\ open' = Written(p, s.cur.events)
      /\ UNCHANGED <<sealed, preserved, acked, appended, faults>>
  BY <1>0 DEF WriteFooter
<1>3. \A q \in Procs : q # p => proc[q].pc = "down"
  BY <1>2, OthersAreDown DEF StoreInv
<1>4. /\ DOMAIN g = Fields /\ g.pc = "rename" /\ g.cur = s.cur /\ g.next = s.next /\ g.seq = s.seq /\ g.todo = s.todo
      /\ g.then = s.then /\ g.prev = s.prev /\ g.mine = s.mine /\ g.degraded = s.degraded /\ g.sealed = s.sealed
  <2> HIDE DEF s
  <2> QED BY <1>0 DEF Fields
<1>5. s.cur # NoSegment /\ s.cur = proc[p].cur
  BY <1>0, <1>2 DEF Has
<1> HIDE DEF s, g
<1>6. s.cur.events \in Seq(Issued(appended)) /\ Len(s.cur.events) <= SegmentMax
  BY <1>1, <1>5 DEF Fits, Continues
<1>7. /\ \E f \in open : f.index = s.cur.index
      /\ \A f \in open : f.index = s.cur.index => ToSet(f.events) \subseteq ToSet(s.cur.events)
  BY <1>0, <1>2, <1>5 DEF Backed, Working
<1>8. \A f \in open \union preserved : FileOK(f, appended)
  BY DEF StoreInv, FilesInv
<1> DEFINE n == appended
           events == s.cur.events
           old == ToSet(s.cur.events)
<1>80. /\ events \in Seq(Issued(n)) /\ Len(events) <= SegmentMax
       /\ \A f \in open : FileOK(f, n)
       /\ \E f \in open : f.index = proc[p].cur.index
       /\ \A f \in open : f.index = proc[p].cur.index => ToSet(f.events) \subseteq old
  BY <1>5, <1>6, <1>7, <1>8
<1> HIDE DEF n, events, old
<1>81. /\ \A f \in Written(p, events) : FileOK(f, n)
       /\ \E f \in Written(p, events) : f.index = proc[p].cur.index
       /\ \A f \in Written(p, events) : f.index = proc[p].cur.index => f.events = events
       /\ EventsIn(open) \subseteq EventsIn(Written(p, events)) \union old
  BY <1>80, WrittenIs
<1>9. /\ \A f \in open' : FileOK(f, appended)
      /\ \E f \in open' : f.index = s.cur.index
      /\ \A f \in open' : f.index = s.cur.index => f.events = s.cur.events
      /\ EventsIn(open) \subseteq EventsIn(open') \union ToSet(s.cur.events)
  BY <1>2, <1>5, <1>81 DEF n, events, old
<1>10. Has(g, appended)
  BY <1>0, <1>2, <1>4 DEF Has, Working, Places
<1>11. Backed(g, open', preserved', EventsIn(sealed'))
  BY <1>0, <1>2, <1>4, <1>5, <1>9 DEF Backed, Working, Memory
<1>12. Fits(g, sealed, base, top, start, appended)
  BY <1>1, <1>2, <1>4, <1>5 DEF Fits, Continues, Working
<1>13. FilesInv'
  BY <1>2, <1>8, <1>9 DEF StoreInv, FilesInv
<1>14. /\ EventsIn(sealed) \subseteq EventsIn(sealed') /\ acked' \subseteq acked \union Memory(g)
       /\ EventsIn(open \union preserved) \union Memory(proc[p])
            \subseteq EventsIn(sealed') \union EventsIn(open' \union preserved') \union Memory(g) \union {}
  <2>1. Memory(g) = ToSet(s.cur.events) /\ Memory(proc[p]) = ToSet(s.cur.events)
    BY <1>4, <1>5 DEF Memory
  <2>2. EventsIn(open \union preserved) = EventsIn(open) \union EventsIn(preserved)
    BY EventsUnion
  <2>3. EventsIn(open' \union preserved') = EventsIn(open') \union EventsIn(preserved')
    BY EventsUnion
  <2>4. EventsIn(sealed') = EventsIn(sealed) /\ preserved' = preserved /\ acked' = acked
    BY <1>2
  <2> QED BY <1>9, <2>1, <2>2, <2>3, <2>4
<1>15. /\ Linked(sealed', base, top, start, appended') /\ Has(g, appended')
       /\ Fits(g, sealed', base, top, start, appended')
       /\ appended <= appended' /\ faults <= faults' /\ IsFiniteSet({})
  BY <1>0, <1>1, <1>2, <1>10, <1>12, FS_EmptySet
<1>16. proc' = [proc EXCEPT ![p] = g]
  BY <1>2
<1> QED BY <1>3, <1>11, <1>13, <1>14, <1>15, <1>16, StepKeeps

\* A segment goes from its .open name to its final one: no event of it is in no file.
LEMMA RenamedHas ==
  ASSUME StoreInv, NEW p \in Procs, proc[p].pc = "rename", Renamed(p),
         NEW base, NEW top, NEW start, Linked(sealed, base, top, start, appended),
         Fits(proc[p], sealed, base, top, start, appended)
  PROVE  LET s == proc[p]
         IN /\ \E longer : Linked(sealed', base, top + 1, longer, appended) /\ longer[top + 1] = s.seq
            /\ Heads(HashOf(s.cur), sealed', top + 1) /\ s.cur.index = top /\ top \in Nat
            /\ \A f \in open' : f \in open
            /\ \A e : e \in EventsIn(sealed') <=> (e \in EventsIn(sealed) \/ e \in ToSet(s.cur.events))
            /\ \A e : e \in EventsIn(open) => (e \in EventsIn(open') \/ e \in ToSet(s.cur.events))
<1> DEFINE s == proc[p]
<1>0. Has(s, appended) /\ Backed(s, open, preserved, EventsIn(sealed)) /\ appended \in Nat
  BY Holds
<1>1. s.pc = "rename" /\ Fits(s, sealed, base, top, start, appended) /\ s.cur = proc[p].cur /\ s.seq = proc[p].seq
  OBVIOUS
<1> HIDE DEF s
<1>2. s.cur # NoSegment /\ s.pc \in Working
  BY <1>0, <1>1 DEF Has, Working
<1>3. /\ s.cur.index = top /\ Heads(s.cur.prev, sealed, top) /\ s.cur.events \in Seq(Issued(appended))
      /\ NumberedFrom(s.cur.events, start[top]) /\ s.seq = start[top] + Len(s.cur.events)
  BY <1>1, <1>2 DEF Fits, Continues
<1>4. sealed' = SealAs(s.cur) /\ open' = {f \in open : f.index # s.cur.index}
  BY <1>1 DEF Renamed
<1>5. \E longer : Linked(SealAs(s.cur), base, top + 1, longer, appended) /\ longer[top + 1] = start[top] + Len(s.cur.events)
  BY <1>0, <1>3, SealGrows
<1>6. /\ \A e : e \in EventsIn(SealAs(s.cur)) <=> (e \in EventsIn(sealed) \/ e \in ToSet(s.cur.events))
      /\ Heads(HashOf(s.cur), SealAs(s.cur), top + 1)
  BY <1>0, <1>3, SealHas
<1>7. \A f \in open : f.index = s.cur.index => ToSet(f.events) \subseteq ToSet(s.cur.events)
  BY <1>0, <1>2 DEF Backed
<1>8. ASSUME NEW e \in EventsIn(open), e \notin ToSet(s.cur.events)
      PROVE  e \in EventsIn(open')
  <2>1. PICK f \in open : e \in ToSet(f.events)
    BY InEvents
  <2>2. f \in open'
    BY <1>4, <1>7, <1>8, <2>1
  <2> QED BY <2>1, <2>2, InEvents
<1>9. top \in Nat
  BY <1>0, ChainFields
<1>10. \A f \in open' : f \in open
  BY <1>4
<1>11. \E longer : Linked(sealed', base, top + 1, longer, appended) /\ longer[top + 1] = s.seq
  BY <1>3, <1>4, <1>5
<1>12. /\ \A e : e \in EventsIn(sealed') <=> (e \in EventsIn(sealed) \/ e \in ToSet(s.cur.events))
       /\ Heads(HashOf(s.cur), sealed', top + 1)
  BY <1>4, <1>6
<1> QED BY <1>3, <1>8, <1>9, <1>10, <1>11, <1>12 DEF s

\* The next segment comes after the one renamed, and carries its hash.
LEMMA RenameSealedKeeps ==
  ASSUME StoreInv, NEW p \in Procs, RenameSealed(p)
  PROVE  StoreInv'
<1> DEFINE s == proc[p]
           next == s.cur.index + 1
           g == [s EXCEPT !.pc = s.then, !.cur = NoSegment, !.next = next, !.prev = HashOf(s.cur)]
<1>0. /\ Has(s, appended) /\ Backed(s, open, preserved, EventsIn(sealed)) /\ DOMAIN proc = Procs /\ DOMAIN s = Fields
      /\ appended \in Nat /\ faults \in Nat
  BY Holds
<1>1. PICK base, top, start : Linked(sealed, base, top, start, appended) /\ Fits(s, sealed, base, top, start, appended)
  BY Holds
<1>2. /\ s.pc = "rename" /\ proc' = [proc EXCEPT ![p] = g] /\ Renamed(p)
      /\ UNCHANGED <<preserved, acked, appended, faults>>
  BY <1>0 DEF RenameSealed, HashOf
<1>3. \A q \in Procs : q # p => proc[q].pc = "down"
  BY <1>2, OthersAreDown DEF StoreInv
<1>4. PICK longer : Linked(sealed', base, top + 1, longer, appended) /\ longer[top + 1] = s.seq
  BY <1>1, <1>2, RenamedHas
<1>5. /\ Heads(HashOf(s.cur), sealed', top + 1) /\ s.cur.index = top /\ top \in Nat
      /\ \A f \in open' : f \in open
      /\ \A e : e \in EventsIn(sealed') <=> (e \in EventsIn(sealed) \/ e \in ToSet(s.cur.events))
      /\ \A e : e \in EventsIn(open) => (e \in EventsIn(open') \/ e \in ToSet(s.cur.events))
  BY <1>1, <1>2, RenamedHas
<1> HIDE DEF next
<1>6. /\ DOMAIN g = Fields /\ g.pc = s.then /\ g.cur = NoSegment /\ g.next = next /\ g.seq = s.seq /\ g.todo = s.todo
      /\ g.then = s.then /\ g.prev = HashOf(s.cur) /\ g.mine = s.mine /\ g.degraded = s.degraded /\ g.sealed = s.sealed
  <2> HIDE DEF s
  <2> QED BY <1>0 DEF Fields
<1> HIDE DEF s, g
<1>7. next = top + 1 /\ next \in Nat
  BY <1>5 DEF next
<1>8. /\ s.cur # NoSegment /\ s.then \in {"run", "create", "sealed", "drop"} /\ ~s.degraded /\ ~s.sealed
      /\ s.degraded \in BOOLEAN /\ s.sealed \in BOOLEAN /\ s.seq \in 1 .. appended + 1 /\ s.todo \in Seq(Issued(appended))
      /\ s.then = "create" => s.seq <= appended /\ \E id \in 1 .. appended : s.todo = <<[seq |-> s.seq, id |-> id]>>
  BY <1>0, <1>2 DEF Has
<1>9. s.mine \subseteq EventsIn(sealed')
  <2>1. s.mine \subseteq EventsIn(sealed) \union Memory(s)
    BY <1>0, <1>2, <1>8 DEF Backed, Working
  <2> QED BY <1>5, <1>8, <2>1 DEF Memory
<1>10. Has(g, appended)
  BY <1>6, <1>7, <1>8 DEF Has, Working, Places
<1>11. Backed(g, open', preserved', EventsIn(sealed'))
  BY <1>6, <1>8, <1>9 DEF Backed, Working, Memory
<1>12. Fits(g, sealed', base, top + 1, longer, appended)
  BY <1>4, <1>5, <1>6, <1>7, <1>8 DEF Fits, Continues, Working
<1>13. FilesInv'
  BY <1>2, <1>5 DEF StoreInv, FilesInv
<1>14. /\ EventsIn(sealed) \subseteq EventsIn(sealed') /\ acked' \subseteq acked \union Memory(g)
       /\ EventsIn(open \union preserved) \union Memory(proc[p])
            \subseteq EventsIn(sealed') \union EventsIn(open' \union preserved') \union Memory(g) \union {}
  <2>1. Memory(proc[p]) = ToSet(s.cur.events)
    BY <1>8 DEF Memory, s
  <2>2. EventsIn(open \union preserved) = EventsIn(open) \union EventsIn(preserved)
    BY EventsUnion
  <2>3. EventsIn(open' \union preserved') = EventsIn(open') \union EventsIn(preserved')
    BY EventsUnion
  <2>4. preserved' = preserved /\ acked' = acked
    BY <1>2
  <2> QED BY <1>5, <2>1, <2>2, <2>3, <2>4
<1>15. /\ Linked(sealed', base, top + 1, longer, appended') /\ Has(g, appended')
       /\ Fits(g, sealed', base, top + 1, longer, appended')
       /\ appended <= appended' /\ faults <= faults' /\ IsFiniteSet({})
  BY <1>0, <1>2, <1>4, <1>10, <1>12, FS_EmptySet
<1>16. proc' = [proc EXCEPT ![p] = g]
  BY <1>2
<1> QED BY <1>3, <1>11, <1>13, <1>14, <1>15, <1>16, StepKeeps

\* A new file, which replaces none, has nothing in it.
LEMMA CreateKeeps ==
  ASSUME StoreInv, NEW p \in Procs, Create(p)
  PROVE  StoreInv'
<1> DEFINE s == proc[p]
           g == [s EXCEPT !.pc = "header"]
           new == [index |-> s.next, header |-> FALSE, prev |-> NoHash, events |-> <<>>]
<1>0. /\ Has(s, appended) /\ Backed(s, open, preserved, EventsIn(sealed)) /\ DOMAIN proc = Procs /\ DOMAIN s = Fields
      /\ appended \in Nat /\ faults \in Nat
  BY Holds
<1>1. PICK base, top, start : Linked(sealed, base, top, start, appended) /\ Fits(s, sealed, base, top, start, appended)
  BY Holds
<1>2. /\ s.pc = "create" /\ proc' = [proc EXCEPT ![p] = g] /\ \A f \in open : f.index # s.next
      /\ open' = open \union {new}
      /\ UNCHANGED <<sealed, preserved, acked, appended, faults>>
  BY <1>0 DEF Create
<1>3. \A q \in Procs : q # p => proc[q].pc = "down"
  BY <1>2, OthersAreDown DEF StoreInv
<1>4. /\ DOMAIN g = Fields /\ g.pc = "header" /\ g.cur = s.cur /\ g.next = s.next /\ g.seq = s.seq /\ g.todo = s.todo
      /\ g.then = s.then /\ g.prev = s.prev /\ g.mine = s.mine /\ g.degraded = s.degraded /\ g.sealed = s.sealed
  <2> HIDE DEF s
  <2> QED BY <1>0 DEF Fields
<1> HIDE DEF s, g
<1>5. s.next \in Nat /\ s.cur = NoSegment /\ ~s.degraded /\ ~s.sealed
  BY <1>0, <1>2 DEF Has
<1>6. /\ DOMAIN new = {"index", "header", "prev", "events"} /\ new.index = s.next /\ new.header = FALSE /\ new.events = <<>>
  OBVIOUS
<1> HIDE DEF new
<1>7. FileOK(new, appended)
  <2>1. new.events \in Seq(Issued(appended)) /\ Len(new.events) = 0
    BY <1>6
  <2>0. new.header \in BOOLEAN
    <3>1. FALSE \in BOOLEAN /\ new.header = FALSE
      BY <1>6
    <3> QED BY <3>1
  <2>2. Len(new.events) <= SegmentMax
    BY <2>1, StoreAssumption
  <2> QED BY <1>5, <1>6, <2>0, <2>1, <2>2 DEF FileOK
<1>8. /\ \E f \in open' : f.index = s.next
      /\ \A f \in open' : f.index = s.next => f.events = <<>>
  BY <1>2, <1>6
<1>9. Has(g, appended)
  BY <1>0, <1>2, <1>4 DEF Has, Working, Places
<1>10. Backed(g, open', preserved', EventsIn(sealed'))
  BY <1>0, <1>2, <1>4, <1>5, <1>8 DEF Backed, Working, Memory
<1>11. Fits(g, sealed, base, top, start, appended)
  BY <1>1, <1>2, <1>4, <1>5 DEF Fits, Continues, Working
<1>12. FilesInv'
  BY <1>2, <1>7 DEF StoreInv, FilesInv
<1>13. /\ EventsIn(sealed) \subseteq EventsIn(sealed') /\ acked' \subseteq acked \union Memory(g)
       /\ EventsIn(open \union preserved) \union Memory(proc[p])
            \subseteq EventsIn(sealed') \union EventsIn(open' \union preserved') \union Memory(g) \union {}
  <2>1. Memory(proc[p]) = {}
    BY <1>5 DEF Memory, s
  <2>2. EventsIn(open \union preserved) = EventsIn(open) \union EventsIn(preserved)
    BY EventsUnion
  <2>3. EventsIn(open' \union preserved') = EventsIn(open') \union EventsIn(preserved')
    BY EventsUnion
  <2>4. sealed' = sealed /\ preserved' = preserved /\ acked' = acked
    BY <1>2
  <2>5. EventsIn(open') = EventsIn(open) \union EventsIn({new})
    BY <1>2, EventsUnion
  <2> QED BY <2>1, <2>2, <2>3, <2>4, <2>5
<1>14. /\ Linked(sealed', base, top, start, appended') /\ Has(g, appended')
       /\ Fits(g, sealed', base, top, start, appended')
       /\ appended <= appended' /\ faults <= faults' /\ IsFiniteSet({})
  BY <1>0, <1>1, <1>2, <1>9, <1>11, FS_EmptySet
<1>15. proc' = [proc EXCEPT ![p] = g]
  BY <1>2
<1> QED BY <1>3, <1>10, <1>12, <1>13, <1>14, <1>15, StepKeeps

\* The file of the new segment tells whose it is, and stays empty.
LEMMA WriteHeaderKeeps ==
  ASSUME StoreInv, NEW p \in Procs, WriteHeader(p)
  PROVE  StoreInv'
<1> DEFINE s == proc[p]
           cur == [index |-> s.next, prev |-> s.prev, events |-> <<>>, flushed |-> 0]
           g == [s EXCEPT !.pc = "write", !.cur = cur]
           new(f) == IF f.index = s.next THEN [f EXCEPT !.header = TRUE, !.prev = s.prev] ELSE f
<1>0. /\ Has(s, appended) /\ Backed(s, open, preserved, EventsIn(sealed)) /\ DOMAIN proc = Procs /\ DOMAIN s = Fields
      /\ appended \in Nat /\ faults \in Nat
  BY Holds
<1>1. PICK base, top, start : Linked(sealed, base, top, start, appended) /\ Fits(s, sealed, base, top, start, appended)
  BY Holds
<1>2. /\ s.pc = "header" /\ proc' = [proc EXCEPT ![p] = g] /\ open' = {new(f) : f \in open}
      /\ UNCHANGED <<sealed, preserved, acked, appended, faults>>
  BY <1>0 DEF WriteHeader
<1>3. \A q \in Procs : q # p => proc[q].pc = "down"
  BY <1>2, OthersAreDown DEF StoreInv
<1>4. ASSUME NEW f \in open
      PROVE  FileOK(new(f), appended) /\ new(f).index = f.index /\ new(f).events = f.events
  <2>1. FileOK(f, appended)
    BY DEF StoreInv, FilesInv
  <2>2. CASE f.index = s.next
    <3> DEFINE h == [f EXCEPT !.header = TRUE, !.prev = s.prev]
    <3>1. DOMAIN h = {"index", "header", "prev", "events"} /\ h.index = f.index /\ h.header = TRUE /\ h.events = f.events
      <4> HIDE DEF s
      <4> QED BY <2>1 DEF FileOK
    <3>2. new(f) = h
      BY <2>2
    <3> HIDE DEF h, new, s
    <3>3. TRUE \in BOOLEAN
      OBVIOUS
    <3>4. FileOK(h, appended)
      BY <2>1, <3>1, <3>3 DEF FileOK
    <3> QED BY <3>1, <3>2, <3>4
  <2>3. CASE f.index # s.next
    BY <2>1, <2>3
  <2> QED BY <2>2, <2>3
<1> HIDE DEF new
<1>5. /\ DOMAIN cur = {"index", "prev", "events", "flushed"} /\ cur.index = s.next /\ cur.prev = s.prev
      /\ cur.events = <<>> /\ cur.flushed = 0
  OBVIOUS
<1> HIDE DEF cur
<1>6. /\ DOMAIN g = Fields /\ g.pc = "write" /\ g.cur = cur /\ g.next = s.next /\ g.seq = s.seq /\ g.todo = s.todo
      /\ g.then = s.then /\ g.prev = s.prev /\ g.mine = s.mine /\ g.degraded = s.degraded /\ g.sealed = s.sealed
  <2> HIDE DEF s
  <2> QED BY <1>0 DEF Fields
<1> HIDE DEF s, g
<1>7. s.next \in Nat /\ s.cur = NoSegment /\ ~s.degraded /\ ~s.sealed
  BY <1>0, <1>2 DEF Has
<1>8. cur # NoSegment
  <2>1. NoSegment.index = -1
    BY DEF NoSegment
  <2> QED BY <1>5, <1>7, <2>1
<1>9. Len(cur.events) = 0 /\ cur.events \in Seq(Issued(appended)) /\ ToSet(cur.events) = {} /\ SegmentMax > 0 /\ FlushEvery > 0
  <2>1. ToSet(<<>>) = {}
    BY DEF ToSet
  <2> QED BY <1>5, <2>1, StoreAssumption
<1>10. /\ \E f \in open' : f.index = s.next
       /\ \A f \in open' : FileOK(f, appended) /\ (f.index = s.next => ToSet(f.events) \subseteq ToSet(cur.events))
  <2>1. /\ \E f \in open : f.index = s.next
        /\ \A f \in open : f.index = s.next => f.events = <<>>
    BY <1>0, <1>2 DEF Backed
  <2> QED BY <1>2, <1>4, <1>5, <2>1
<1>11. Has(g, appended)
  BY <1>0, <1>2, <1>6, <1>7, <1>8, <1>9 DEF Has, Working, Places
<1>12. Backed(g, open', preserved', EventsIn(sealed'))
  <2>1. s.mine \subseteq EventsIn(sealed)
    BY <1>0, <1>2, <1>7 DEF Backed, Working, Memory
  <2>2. cur.flushed \in 0 .. Len(cur.events) /\ Len(cur.events) - cur.flushed < FlushEvery
    BY <1>5, <1>9, StoreAssumption
  <2> QED BY <1>2, <1>5, <1>6, <1>8, <1>10, <2>1, <2>2 DEF Backed, Working, Memory
<1>13. Fits(g, sealed, base, top, start, appended)
  <2>1. s.next = top /\ Heads(s.prev, sealed, top) /\ s.seq = start[top]
    BY <1>1, <1>2, <1>7 DEF Fits, Continues, Working
  <2>2. NumberedFrom(cur.events, start[top]) /\ Len(cur.events) <= SegmentMax
    BY <1>9, StoreAssumption DEF NumberedFrom
  <2>3. s.seq = start[top] + Len(cur.events)
    <3>1. start[top] \in Nat
      BY <1>0, <1>1, ChainFields
    <3> QED BY <1>9, <2>1, <3>1
  <2> QED BY <1>5, <1>6, <1>8, <1>9, <2>1, <2>2, <2>3 DEF Fits, Continues, Working
<1>14. FilesInv'
  BY <1>2, <1>10 DEF StoreInv, FilesInv
<1>15. /\ EventsIn(sealed) \subseteq EventsIn(sealed') /\ acked' \subseteq acked \union Memory(g)
       /\ EventsIn(open \union preserved) \union Memory(proc[p])
            \subseteq EventsIn(sealed') \union EventsIn(open' \union preserved') \union Memory(g) \union {}
  <2>1. Memory(proc[p]) = {}
    BY <1>7 DEF Memory, s
  <2>2. EventsIn(open \union preserved) = EventsIn(open) \union EventsIn(preserved)
    BY EventsUnion
  <2>3. EventsIn(open' \union preserved') = EventsIn(open') \union EventsIn(preserved')
    BY EventsUnion
  <2>4. sealed' = sealed /\ preserved' = preserved /\ acked' = acked
    BY <1>2
  <2>5. EventsIn(open) \subseteq EventsIn(open')
    <3> SUFFICES ASSUME NEW e \in EventsIn(open)
                 PROVE  e \in EventsIn(open')
      OBVIOUS
    <3>1. PICK f \in open : e \in ToSet(f.events)
      BY InEvents
    <3>2. new(f) \in open' /\ new(f).events = f.events
      BY <1>2, <1>4
    <3> QED BY <3>1, <3>2, InEvents
  <2> QED BY <2>1, <2>2, <2>3, <2>4, <2>5
<1>16. /\ Linked(sealed', base, top, start, appended') /\ Has(g, appended')
       /\ Fits(g, sealed', base, top, start, appended')
       /\ appended <= appended' /\ faults <= faults' /\ IsFiniteSet({})
  BY <1>0, <1>1, <1>2, <1>11, <1>13, FS_EmptySet
<1>17. proc' = [proc EXCEPT ![p] = g]
  BY <1>2
<1> QED BY <1>3, <1>12, <1>14, <1>15, <1>16, <1>17, StepKeeps

\* A segment with one event more at its end.
LEMMA OneMore ==
  ASSUME NEW n \in Nat, NEW events \in Seq(Issued(n)), NEW e \in Issued(n), NEW first \in Nat,
         NumberedFrom(events, first), e.seq = first + Len(events)
  PROVE  LET more == events \o <<e>>
         IN /\ more \in Seq(Issued(n)) /\ Len(more) = Len(events) + 1 /\ NumberedFrom(more, first)
            /\ \A x : x \in ToSet(more) <=> (x \in ToSet(events) \/ x = e)
<1> DEFINE more == events \o <<e>>
<1> HIDE DEF Issued
<1>1. /\ more \in Seq(Issued(n)) /\ Len(more) = Len(events) + 1 /\ Len(events) \in Nat
      /\ \A i \in 1 .. Len(events) : more[i] = events[i]
      /\ more[Len(events) + 1] = e
  <2>1. <<e>> \in Seq(Issued(n)) /\ Len(<<e>>) = 1 /\ <<e>>[1] = e
    OBVIOUS
  <2> QED BY <2>1
<1>2. DOMAIN more = 1 .. Len(more) /\ DOMAIN events = 1 .. Len(events)
  BY <1>1
<1> HIDE DEF more
<1>3. NumberedFrom(more, first)
  <2> SUFFICES ASSUME NEW i \in 1 .. Len(more)
               PROVE  more[i].seq = first + i - 1
    BY DEF NumberedFrom
  <2>1. CASE i \in 1 .. Len(events)
    BY <1>1, <2>1 DEF NumberedFrom
  <2>2. CASE i = Len(events) + 1
    BY <1>1, <2>2
  <2> QED BY <1>1, <2>1, <2>2
<1>4. ASSUME NEW x
      PROVE  x \in ToSet(more) <=> (x \in ToSet(events) \/ x = e)
  <2>1. ASSUME x \in ToSet(more) PROVE x \in ToSet(events) \/ x = e
    <3>1. PICK i \in 1 .. Len(more) : x = more[i]
      BY <1>2, <2>1 DEF ToSet
    <3>2. i \in 1 .. Len(events) \/ i = Len(events) + 1
      BY <1>1
    <3> QED BY <1>1, <1>2, <3>1, <3>2 DEF ToSet
  <2>2. ASSUME x \in ToSet(events) PROVE x \in ToSet(more)
    <3>1. PICK i \in 1 .. Len(events) : x = events[i]
      BY <1>2, <2>2 DEF ToSet
    <3>2. i \in 1 .. Len(more) /\ x = more[i]
      BY <1>1, <3>1
    <3> QED BY <1>2, <3>2 DEF ToSet
  <2>3. ASSUME x = e PROVE x \in ToSet(more)
    <3>1. Len(events) + 1 \in 1 .. Len(more)
      BY <1>1
    <3> QED BY <1>1, <1>2, <2>3, <3>1 DEF ToSet
  <2> QED BY <2>1, <2>2, <2>3
<1> QED BY <1>1, <1>3, <1>4 DEF more

\* The event is in memory, or in the file with all that were in memory, before it is acknowledged.
LEMMA WriteEventKeeps ==
  ASSUME StoreInv, NEW p \in Procs, WriteEvent(p)
  PROVE  StoreInv'
<1> DEFINE s == proc[p]
           n == appended
           events == s.cur.events \o s.todo
           flush == Len(events) - s.cur.flushed >= FlushEvery
           cur == [s.cur EXCEPT !.events = events, !.flushed = IF flush THEN Len(events) ELSE s.cur.flushed]
           seq == s.seq + 1
           mine == s.mine \union ToSet(s.todo)
           g == [s EXCEPT !.pc = "run", !.seq = seq, !.todo = <<>>, !.mine = mine, !.cur = cur]
<1>0. /\ Has(s, n) /\ Backed(s, open, preserved, EventsIn(sealed)) /\ DOMAIN proc = Procs /\ DOMAIN s = Fields
      /\ n \in Nat /\ faults \in Nat
  BY Holds
<1>1. PICK base, top, start : Linked(sealed, base, top, start, n) /\ Fits(s, sealed, base, top, start, n)
  BY Holds
<1>2. /\ s.pc = "write" /\ open' = (IF flush THEN Written(p, events) ELSE open) /\ acked' = acked \union ToSet(s.todo)
      /\ UNCHANGED <<sealed, preserved, appended, faults>>
  BY DEF WriteEvent
<1>3. \A q \in Procs : q # p => proc[q].pc = "down"
  BY <1>2, OthersAreDown DEF StoreInv
<1> HIDE DEF events, flush, seq, mine
<1>4. s.cur # NoSegment /\ s.cur = proc[p].cur /\ DOMAIN s.cur = {"index", "prev", "events", "flushed"}
  BY <1>0, <1>2 DEF Has, Backed, Working
<1>5. proc' = [proc EXCEPT ![p] = g]
  <2>1. proc' = [proc EXCEPT ![p].pc = "run", ![p].seq = @ + 1, ![p].todo = <<>>,
                              ![p].mine = @ \union ToSet(s.todo),
                              ![p].cur = [s.cur EXCEPT !.events = events, !.flushed = IF flush THEN Len(events) ELSE @]]
    BY DEF WriteEvent, events, flush
  <2>2. cur = [s.cur EXCEPT !.events = events, !.flushed = IF flush THEN Len(events) ELSE @]
    BY <1>4
  <2> HIDE DEF cur
  <2> QED BY <1>0, <2>1, <2>2 DEF seq, mine
<1>6. /\ DOMAIN cur = {"index", "prev", "events", "flushed"} /\ cur.index = s.cur.index /\ cur.prev = s.cur.prev
      /\ cur.events = events /\ cur.flushed = IF flush THEN Len(events) ELSE s.cur.flushed
  <2> HIDE DEF s
  <2> QED BY <1>4
<1> HIDE DEF cur
<1>7. /\ DOMAIN g = Fields /\ g.pc = "run" /\ g.cur = cur /\ g.next = s.next /\ g.seq = seq /\ g.todo = <<>>
      /\ g.then = s.then /\ g.prev = s.prev /\ g.mine = mine /\ g.degraded = s.degraded /\ g.sealed = s.sealed
  <2> HIDE DEF s
  <2> QED BY <1>0 DEF Fields
<1> HIDE DEF s, g
<1>8. /\ s.next \in Nat /\ ~s.degraded /\ ~s.sealed /\ s.degraded \in BOOLEAN /\ s.sealed \in BOOLEAN
      /\ Len(s.cur.events) < SegmentMax /\ s.seq \in 1 .. n
  BY <1>0, <1>2, <1>4 DEF Has
<1>9. PICK id \in 1 .. n : s.todo = <<[seq |-> s.seq, id |-> id]>>
  BY <1>0, <1>2 DEF Has
<1> DEFINE e == [seq |-> s.seq, id |-> id]
<1>10. e \in Issued(n) /\ e.seq = s.seq
  BY <1>8, <1>9 DEF Issued
<1>11. s.todo = <<e>> /\ ToSet(s.todo) = {e}
  <2>1. s.todo = <<e>>
    BY <1>9
  <2> HIDE DEF e
  <2>2. ToSet(<<e>>) = {e}
    BY DEF ToSet
  <2> QED BY <2>1, <2>2
<1> HIDE DEF e
<1>12. /\ s.cur.index = top /\ Heads(s.cur.prev, sealed, top) /\ s.cur.events \in Seq(Issued(n))
       /\ NumberedFrom(s.cur.events, start[top]) /\ s.seq = start[top] + Len(s.cur.events)
  BY <1>1, <1>2, <1>4 DEF Fits, Continues, Working
<1>13. start[top] \in Nat
  BY <1>0, <1>1, ChainFields
<1>14. /\ events \in Seq(Issued(n)) /\ Len(events) = Len(s.cur.events) + 1 /\ NumberedFrom(events, start[top])
       /\ \A x : x \in ToSet(events) <=> (x \in ToSet(s.cur.events) \/ x = e)
  <2> DEFINE old == s.cur.events
             first == start[top]
  <2>1. /\ n \in Nat /\ old \in Seq(Issued(n)) /\ e \in Issued(n) /\ first \in Nat
        /\ NumberedFrom(old, first) /\ e.seq = first + Len(old)
    BY <1>0, <1>10, <1>12, <1>13
  <2>2. events = old \o <<e>>
    BY <1>11 DEF events
  <2> HIDE DEF old, first
  <2>3. LET more == old \o <<e>>
        IN /\ more \in Seq(Issued(n)) /\ Len(more) = Len(old) + 1 /\ NumberedFrom(more, first)
           /\ \A x : x \in ToSet(more) <=> (x \in ToSet(old) \/ x = e)
    BY <2>1, OneMore
  <2> QED BY <2>2, <2>3 DEF old, first
<1>15. Len(events) <= SegmentMax /\ Len(s.cur.events) \in Nat /\ Len(events) \in Nat
  BY <1>8, <1>12, <1>14, StoreAssumption
<1>16. /\ \E f \in open : f.index = s.cur.index
       /\ \A f \in open : f.index = s.cur.index => ToSet(f.events) \subseteq ToSet(s.cur.events)
       /\ s.cur.flushed \in 0 .. Len(s.cur.events) /\ Len(s.cur.events) - s.cur.flushed < FlushEvery
       /\ s.mine \subseteq EventsIn(sealed) \union ToSet(s.cur.events)
  BY <1>0, <1>2, <1>4, <1>8 DEF Backed, Working, Memory
<1>17. /\ \A f \in open' : FileOK(f, n)
       /\ \E f \in open' : f.index = cur.index
       /\ \A f \in open' : f.index = cur.index => ToSet(f.events) \subseteq ToSet(events)
       /\ EventsIn(open) \subseteq EventsIn(open') \union ToSet(events)
  <2>1. \A f \in open : FileOK(f, n)
    BY DEF StoreInv, FilesInv, n
  <2>2. CASE flush
    <3> DEFINE old == ToSet(s.cur.events)
    <3>1. /\ events \in Seq(Issued(n)) /\ Len(events) <= SegmentMax
          /\ \A f \in open : FileOK(f, n)
          /\ \E f \in open : f.index = proc[p].cur.index
          /\ \A f \in open : f.index = proc[p].cur.index => ToSet(f.events) \subseteq old
      BY <1>4, <1>14, <1>15, <1>16, <2>1
    <3> HIDE DEF old
    <3>2. /\ \A f \in Written(p, events) : FileOK(f, n)
          /\ \E f \in Written(p, events) : f.index = proc[p].cur.index
          /\ \A f \in Written(p, events) : f.index = proc[p].cur.index => f.events = events
          /\ EventsIn(open) \subseteq EventsIn(Written(p, events)) \union old
      BY <3>1, WrittenIs
    <3>3. open' = Written(p, events) /\ cur.index = proc[p].cur.index
      BY <1>2, <1>4, <1>6, <2>2
    <3>4. old \subseteq ToSet(events)
      BY <1>14 DEF old
    <3> QED BY <3>2, <3>3, <3>4
  <2>3. CASE ~flush
    <3>1. open' = open
      BY <1>2, <2>3
    <3>2. ToSet(s.cur.events) \subseteq ToSet(events)
      BY <1>14
    <3> QED BY <1>6, <1>16, <2>1, <3>1, <3>2
  <2> QED BY <2>2, <2>3
<1>18. cur.flushed \in 0 .. Len(events) /\ Len(events) - cur.flushed < FlushEvery
  <2>1. CASE flush
    BY <1>6, <1>15, <2>1, StoreAssumption
  <2>2. CASE ~flush
    BY <1>6, <1>14, <1>15, <1>16, <2>2, StoreAssumption DEF flush
  <2> QED BY <2>1, <2>2
<1>19. cur # NoSegment
  <2>1. NoSegment.index = -1 /\ top \in Nat
    BY <1>0, <1>1, ChainFields DEF NoSegment
  <2> QED BY <1>6, <1>12, <2>1
<1>20. Has(g, n)
  <2>1. seq \in 1 .. n + 1 /\ <<>> \in Seq(Issued(n))
    BY <1>0, <1>8 DEF seq
  <2> QED BY <1>7, <1>8, <2>1 DEF Has, Working, Places
<1>21. Backed(g, open', preserved', EventsIn(sealed'))
  <2>1. mine \subseteq EventsIn(sealed) \union ToSet(events)
    BY <1>11, <1>14, <1>16 DEF mine
  <2> QED BY <1>2, <1>6, <1>7, <1>17, <1>18, <1>19, <2>1 DEF Backed, Working, Memory
<1>22. Fits(g, sealed, base, top, start, n)
  <2>1. seq = start[top] + Len(events)
    BY <1>8, <1>12, <1>13, <1>14, <1>15 DEF seq
  <2> QED BY <1>6, <1>7, <1>12, <1>14, <1>15, <1>19, <2>1 DEF Fits, Continues, Working
<1>23. FilesInv'
  <2>1. acked \subseteq Issued(n) /\ IsFiniteSet(acked) /\ \A f \in preserved : FileOK(f, n)
    BY DEF StoreInv, FilesInv, n
  <2>2. acked' \subseteq Issued(n) /\ IsFiniteSet(acked')
    <3>1. acked' = acked \union {e}
      BY <1>2, <1>11
    <3>2. IsFiniteSet(acked \union {e})
      BY <2>1, FS_AddElement
    <3> QED BY <1>10, <2>1, <3>1, <3>2
  <2>3. appended' = n /\ preserved' = preserved /\ n \in 0 .. MaxEvents /\ faults' \in 0 .. MaxFaults
    BY <1>2 DEF StoreInv, FilesInv, n
  <2> QED BY <1>17, <2>1, <2>2, <2>3 DEF FilesInv
<1>24. /\ EventsIn(sealed) \subseteq EventsIn(sealed') /\ acked' \subseteq acked \union Memory(g)
       /\ EventsIn(open \union preserved) \union Memory(proc[p])
            \subseteq EventsIn(sealed') \union EventsIn(open' \union preserved') \union Memory(g) \union {}
  <2>1. Memory(proc[p]) = ToSet(s.cur.events) /\ Memory(g) = ToSet(events)
    BY <1>4, <1>6, <1>7, <1>19 DEF Memory
  <2>2. EventsIn(open \union preserved) = EventsIn(open) \union EventsIn(preserved)
    BY EventsUnion
  <2>3. EventsIn(open' \union preserved') = EventsIn(open') \union EventsIn(preserved')
    BY EventsUnion
  <2>4. sealed' = sealed /\ preserved' = preserved /\ acked' = acked \union {e}
    BY <1>2, <1>11
  <2>5. ToSet(s.cur.events) \subseteq ToSet(events) /\ e \in ToSet(events)
    BY <1>14
  <2>6. EventsIn(open \union preserved) \union Memory(proc[p]) \subseteq EventsIn(open' \union preserved') \union Memory(g)
    <3>1. EventsIn(open) \subseteq EventsIn(open') \union ToSet(events) /\ EventsIn(preserved') = EventsIn(preserved)
      BY <1>17, <2>4
    <3> QED BY <2>1, <2>2, <2>3, <2>5, <3>1
  <2>7. EventsIn(sealed') = EventsIn(sealed) /\ acked' \subseteq acked \union Memory(g)
    BY <2>1, <2>4, <2>5
  <2> QED BY <2>6, <2>7
<1>25. /\ Linked(sealed', base, top, start, appended') /\ Has(g, appended')
       /\ Fits(g, sealed', base, top, start, appended')
       /\ appended <= appended' /\ faults <= faults' /\ IsFiniteSet({})
  BY <1>0, <1>1, <1>2, <1>20, <1>22, FS_EmptySet DEF n
<1> QED BY <1>5, <1>3, <1>21, <1>23, <1>24, <1>25, StepKeeps

-----------------------------------------------------------------------------
(* Recovery                                                                *)

\* What of a stale file continues the chain: its events are numbered from where it ends.
LEMMA PrefixContinues ==
  ASSUME NEW f, NEW n \in Nat, f.events \in Seq(Issued(n)), Len(f.events) <= SegmentMax,
         NEW first \in Nat, Len(ReadSession) = first - 1, first >= 1
  PROVE  /\ ValidPrefix(f) \in Seq(Issued(n)) /\ Len(ValidPrefix(f)) <= SegmentMax
         /\ NumberedFrom(ValidPrefix(f), first) /\ ToSet(ValidPrefix(f)) \subseteq ToSet(f.events)
<1> DEFINE k == Len(f.events)
           read == Len(ReadSession)
           good(m) == \A i \in 1 .. m : f.events[i].seq = read + i
           ends(m) == good(m) /\ (m = k \/ ~good(m + 1))
           m == CHOOSE j \in 0 .. k : ends(j)
<1>1. k \in Nat /\ f.events \in Seq(Issued(n)) /\ DOMAIN f.events = 1 .. k
  OBVIOUS
<1>2. ValidPrefix(f) = SubSeq(f.events, 1, m)
  BY DEF ValidPrefix
<1>3. \E j \in 0 .. k : ends(j)
  <2> DEFINE T == {j \in 0 .. k : j = k \/ ~good(j + 1)}
  <2>1. T \in SUBSET Nat /\ k \in T
    BY <1>1
  <2>2. PICK j \in T : \A i \in T : j <= i
    <3> HIDE DEF T
    <3> QED BY <2>1, Least
  <2>3. j \in 0 .. k /\ (j = k \/ ~good(j + 1))
    OBVIOUS
  <2>4. good(j)
    <3>1. CASE j = 0
      BY <3>1
    <3>2. CASE j # 0
      <4>1. j - 1 \in 0 .. k /\ j - 1 # k /\ j - 1 < j /\ (j - 1) + 1 = j
        BY <1>1, <2>3, <3>2
      <4>2. j - 1 \notin T
        <5> HIDE DEF T
        <5> QED BY <1>1, <2>2, <2>3, <4>1
      <4>3. good((j - 1) + 1)
        <5> HIDE DEF good
        <5> QED BY <4>1, <4>2
      <4> HIDE DEF good
      <4> QED BY <4>1, <4>3
    <3> QED BY <3>1, <3>2
  <2> HIDE DEF good
  <2> QED BY <2>3, <2>4
<1> HIDE DEF good
<1>4. m \in 0 .. k /\ good(m)
  BY <1>3
<1> HIDE DEF m
<1> DEFINE prefix == SubSeq(f.events, 1, m)
<1> HIDE DEF k
<1>5. /\ prefix \in Seq(Issued(n)) /\ Len(prefix) = m /\ \A i \in 1 .. m : prefix[i] = f.events[i]
  <2> DEFINE v == f.events
  <2>1. v \in Seq(Issued(n)) /\ m \in 0 .. Len(v) /\ Len(v) \in Nat
    BY <1>1, <1>4 DEF k
  <2> HIDE DEF v
  <2>2. SubSeq(v, 1, m) \in Seq(Issued(n)) /\ Len(SubSeq(v, 1, m)) = m /\ \A i \in 1 .. m : SubSeq(v, 1, m)[i] = v[i]
    BY <2>1
  <2> QED BY <2>2 DEF v
<1>6. DOMAIN prefix = 1 .. m
  BY <1>5
<1> HIDE DEF prefix
<1>7. NumberedFrom(prefix, first)
  <2> SUFFICES ASSUME NEW i \in 1 .. m
               PROVE  prefix[i].seq = first + i - 1
    BY <1>5 DEF NumberedFrom
  <2>1. f.events[i].seq = read + i
    BY <1>4 DEF good
  <2>2. i \in Nat /\ read = first - 1
    BY <1>1, <1>4
  <2> HIDE DEF read
  <2> QED BY <1>5, <2>1, <2>2
<1>8. ToSet(prefix) \subseteq ToSet(f.events)
  <2> SUFFICES ASSUME NEW i \in 1 .. m
               PROVE  prefix[i] \in ToSet(f.events)
    BY <1>6 DEF ToSet
  <2>1. i \in 1 .. k /\ prefix[i] = f.events[i]
    BY <1>1, <1>4, <1>5
  <2> QED BY <1>1, <2>1 DEF ToSet
<1>9. Len(prefix) <= SegmentMax
  BY <1>1, <1>4, <1>5, StoreAssumption DEF k
<1> QED BY <1>2, <1>5, <1>7, <1>8, <1>9 DEF prefix

\* The stale file is kept, and what of it continues the chain is the next segment.
LEMMA PreserveKeeps ==
  ASSUME StoreInv, NEW p \in Procs, Preserve(p)
  PROVE  StoreInv'
<1> DEFINE s == proc[p]
<1>0. /\ Has(s, appended) /\ Backed(s, open, preserved, EventsIn(sealed)) /\ DOMAIN proc = Procs /\ DOMAIN s = Fields
      /\ appended \in Nat /\ faults \in Nat
  BY Holds
<1>1. PICK b, t0, st0 : Linked(sealed, b, t0, st0, appended)
  BY Holds
<1>2. PICK f \in open :
        /\ s.pc = "opening" /\ Readable /\ open = {f} /\ f.index = Segments
        /\ open' = {} /\ preserved' = preserved \union {f}
        /\ proc' = [proc EXCEPT ![p].next = f.index + 1,
                                ![p].pc = IF HeaderValid(f) THEN "rebuilding" ELSE "loaded",
                                ![p].cur = IF HeaderValid(f)
                                           THEN [index |-> f.index, prev |-> f.prev, events |-> ValidPrefix(f)]
                                           ELSE NoSegment]
        /\ UNCHANGED <<sealed, acked, appended, faults>>
  BY DEF Preserve
<1> DEFINE seg == [index |-> f.index, prev |-> f.prev, events |-> ValidPrefix(f)]
           next == f.index + 1
           pc == IF HeaderValid(f) THEN "rebuilding" ELSE "loaded"
           cur == IF HeaderValid(f) THEN seg ELSE NoSegment
           g == [s EXCEPT !.next = next, !.pc = pc, !.cur = cur]
<1>3. proc' = [proc EXCEPT ![p] = g]
  BY <1>0, <1>2
<1>4. \A q \in Procs : q # p => proc[q].pc = "down"
  BY <1>2, OthersAreDown DEF StoreInv
<1>5. /\ DOMAIN seg = {"index", "prev", "events"} /\ seg.index = f.index /\ seg.prev = f.prev /\ seg.events = ValidPrefix(f)
  OBVIOUS
<1> HIDE DEF seg, next, pc, cur
<1>6. /\ DOMAIN g = Fields /\ g.pc = pc /\ g.cur = cur /\ g.next = next /\ g.seq = s.seq /\ g.todo = s.todo
      /\ g.then = s.then /\ g.prev = s.prev /\ g.mine = s.mine /\ g.degraded = s.degraded /\ g.sealed = s.sealed
  <2> HIDE DEF s
  <2> QED BY <1>0 DEF Fields
<1> HIDE DEF s, g
<1>7. IsFiniteSet(sealed)
  BY <1>0, <1>1, ChainSize
<1>8. PICK top, start : Linked(sealed, 0, top, start, appended)
  BY <1>0, <1>1, <1>2, <1>7, ReadableStarts
<1>9. Segments = top /\ Len(ReadSession) = start[top] - 1 /\ Heads(ChainHead, sealed, top)
  BY <1>0, <1>8, ChainIsRead
<1>10. top \in Nat /\ start[top] \in Nat /\ start[top] >= 1
  BY <1>0, <1>8, ChainFields
<1>11. FileOK(f, appended)
  BY DEF StoreInv, FilesInv
<1>12. /\ ValidPrefix(f) \in Seq(Issued(appended)) /\ Len(ValidPrefix(f)) <= SegmentMax
       /\ NumberedFrom(ValidPrefix(f), start[top]) /\ ToSet(ValidPrefix(f)) \subseteq ToSet(f.events)
  <2> DEFINE n == appended
             first == start[top]
  <2>1. /\ n \in Nat /\ f.events \in Seq(Issued(n)) /\ Len(f.events) <= SegmentMax
        /\ first \in Nat /\ Len(ReadSession) = first - 1 /\ first >= 1
    BY <1>0, <1>9, <1>10, <1>11 DEF FileOK
  <2> HIDE DEF n, first
  <2>2. /\ ValidPrefix(f) \in Seq(Issued(n)) /\ Len(ValidPrefix(f)) <= SegmentMax
        /\ NumberedFrom(ValidPrefix(f), first) /\ ToSet(ValidPrefix(f)) \subseteq ToSet(f.events)
    BY <2>1, PrefixContinues
  <2> QED BY <2>2 DEF n, first
<1>13. seg # NoSegment
  <2>1. NoSegment.index = -1 /\ seg.index = top
    BY <1>2, <1>5, <1>9 DEF NoSegment
  <2> QED BY <1>10, <2>1
<1>14. /\ s.seq \in 1 .. appended + 1 /\ s.mine = {} /\ ~s.degraded /\ ~s.sealed
       /\ s.degraded \in BOOLEAN /\ s.sealed \in BOOLEAN /\ s.todo \in Seq(Issued(appended)) /\ s.cur = NoSegment
  BY <1>0, <1>2 DEF Has, Working
<1>15. next \in Nat /\ pc \in {"rebuilding", "loaded"} /\ (pc = "rebuilding" => cur = seg) /\ (pc = "loaded" => cur = NoSegment)
  BY <1>2, <1>9, <1>10 DEF next, pc, cur
<1>16. Has(g, appended)
  BY <1>6, <1>13, <1>14, <1>15 DEF Has, Working, Places
<1>17. ToSet(f.events) \subseteq EventsIn(preserved')
  BY <1>2, InEvents
<1>18. Backed(g, open', preserved', EventsIn(sealed'))
  BY <1>5, <1>6, <1>12, <1>15, <1>17 DEF Backed, Working
<1>19. Fits(g, sealed, 0, top, start, appended)
  <2>1. pc = "rebuilding" => Heads(f.prev, sealed, top)
    BY <1>9 DEF pc, HeaderValid
  <2> QED BY <1>2, <1>5, <1>6, <1>9, <1>12, <1>15, <2>1 DEF Fits, Continues, Working
<1>20. FilesInv'
  <2>1. \A x \in open' \union preserved' : FileOK(x, appended)
    BY <1>2, <1>11 DEF StoreInv, FilesInv
  <2> QED BY <1>2, <2>1 DEF StoreInv, FilesInv
<1>21. /\ EventsIn(sealed) \subseteq EventsIn(sealed') /\ acked' \subseteq acked \union Memory(g)
       /\ EventsIn(open \union preserved) \union Memory(proc[p])
            \subseteq EventsIn(sealed') \union EventsIn(open' \union preserved') \union Memory(g) \union {}
  <2>1. Memory(proc[p]) = {}
    BY <1>14 DEF Memory, s
  <2>2. open \union preserved = open' \union preserved' /\ sealed' = sealed /\ acked' = acked
    BY <1>2
  <2>3. EventsIn(open \union preserved) = EventsIn(open' \union preserved')
    BY <2>2
  <2> QED BY <2>1, <2>2, <2>3
<1>22. /\ Linked(sealed', 0, top, start, appended') /\ Has(g, appended')
       /\ Fits(g, sealed', 0, top, start, appended')
       /\ appended <= appended' /\ faults <= faults' /\ IsFiniteSet({})
  BY <1>0, <1>2, <1>8, <1>16, <1>19, FS_EmptySet
<1> QED BY <1>3, <1>4, <1>18, <1>20, <1>21, <1>22, StepKeeps

-----------------------------------------------------------------------------
(* Failures                                                                *)

\* The part of a list that is not flushed.
Stretch(events, from) == {events[i] : i \in from + 1 .. Len(events)}

\* It holds less than a flush.
LEMMA StretchIsShort ==
  ASSUME NEW V, NEW events \in Seq(V), NEW from \in 0 .. Len(events), Len(events) - from < FlushEvery
  PROVE  /\ IsFiniteSet(Stretch(events, from)) /\ Cardinality(Stretch(events, from)) <= FlushEvery - 1
<1> DEFINE I == from + 1 .. Len(events)
           T == Stretch(events, from)
           g == [i \in I |-> events[i]]
<1>1. from \in Nat /\ Len(events) \in Nat /\ FlushEvery \in Nat
  BY StoreAssumption
<1>2. IsFiniteSet(I) /\ Cardinality(I) <= FlushEvery - 1 /\ Cardinality(I) \in Nat
  <2>1. from + 1 \in Int /\ Len(events) \in Int
    BY <1>1
  <2>2. IsFiniteSet(I) /\ Cardinality(I) = IF from + 1 > Len(events) THEN 0 ELSE Len(events) - (from + 1) + 1
    BY <2>1, FS_Interval
  <2> HIDE DEF I
  <2> QED BY <1>1, <2>2
<1>3. g \in Surjection(I, T)
  <2>1. T = {events[i] : i \in I}
    BY DEF Stretch
  <2>2. g \in [I -> T] /\ \A t \in T : \E i \in I : g[i] = t
    <3> HIDE DEF I
    <3> QED BY <2>1
  <2> QED BY <2>2, Fun_IsSurj
<1> HIDE DEF g, I, T
<1>4. IsFiniteSet(T) /\ Cardinality(T) <= Cardinality(I) /\ Cardinality(T) \in Nat
  BY <1>2, <1>3, FS_Surjection, FS_CardinalityType
<1> QED BY <1>1, <1>2, <1>4 DEF T

\* What is not in the unflushed part is in every prefix that reaches it.
LEMMA FlushedIsIn ==
  ASSUME NEW V, NEW events \in Seq(V), NEW from \in 0 .. Len(events),
         NEW more \in Seq(V), Len(events) <= Len(more), \A i \in 1 .. Len(events) : more[i] = events[i],
         NEW n \in from .. Len(more), NEW e \in ToSet(events), e \notin Stretch(events, from)
  PROVE  e \in ToSet(SubSeq(more, 1, n))
<1>1. PICK i \in 1 .. Len(events) : e = events[i]
  <2>1. DOMAIN events = 1 .. Len(events)
    OBVIOUS
  <2> QED BY <2>1 DEF ToSet
<1>2. from \in Nat /\ n \in Nat /\ i \in Nat /\ n \in 0 .. Len(more)
  OBVIOUS
<1>3. ~(i \in from + 1 .. Len(events))
  BY <1>1 DEF Stretch
<1>4. i \in 1 .. n
  BY <1>1, <1>2, <1>3
<1>5. Len(SubSeq(more, 1, n)) = n /\ SubSeq(more, 1, n) \in Seq(V) /\ \A j \in 1 .. n : SubSeq(more, 1, n)[j] = more[j]
  BY <1>2
<1>6. DOMAIN SubSeq(more, 1, n) = 1 .. n /\ SubSeq(more, 1, n)[i] = e
  BY <1>1, <1>4, <1>5
<1> QED BY <1>4, <1>6 DEF ToSet

\* A list with another after it.
LEMMA Joined ==
  ASSUME NEW V, NEW a \in Seq(V), NEW b \in Seq(V)
  PROVE  /\ a \o b \in Seq(V) /\ Len(a \o b) = Len(a) + Len(b) /\ Len(a) \in Nat /\ Len(b) \in Nat
         /\ \A i \in 1 .. Len(a) : (a \o b)[i] = a[i]
  OBVIOUS

\* The files a failure can leave: they lack at most the events not flushed.
LEMMA BufferedHas ==
  ASSUME StoreInv, NEW p \in Procs, NEW O, O \in Buffered(p)
  PROVE  /\ \A f \in O : FileOK(f, appended)
         /\ \E X : /\ IsFiniteSet(X) /\ Cardinality(X) <= FlushEvery - 1
                   /\ \A e : e \in EventsIn(open) \/ e \in Memory(proc[p])
                               => (e \in EventsIn(O) \/ e \in EventsIn(preserved) \/ e \in X)
<1> DEFINE s == proc[p]
<1>0. Has(s, appended) /\ Backed(s, open, preserved, EventsIn(sealed)) /\ appended \in Nat
  BY Holds
<1>1. \A f \in open : FileOK(f, appended)
  BY DEF StoreInv, FilesInv
<1>2. IsFiniteSet({}) /\ Cardinality({}) <= FlushEvery - 1
  <2>1. 0 <= FlushEvery - 1
    BY StoreAssumption
  <2> QED BY <2>1, FS_EmptySet
<1>3. CASE s.cur = NoSegment \/ s.pc = "rebuilding"
  <2>1. O = open
    BY <1>3 DEF Buffered
  <2>2. \A e \in Memory(s) : e \in EventsIn(preserved)
    <3> HIDE DEF s
    <3> QED BY <1>0, <1>3 DEF Backed, Memory
  <2>3. \A e : e \in EventsIn(open) \/ e \in Memory(s) => (e \in EventsIn(O) \/ e \in EventsIn(preserved) \/ e \in {})
    BY <2>1, <2>2
  <2> QED BY <1>1, <1>2, <2>1, <2>3
<1>4. CASE s.cur # NoSegment /\ s.pc # "rebuilding"
  <2> DEFINE events == s.cur.events
             more == IF s.pc = "write" THEN events \o s.todo ELSE events
             X == Stretch(events, s.cur.flushed)
  <2>1. PICK n \in s.cur.flushed .. Len(more) : O = Written(p, SubSeq(more, 1, n))
    BY <1>4 DEF Buffered
  <2>2. s.pc \in Working
    <3> HIDE DEF s
    <3> QED BY <1>0, <1>4 DEF Has, Places
  <2> HIDE DEF s
  <2>3. /\ s.cur.flushed \in 0 .. Len(events) /\ Len(events) - s.cur.flushed < FlushEvery
        /\ \E f \in open : f.index = s.cur.index
        /\ \A f \in open : f.index = s.cur.index => ToSet(f.events) \subseteq ToSet(events)
    BY <1>0, <1>4, <2>2 DEF Backed
  <2>4. events \in Seq(Issued(appended)) /\ Len(events) <= SegmentMax
    <3>1. PICK base, top, start : Fits(s, sealed, base, top, start, appended)
      BY Holds DEF s
    <3> QED BY <1>4, <3>1 DEF Fits, Continues
  <2>5. /\ more \in Seq(Issued(appended)) /\ Len(events) <= Len(more) /\ Len(more) <= SegmentMax
        /\ \A i \in 1 .. Len(events) : more[i] = events[i]
    <3>1. CASE s.pc = "write"
      <4>1. s.todo \in Seq(Issued(appended)) /\ Len(events) < SegmentMax
        BY <1>0, <3>1 DEF Has
      <4>2. Len(s.todo) = 1
        <5>1. PICK id : s.todo = <<[seq |-> s.seq, id |-> id]>>
          BY <1>0, <3>1 DEF Has
        <5> QED BY <5>1
      <4> DEFINE V == Issued(appended)
                 a == events
                 b == s.todo
      <4>3. a \in Seq(V) /\ b \in Seq(V) /\ Len(b) = 1 /\ Len(a) < SegmentMax /\ more = a \o b
        BY <2>4, <3>1, <4>1, <4>2
      <4> HIDE DEF V, a, b, more, events
      <4>4. more \in Seq(V) /\ Len(a) <= Len(more) /\ Len(more) <= SegmentMax /\ \A i \in 1 .. Len(a) : more[i] = a[i]
        <5>1. /\ a \o b \in Seq(V) /\ Len(a \o b) = Len(a) + Len(b) /\ Len(a) \in Nat /\ Len(b) \in Nat
              /\ \A i \in 1 .. Len(a) : (a \o b)[i] = a[i]
          BY <4>3, Joined
        <5> QED BY <4>3, <5>1, StoreAssumption
      <4> QED BY <4>4 DEF V, a
    <3>2. CASE s.pc # "write"
      <4>1. Len(events) \in Nat
        BY <2>4
      <4> QED BY <2>4, <3>2, <4>1
    <3> QED BY <3>1, <3>2
  <2> HIDE DEF events, more, X
  <2>6. n \in 0 .. Len(more) /\ Len(more) \in Nat /\ s.cur.flushed \in Nat
    BY <2>3, <2>5
  <2> DEFINE kept == SubSeq(more, 1, n)
  <2>7. kept \in Seq(Issued(appended)) /\ Len(kept) <= SegmentMax
    <3> DEFINE V == Issued(appended)
    <3>1. more \in Seq(V)
      BY <2>5
    <3> HIDE DEF V
    <3>2. kept \in Seq(V) /\ Len(kept) = n
      BY <2>6, <3>1
    <3> QED BY <2>5, <2>6, <3>2, StoreAssumption DEF V
  <2> HIDE DEF kept
  <2> DEFINE old == ToSet(events)
             m == appended
  <2>8. /\ kept \in Seq(Issued(m)) /\ Len(kept) <= SegmentMax
        /\ \A f \in open : FileOK(f, m)
        /\ \E f \in open : f.index = proc[p].cur.index
        /\ \A f \in open : f.index = proc[p].cur.index => ToSet(f.events) \subseteq old
    BY <1>1, <2>3, <2>7 DEF s
  <2> HIDE DEF old, m
  <2>9. /\ \A f \in Written(p, kept) : FileOK(f, m)
        /\ EventsIn(open) \subseteq EventsIn(Written(p, kept)) \union old
        /\ ToSet(kept) \subseteq EventsIn(Written(p, kept))
    BY <2>8, WrittenIs
  <2>10. O = Written(p, kept)
    BY <2>1 DEF kept
  <2>11. ASSUME NEW e \in old, e \notin X
         PROVE  e \in EventsIn(O)
    <3> DEFINE V == Issued(appended)
               from == s.cur.flushed
    <3>1. /\ events \in Seq(V) /\ from \in 0 .. Len(events) /\ more \in Seq(V) /\ Len(events) <= Len(more)
          /\ \A i \in 1 .. Len(events) : more[i] = events[i]
          /\ n \in from .. Len(more) /\ e \in ToSet(events) /\ e \notin Stretch(events, from)
      BY <2>1, <2>3, <2>4, <2>5, <2>11 DEF old, X
    <3> HIDE DEF V, from
    <3>2. e \in ToSet(SubSeq(more, 1, n))
      BY <3>1, FlushedIsIn
    <3> QED BY <2>9, <2>10, <3>2 DEF kept
  <2>12. Memory(s) = old
    BY <1>4 DEF Memory, old, events
  <2>13. \A e : e \in EventsIn(open) \/ e \in Memory(s) => (e \in EventsIn(O) \/ e \in EventsIn(preserved) \/ e \in X)
    BY <2>9, <2>10, <2>11, <2>12
  <2>14. IsFiniteSet(X) /\ Cardinality(X) <= FlushEvery - 1
    <3> DEFINE V == Issued(appended)
               from == s.cur.flushed
    <3>1. events \in Seq(V) /\ from \in 0 .. Len(events) /\ Len(events) - from < FlushEvery
      BY <2>3, <2>4
    <3> HIDE DEF V, from
    <3>2. IsFiniteSet(Stretch(events, from)) /\ Cardinality(Stretch(events, from)) <= FlushEvery - 1
      BY <3>1, StretchIsShort
    <3> QED BY <3>2 DEF X, from
  <2>15. \A f \in O : FileOK(f, appended)
    BY <2>9, <2>10 DEF m
  <2> QED BY <2>13, <2>14, <2>15 DEF s
<1> QED BY <1>3, <1>4

\* A process that dies loses what is in no file, which is less than a flush.
LEMMA CrashKeeps ==
  ASSUME StoreInv, NEW p \in Procs, Crash(p)
  PROVE  StoreInv'
<1> DEFINE s == proc[p]
<1>0. appended \in Nat /\ faults \in Nat /\ faults <= MaxFaults
  BY Holds
<1>1. PICK base, top, start : Linked(sealed, base, top, start, appended)
  BY Holds
<1>2. /\ s.pc # "down" /\ faults < MaxFaults /\ faults' = faults + 1 /\ open' \in Buffered(p)
      /\ proc' = [proc EXCEPT ![p] = Down] /\ UNCHANGED <<sealed, preserved, acked, appended>>
  BY DEF Crash
<1>3. \A q \in Procs : q # p => proc[q].pc = "down"
  BY <1>2, OthersAreDown DEF StoreInv
<1>4. PICK X : /\ IsFiniteSet(X) /\ Cardinality(X) <= FlushEvery - 1
               /\ \A e : e \in EventsIn(open) \/ e \in Memory(s)
                           => (e \in EventsIn(open') \/ e \in EventsIn(preserved) \/ e \in X)
  BY <1>2, BufferedHas
<1>5. \A f \in open' : FileOK(f, appended)
  BY <1>2, BufferedHas
<1> HIDE DEF s
<1>6. /\ Down.pc = "down" /\ DOMAIN Down = Fields /\ Down.cur = NoSegment /\ Down.mine = {} /\ Down.degraded = FALSE
      /\ Down.sealed = FALSE /\ Down.next \in Nat /\ Down.todo = <<>> /\ Down.seq = 1
  BY DEF Down, Fields
<1>7. Has(Down, appended)
  <2>1. Down.todo \in Seq(Issued(appended)) /\ Down.seq \in 1 .. appended + 1
    BY <1>0, <1>6
  <2> QED BY <1>6, <2>1 DEF Has, Places, Working
<1>8. Backed(Down, open', preserved', EventsIn(sealed')) /\ Fits(Down, sealed, base, top, start, appended)
  BY <1>6 DEF Backed, Fits, Continues, Working
<1>9. FilesInv'
  BY <1>0, <1>2, <1>5, StoreAssumption DEF StoreInv, FilesInv
<1>10. /\ EventsIn(sealed) \subseteq EventsIn(sealed') /\ acked' \subseteq acked \union Memory(Down)
       /\ EventsIn(open \union preserved) \union Memory(proc[p])
            \subseteq EventsIn(sealed') \union EventsIn(open' \union preserved') \union Memory(Down) \union X
  <2>1. EventsIn(open \union preserved) = EventsIn(open) \union EventsIn(preserved)
    BY EventsUnion
  <2>2. EventsIn(open' \union preserved') = EventsIn(open') \union EventsIn(preserved')
    BY EventsUnion
  <2>3. sealed' = sealed /\ preserved' = preserved /\ acked' = acked
    BY <1>2
  <2> QED BY <1>4, <2>1, <2>2, <2>3 DEF s
<1>11. /\ Linked(sealed', base, top, start, appended') /\ Has(Down, appended')
       /\ Fits(Down, sealed', base, top, start, appended') /\ appended <= appended'
  BY <1>0, <1>1, <1>2, <1>7, <1>8
<1> QED BY <1>2, <1>3, <1>4, <1>8, <1>9, <1>10, <1>11, StepKeeps

\* A recovery that fails keeps the file it started from.
LEMMA RecoveryFailsKeeps ==
  ASSUME StoreInv, NEW p \in Procs, RecoveryFails(p)
  PROVE  StoreInv'
<1>1. Crash(p)
  BY DEF RecoveryFails, Crash, Buffered
<1> QED BY <1>1, CrashKeeps

\* A process whose store failed has nothing in memory any more.
LEMMA FailsKeeps ==
  ASSUME StoreInv, NEW p \in Procs, Fails(p)
  PROVE  StoreInv'
<1> DEFINE s == proc[p]
           g == [s EXCEPT !.pc = "run", !.cur = NoSegment, !.degraded = TRUE, !.todo = <<>>]
<1>0. /\ Has(s, appended) /\ Backed(s, open, preserved, EventsIn(sealed)) /\ DOMAIN proc = Procs /\ DOMAIN s = Fields
      /\ appended \in Nat /\ faults \in Nat /\ faults <= MaxFaults
  BY Holds
<1>1. PICK base, top, start : Linked(sealed, base, top, start, appended) /\ Fits(s, sealed, base, top, start, appended)
  BY Holds
<1>2. /\ s.pc \in {"footer", "rename", "create", "header", "write"} /\ faults < MaxFaults /\ faults' = faults + 1
      /\ (open' \in Buffered(p) /\ UNCHANGED sealed) \/ (s.pc = "rename" /\ Renamed(p))
      /\ UNCHANGED <<preserved, acked, appended>>
  BY DEF Fails
<1>3. proc' = [proc EXCEPT ![p] = g]
  BY <1>0 DEF Fails, Degrade
<1>4. \A q \in Procs : q # p => proc[q].pc = "down"
  BY <1>2, OthersAreDown DEF StoreInv
<1>5. /\ DOMAIN g = Fields /\ g.pc = "run" /\ g.cur = NoSegment /\ g.next = s.next /\ g.seq = s.seq /\ g.todo = <<>>
      /\ g.mine = s.mine /\ g.degraded = TRUE /\ g.sealed = s.sealed
  <2> HIDE DEF s
  <2> QED BY <1>0 DEF Fields
<1> HIDE DEF g
<1>6. Has(g, appended)
  <2> HIDE DEF s
  <2>1. s.next \in Nat /\ s.seq \in 1 .. appended + 1 /\ s.sealed \in BOOLEAN
    BY <1>0 DEF Has
  <2>2. <<>> \in Seq(Issued(appended))
    OBVIOUS
  <2>3. g.degraded \in BOOLEAN
    BY <1>5, Zenon
  <2> QED BY <1>5, <2>1, <2>2, <2>3 DEF Has, Working, Places
<1>7. \A O, P, E : Backed(g, O, P, E)
  BY <1>5 DEF Backed, Working
<1>8. \A S, b, t, st : Fits(g, S, b, t, st, appended)
  BY <1>5 DEF Fits, Continues
<1>9. \A f \in open \union preserved : FileOK(f, appended)
  BY DEF StoreInv, FilesInv
<1>10. /\ EventsIn(open \union preserved) = EventsIn(open) \union EventsIn(preserved)
       /\ EventsIn(open' \union preserved') = EventsIn(open') \union EventsIn(preserved')
       /\ Memory(g) = {}
  <2>1. EventsIn(open \union preserved) = EventsIn(open) \union EventsIn(preserved)
    BY EventsUnion
  <2>2. EventsIn(open' \union preserved') = EventsIn(open') \union EventsIn(preserved')
    BY EventsUnion
  <2> QED BY <1>5, <2>1, <2>2 DEF Memory
<1>11. CASE open' \in Buffered(p) /\ UNCHANGED sealed
  <2>1. PICK X : /\ IsFiniteSet(X) /\ Cardinality(X) <= FlushEvery - 1
                 /\ \A e : e \in EventsIn(open) \/ e \in Memory(s)
                             => (e \in EventsIn(open') \/ e \in EventsIn(preserved) \/ e \in X)
    BY <1>11, BufferedHas
  <2>2. \A f \in open' : FileOK(f, appended)
    BY <1>11, BufferedHas
  <2>3. FilesInv'
    <3> HIDE DEF s
    <3> QED BY <1>0, <1>2, <1>9, <2>2, StoreAssumption DEF StoreInv, FilesInv
  <2>4. /\ EventsIn(sealed) \subseteq EventsIn(sealed') /\ acked' \subseteq acked \union Memory(g)
        /\ EventsIn(open \union preserved) \union Memory(proc[p])
             \subseteq EventsIn(sealed') \union EventsIn(open' \union preserved') \union Memory(g) \union X
    <3>1. sealed' = sealed /\ preserved' = preserved /\ acked' = acked
      BY <1>2, <1>11
    <3> QED BY <1>10, <2>1, <3>1
  <2>5. /\ Linked(sealed', base, top, start, appended') /\ Has(g, appended')
        /\ Fits(g, sealed', base, top, start, appended') /\ appended <= appended'
        /\ Backed(g, open', preserved', EventsIn(sealed'))
    <3> HIDE DEF s
    <3> QED BY <1>0, <1>1, <1>2, <1>6, <1>7, <1>8, <1>11
  <2>6. faults' = faults + 1
    BY <1>2
  <2> HIDE DEF s
  <2> QED BY <1>3, <1>4, <2>1, <2>3, <2>4, <2>5, <2>6, StepKeeps DEF s
<1>12. CASE s.pc = "rename" /\ Renamed(p)
  <2>1. PICK longer : Linked(sealed', base, top + 1, longer, appended)
    BY <1>1, <1>12, RenamedHas
  <2>2. /\ \A f \in open' : f \in open
        /\ \A e : e \in EventsIn(sealed') <=> (e \in EventsIn(sealed) \/ e \in ToSet(s.cur.events))
        /\ \A e : e \in EventsIn(open) => (e \in EventsIn(open') \/ e \in ToSet(s.cur.events))
    BY <1>1, <1>12, RenamedHas
  <2>3. FilesInv'
    <3> HIDE DEF s
    <3> QED BY <1>0, <1>2, <1>9, <2>2, StoreAssumption DEF StoreInv, FilesInv
  <2>4. /\ EventsIn(sealed) \subseteq EventsIn(sealed') /\ acked' \subseteq acked \union Memory(g)
        /\ EventsIn(open \union preserved) \union Memory(proc[p])
             \subseteq EventsIn(sealed') \union EventsIn(open' \union preserved') \union Memory(g) \union {}
    <3>1. preserved' = preserved /\ acked' = acked
      BY <1>2
    <3>2. \A e \in Memory(proc[p]) : e \in ToSet(s.cur.events)
      BY DEF Memory
    <3> HIDE DEF s
    <3> QED BY <1>10, <2>2, <3>1, <3>2
  <2>5. /\ Linked(sealed', base, top + 1, longer, appended') /\ Has(g, appended')
        /\ Fits(g, sealed', base, top + 1, longer, appended') /\ appended <= appended'
        /\ Backed(g, open', preserved', EventsIn(sealed')) /\ faults <= faults' /\ IsFiniteSet({})
    <3> HIDE DEF s
    <3> QED BY <1>0, <1>2, <1>6, <1>7, <1>8, <2>1, FS_EmptySet
  <2> HIDE DEF s
  <2> QED BY <1>3, <1>4, <2>3, <2>4, <2>5, StepKeeps DEF s
<1> QED BY <1>2, <1>11, <1>12

-----------------------------------------------------------------------------
(* Every state                                                             *)

\* At first there is nothing.
LEMMA InitStore ==
  ASSUME Init
  PROVE  StoreInv
<1>1. /\ sealed = {} /\ open = {} /\ preserved = {} /\ acked = {} /\ appended = 0 /\ faults = 0
      /\ DOMAIN proc = Procs /\ \A p \in Procs : proc[p] = Down
  BY DEF Init
<1>2. FilesInv
  BY <1>1, FS_EmptySet, StoreAssumption DEF FilesInv
<1>3. /\ Down.pc = "down" /\ DOMAIN Down = Fields /\ Down.cur = NoSegment /\ Down.mine = {} /\ Down.degraded = FALSE
      /\ Down.sealed = FALSE /\ Down.next \in Nat /\ Down.todo = <<>> /\ Down.seq = 1
  BY DEF Down, Fields
<1>4. Has(Down, appended)
  <2>1. Down.todo \in Seq(Issued(appended)) /\ Down.seq \in 1 .. appended + 1
    BY <1>1, <1>3
  <2> QED BY <1>3, <2>1 DEF Has, Places, Working
<1>5. Backed(Down, open, preserved, EventsIn(sealed)) /\ \A S, b, t, st : Fits(Down, S, b, t, st, appended)
  BY <1>3 DEF Backed, Fits, Continues, Working
<1>6. ProcsInv
  BY <1>1, <1>3, <1>4, <1>5 DEF ProcsInv, Alone
<1>7. ChainInv
  <2> DEFINE st == [i \in 0 .. 0 |-> 1]
  <2>1. Linked(sealed, 0, 0, st, appended)
    BY <1>1, NoChain
  <2> HIDE DEF st
  <2>2. \A p \in Procs : Fits(proc[p], sealed, 0, 0, st, appended)
    BY <1>1, <1>5
  <2> QED BY <2>1, <2>2 DEF ChainInv
<1>8. LossInv
  <2>1. acked \ Kept = {}
    BY <1>1
  <2>2. Losses(acked, Kept) = 0
    BY <2>1, FS_EmptySet DEF Losses
  <2>3. FlushEvery - 1 \in Nat
    BY StoreAssumption
  <2>4. faults * (FlushEvery - 1) = 0
    BY <1>1, <2>3
  <2> QED BY <2>2, <2>4 DEF LossInv
<1> QED BY <1>2, <1>6, <1>7, <1>8 DEF StoreInv

\* Every step keeps the invariant.
LEMMA NextStore ==
  ASSUME StoreInv, [Next]_storeVars
  PROVE  StoreInv'
<1>1. CASE UNCHANGED storeVars
  BY <1>1 DEF storeVars, StoreInv, FilesInv, ProcsInv, ChainInv, LossInv, Alone, Kept, InMemory
<1>2. CASE Next
  <2> SUFFICES ASSUME NEW p \in Procs,
                      \/ Lock(p) \/ OpenRefused(p) \/ OpenClean(p) \/ Preserve(p) \/ Rebuild(p) \/ Load(p)
                      \/ AppendEvent(p) \/ Checkpoint(p) \/ Seal(p) \/ Close(p)
                      \/ WriteFooter(p) \/ RenameSealed(p) \/ Sealed(p)
                      \/ Create(p) \/ WriteHeader(p) \/ WriteEvent(p)
                      \/ Fails(p) \/ RecoveryFails(p) \/ Crash(p)
               PROVE  StoreInv'
    BY <1>2 DEF Next
  <2>1. CASE Lock(p)           BY <2>1, LockKeeps
  <2>2. CASE OpenRefused(p)    BY <2>2, OpenRefusedKeeps
  <2>3. CASE OpenClean(p)      BY <2>3, OpenCleanKeeps
  <2>4. CASE Preserve(p)       BY <2>4, PreserveKeeps
  <2>5. CASE Rebuild(p)        BY <2>5, RebuildKeeps
  <2>6. CASE Load(p)           BY <2>6, LoadKeeps
  <2>7. CASE AppendEvent(p)    BY <2>7, AppendEventKeeps
  <2>8. CASE Checkpoint(p)
    <3>1. proc[p].cur # NoSegment /\ StartSeal(p, "run")
      BY <2>8 DEF Checkpoint
    <3> QED BY <3>1, StartSealKeeps
  <2>9. CASE Seal(p)
    <3>1. StartSeal(p, "sealed")
      BY <2>9 DEF Seal
    <3> QED BY <3>1, StartSealKeeps
  <2>10. CASE Close(p)         BY <2>10, CloseKeeps
  <2>11. CASE WriteFooter(p)   BY <2>11, WriteFooterKeeps
  <2>12. CASE RenameSealed(p)  BY <2>12, RenameSealedKeeps
  <2>13. CASE Sealed(p)        BY <2>13, SealedKeeps
  <2>14. CASE Create(p)        BY <2>14, CreateKeeps
  <2>15. CASE WriteHeader(p)   BY <2>15, WriteHeaderKeeps
  <2>16. CASE WriteEvent(p)    BY <2>16, WriteEventKeeps
  <2>17. CASE Fails(p)         BY <2>17, FailsKeeps
  <2>18. CASE RecoveryFails(p) BY <2>18, RecoveryFailsKeeps
  <2>19. CASE Crash(p)         BY <2>19, CrashKeeps
  <2> QED BY <2>1, <2>2, <2>3, <2>4, <2>5, <2>6, <2>7, <2>8, <2>9, <2>10,
             <2>11, <2>12, <2>13, <2>14, <2>15, <2>16, <2>17, <2>18, <2>19
<1> QED BY <1>1, <1>2

\* What holds in every state of the store, for any number of processes, events and
\* faults, and any size of segment and of flush: the files, the one process that
\* has the lock and the chain of segments belong together. (ledger/store.rs)
THEOREM Stored == Spec => []StoreInv
<1>1. Init => StoreInv
  BY InitStore
<1>2. StoreInv /\ [Next]_storeVars => StoreInv'
  BY NextStore
<1> QED BY <1>1, <1>2, PTL DEF Spec

\* The values the store can have; in particular no two sealed segments have the
\* same index, and no segment is larger than segment_max_events. (SegmentStore)
THEOREM SegmentsTyped == Spec => []TypeOK
<1>1. StoreInv => TypeOK
  <2> SUFFICES ASSUME StoreInv PROVE TypeOK
    OBVIOUS
  <2>1. /\ appended \in 0 .. MaxEvents /\ faults \in 0 .. MaxFaults /\ acked \subseteq Issued(appended)
        /\ \A f \in open \union preserved : FileOK(f, appended)
    BY DEF StoreInv, FilesInv
  <2>2. Issued(appended) \subseteq Event /\ appended \in Nat
    BY <2>1, StoreAssumption DEF Issued, Event
  <2>3. ASSUME NEW s \in Seq(Issued(appended))
        PROVE  EventSeq(s)
    <3>1. \A i \in DOMAIN s : s[i] \in Issued(appended)
      OBVIOUS
    <3> QED BY <2>2, <3>1 DEF EventSeq, ToSet
  <2>4. PICK base, top, start : /\ Linked(sealed, base, top, start, appended)
                                /\ \A p \in Procs : Fits(proc[p], sealed, base, top, start, appended)
    BY DEF StoreInv, ChainInv
  <2>5. \A s \in sealed : s.index \in Nat /\ EventSeq(s.events)
    <3>1. \A s \in sealed : s.index \in base .. top - 1 /\ base \in Nat /\ s.events \in Seq(Issued(appended))
      BY <2>2, <2>4, ChainFields
    <3> QED BY <2>3, <3>1
  <2>6. \A s, t \in sealed : s.index = t.index => s = t
    BY <2>4 DEF Linked
  <2>7. \A f \in open \union preserved : f.index \in Nat /\ f.header \in BOOLEAN /\ EventSeq(f.events)
    BY <2>1, <2>3 DEF FileOK
  <2>8. ASSUME NEW p \in Procs
        PROVE  /\ proc[p].pc \in {"down", "opening", "rebuilding", "loaded", "run", "create", "header",
                                  "write", "footer", "rename", "sealed", "drop"}
               /\ proc[p].degraded \in BOOLEAN /\ proc[p].sealed \in BOOLEAN
               /\ proc[p].next \in Nat /\ proc[p].seq \in Nat /\ EventSeq(proc[p].todo)
               /\ proc[p].cur # NoSegment => Len(proc[p].cur.events) <= SegmentMax
    <3>1. Has(proc[p], appended)
      BY Holds
    <3> DEFINE s == proc[p]
    <3>2. Has(s, appended) /\ Fits(s, sealed, base, top, start, appended)
      BY <2>4, <3>1
    <3> HIDE DEF s
    <3>3. s.pc \in {"down", "opening", "rebuilding", "loaded", "run", "create", "header",
                    "write", "footer", "rename", "sealed", "drop"}
      BY <3>2 DEF Has, Places, Working
    <3>4. s.degraded \in BOOLEAN /\ s.sealed \in BOOLEAN /\ s.next \in Nat /\ s.seq \in Nat /\ EventSeq(s.todo)
      BY <2>2, <2>3, <3>2 DEF Has
    <3>5. s.cur # NoSegment => Len(s.cur.events) <= SegmentMax
      BY <3>2 DEF Fits, Continues
    <3> QED BY <3>3, <3>4, <3>5 DEF s
  <2>9. acked \subseteq Event
    BY <2>1, <2>2
  <2> QED BY <2>1, <2>5, <2>6, <2>7, <2>8, <2>9 DEF TypeOK
<1> QED BY <1>1, Stored, PTL

\* Whoever wrote them and however often they crashed, the sealed segments are one
\* chain: each carries the hash of the one before it, and their events are
\* numbered from 1 with no hole and no repetition. (seal_current,
\* recover_open_segment, SegmentStore::open)
THEOREM ChainAlwaysLinked == Spec => []ChainLinked
<1>1. StoreInv => ChainLinked
  <2> SUFFICES ASSUME StoreInv PROVE ChainLinked
    OBVIOUS
  <2>1. PICK base, top, start : Linked(sealed, base, top, start, appended)
    BY DEF StoreInv, ChainInv
  <2>2. appended \in Nat
    BY DEF StoreInv, FilesInv
  <2> QED BY <2>1, <2>2, ChainIsLinked
<1> QED BY <1>1, Stored, PTL

\* A fault costs less than a flush of what was acknowledged, and nothing else does:
\* neither recovery nor another process deletes or overwrites an event.
\* (append's flush_every_events, recover_open_segment, SessionLock)
THEOREM EvidenceIsKept == Spec => []EvidenceKept
<1>1. StoreInv => EvidenceKept
  <2> SUFFICES ASSUME StoreInv PROVE EvidenceKept
    OBVIOUS
  <2>1. Kept = OnDisk \union InMemory
    BY DEF Kept, OnDisk, SealedEvents, EventsIn
  <2> QED BY <2>1 DEF StoreInv, LossInv, Losses, EvidenceKept
<1> QED BY <1>1, Stored, PTL

\* After a checkpoint, a rotation or a seal that succeeded all that this process
\* acknowledged is in sealed segments. (seal_current, checkpoint, seal)
THEOREM CheckpointsSeal == Spec => []CheckpointSeals
<1>1. StoreInv => CheckpointSeals
  <2> SUFFICES ASSUME StoreInv, NEW p \in Procs, proc[p].pc \in {"run", "create", "drop"},
                      ~proc[p].degraded, proc[p].cur = NoSegment
               PROVE  proc[p].mine \subseteq SealedEvents
    BY DEF CheckpointSeals
  <2>1. Backed(proc[p], open, preserved, EventsIn(sealed))
    BY Holds
  <2>2. proc[p].mine \subseteq EventsIn(sealed) \union Memory(proc[p])
    BY <2>1 DEF Backed, Working
  <2> QED BY <2>2 DEF Memory, EventsIn, SealedEvents
<1> QED BY <1>1, Stored, PTL
=============================================================================
