------------------------ MODULE EventFollowerProofs ------------------------
(***************************************************************************)
(* For any number of clients, any ring, channel, page and snapshot limits: *)
(* a client that follows a session has every event it asked for up to its  *)
(* cursor, each once and in order; a page that says there is no more says  *)
(* the truth; an export is whole.                                          *)
(*                                                                         *)
(* While a client streams its cursor, the server's cursor and its place in *)
(* the live channel differ, and a filter makes the gaps between them as    *)
(* long as it likes: Request says that no event the client wants lies      *)
(* between them.  A page from the store relies on the checkpoint before    *)
(* it, so Request also keeps that the readable prefix reaches what the     *)
(* session had when the page was asked for.                                *)
(*                                                                         *)
(* InOrder, Max and Min are choices: that there is something to choose is  *)
(* proved from the least number of a set (Least, CanBeListed).             *)
(***************************************************************************)
EXTENDS EventFollower, FiniteSetTheorems, SequenceTheorems, WellFoundedInduction, TLAPS

-----------------------------------------------------------------------------
(* The invariant                                                           *)

\* The log and the ring, and how much of the log the store has.  While the store works
\* it has everything; a sealed store is one of a sealed ledger.
LedgerInv ==
  /\ log \in Seq({Hit, Miss}) /\ Newest <= MaxEvents
  /\ oldest \in 1 .. Newest + 1 /\ Newest + 1 - oldest <= RingMax
  /\ persistence \in {"disabled", "active", "degraded", "sealed"}
  /\ readable \in Nat /\ stored \in Nat /\ readable <= stored /\ stored <= Newest
  /\ closed \in BOOLEAN /\ faults \in 0 .. MaxFaults
  /\ persistence = "active" => stored = Newest
  /\ persistence = "disabled" => stored = 0
  /\ persistence = "sealed" => closed

Places == {"idle", "checkpoint", "read", "subscribed", "measured", "streaming",
           "export", "export_read", "export_ring", "exported"}
Fields == {"pc", "want", "through", "cursor", "got", "whole", "high", "next", "sent"}

\* An event that a client with this bound is to get.
Wanted(through, l, n) == l[n] = Hit /\ (through = 0 \/ n <= through)

\* Those after one cursor and up to another.
Stretch(through, l, after, upto) == {n \in 1 .. Len(l) : Wanted(through, l, n) /\ after < n /\ n <= upto}

\* What a client knows, and has: the events it wants, up to its cursor, and all those it
\* was told there are.
Knows(through, cursor, got, whole, l) ==
  /\ through \in Bounds /\ cursor \in 0 .. Len(l) /\ got \in Seq(Nat) /\ whole \in 0 .. Len(l)
  /\ Rising(got)
  /\ ToSet(got) = Stretch(through, l, 0, cursor)
  /\ through # 0 => whole <= through
  /\ \A n \in 1 .. whole : l[n] = Hit => n <= cursor

\* Where its request is: a page from the store is asked for once the store has every
\* event the session had, and a stream leaves nothing out between the cursor, what the
\* server sent and the place in the live channel.
Request(f, l, r, p) ==
  /\ f.high \in 0 .. Len(l) /\ f.next \in 0 .. Len(l) + 1 /\ f.sent \in Nat
  /\ f.pc \in {"checkpoint", "read"} => f.cursor <= f.high
  /\ f.pc \in {"checkpoint", "export"} => p # "disabled"
  /\ f.pc \in {"read", "export_read"} => f.high <= r
  /\ f.pc = "exported" => f.high <= f.sent
  /\ f.pc \in {"subscribed", "measured", "streaming"} => f.next # 0
  /\ f.pc = "measured" => f.next <= f.high + 1
  /\ f.pc = "streaming" =>
       /\ f.cursor <= f.sent /\ f.sent <= Len(l)
       /\ \A n \in 1 .. Len(l) : Wanted(f.through, l, n) /\ f.cursor < n => f.sent < n /\ f.next <= n

\* One client, with a log, its readable prefix and the state of the store.
ClientOK(f, l, r, p) ==
  /\ DOMAIN f = Fields /\ f.pc \in Places /\ f.want \in {"page", "stream"}
  /\ Knows(f.through, f.cursor, f.got, f.whole, l)
  /\ Request(f, l, r, p)

FollowInv ==
  /\ DOMAIN follower = Clients
  /\ \A c \in Clients : ClientOK(follower[c], log, readable, persistence)

-----------------------------------------------------------------------------
(* Sets of numbers                                                         *)

\* An initial segment is finite.
LEMMA IntervalFinite ==
  ASSUME NEW n \in Nat
  PROVE  0 .. n \in FiniteSubsetsOf(Nat)
  BY FS_Interval DEF FiniteSubsetsOf

\* A set of numbers has a least one: of its initial segments one is the smallest.
LEMMA Least ==
  ASSUME NEW T \in SUBSET Nat, T # {}
  PROVE  \E n \in T : \A m \in T : n <= m
<1> DEFINE R == StrictSubsetOrdering(Nat)
           B == {0 .. n : n \in T}
<1>1. IsWellFoundedOn(R, FiniteSubsetsOf(Nat))
  BY FS_StrictSubsetOrderingWellFounded
<1>2. B # {} /\ B \subseteq FiniteSubsetsOf(Nat)
  BY IntervalFinite
<1>3. PICK s \in B : \A t \in B : ~(<<t, s>> \in R)
  <2> HIDE DEF R, B
  <2> QED BY <1>1, <1>2, WFMin
<1>4. PICK n \in T : s = 0 .. n
  OBVIOUS
<1>5. ASSUME NEW m \in T, m < n
      PROVE  FALSE
  <2>1. 0 .. m \in B
    OBVIOUS
  <2>2. 0 .. m \subseteq 0 .. n /\ 0 .. m # 0 .. n /\ 0 .. m \in SUBSET Nat /\ 0 .. n \in SUBSET Nat
    BY <1>5
  <2>3. <<0 .. m, 0 .. n>> \in R
    BY <2>2 DEF StrictSubsetOrdering
  <2> QED BY <1>3, <1>4, <2>1, <2>3
<1> QED BY <1>5

\* A set of numbers with an upper bound has a greatest one.
LEMMA Greatest ==
  ASSUME NEW T \in SUBSET Nat, T # {}, NEW b \in Nat, \A m \in T : m <= b
  PROVE  \E n \in T : \A m \in T : m <= n
<1> DEFINE U == {n \in Nat : \A m \in T : m <= n}
<1>1. b \in U
  OBVIOUS
<1>2. PICK n \in U : \A m \in U : n <= m
  <2> HIDE DEF U
  <2>1. U \in SUBSET Nat
    BY DEF U
  <2> QED BY <1>1, <2>1, Least
<1>3. ASSUME n \notin T
      PROVE  FALSE
  <2>1. PICK t \in T : TRUE
    OBVIOUS
  <2>2. n \in Nat /\ \A m \in T : m <= n /\ m # n /\ m \in Nat
    BY <1>2, <1>3
  <2>3. n - 1 \in U
    BY <2>1, <2>2
  <2> QED BY <1>2, <2>2, <2>3
<1> QED BY <1>2, <1>3

\* Max of a bounded set.
LEMMA MaxOf ==
  ASSUME NEW T \in SUBSET Nat, T # {}, NEW b \in Nat, \A m \in T : m <= b
  PROVE  Max(T) \in T /\ \A m \in T : m <= Max(T)
<1>1. \E n \in T : \A m \in T : n >= m
  BY Greatest
<1> QED BY <1>1 DEF Max

\* Min and Max of two numbers.
LEMMA OfTwo ==
  ASSUME NEW a \in Nat, NEW b \in Nat
  PROVE  /\ Min({a, b}) = IF a <= b THEN a ELSE b
         /\ Max({a, b}) = IF a <= b THEN b ELSE a
<1>1. \E n \in {a, b} : \A m \in {a, b} : n <= m
  OBVIOUS
<1>2. Min({a, b}) \in {a, b} /\ \A m \in {a, b} : Min({a, b}) <= m
  BY <1>1 DEF Min
<1>3. \E n \in {a, b} : \A m \in {a, b} : n >= m
  OBVIOUS
<1>4. Max({a, b}) \in {a, b} /\ \A m \in {a, b} : Max({a, b}) >= m
  BY <1>3 DEF Max
<1> QED BY <1>2, <1>4

\* The elements of a sequence.
LEMMA ElementsOf ==
  ASSUME NEW s \in Seq(Nat)
  PROVE  ToSet(s) = {s[i] : i \in 1 .. Len(s)} /\ ToSet(s) \in SUBSET Nat
  BY DEF ToSet

\* One element more at the end.
LEMMA AppendRises ==
  ASSUME NEW s \in Seq(Nat), Rising(s), NEW e \in Nat, \A n \in ToSet(s) : n < e
  PROVE  /\ Append(s, e) \in Seq(Nat) /\ Rising(Append(s, e))
         /\ ToSet(Append(s, e)) = ToSet(s) \union {e}
<1> DEFINE a == Append(s, e)
           k == Len(s)
<1>1. /\ a \in Seq(Nat) /\ k \in Nat /\ DOMAIN a = 1 .. k + 1 /\ DOMAIN s = 1 .. k
      /\ \A i \in 1 .. k : a[i] = s[i]
      /\ a[k + 1] = e
  OBVIOUS
<1> HIDE DEF a, k
<1>2. \A i \in 1 .. k : s[i] \in ToSet(s)
  BY <1>1 DEF ToSet
<1>3. Rising(a)
  <2> SUFFICES ASSUME NEW i \in 1 .. k + 1, NEW j \in 1 .. k + 1, i < j
               PROVE  a[i] < a[j]
    BY <1>1 DEF Rising
  <2>1. CASE j = k + 1
    BY <1>1, <1>2, <2>1
  <2>2. CASE j # k + 1
    <3>1. i \in DOMAIN s /\ j \in DOMAIN s /\ a[i] = s[i] /\ a[j] = s[j]
      BY <1>1, <2>2
    <3> QED BY <3>1 DEF Rising
  <2> QED BY <2>1, <2>2
<1>4. ToSet(a) = ToSet(s) \union {e}
  <2>1. ToSet(a) \subseteq ToSet(s) \union {e}
    BY <1>1 DEF ToSet
  <2>2. ToSet(s) \union {e} \subseteq ToSet(a)
    BY <1>1 DEF ToSet
  <2> QED BY <2>1, <2>2
<1> QED BY <1>1, <1>3, <1>4 DEF a

\* A rising sequence after another.
LEMMA ConcatRises ==
  ASSUME NEW s \in Seq(Nat), NEW t \in Seq(Nat), Rising(s), Rising(t),
         \A n \in ToSet(s) : \A m \in ToSet(t) : n < m
  PROVE  /\ s \o t \in Seq(Nat) /\ Rising(s \o t) /\ ToSet(s \o t) = ToSet(s) \union ToSet(t)
<1> DEFINE a == s \o t
           k == Len(s)
           m == Len(t)
<1>1. /\ a \in Seq(Nat) /\ k \in Nat /\ m \in Nat /\ DOMAIN a = 1 .. k + m
      /\ DOMAIN s = 1 .. k /\ DOMAIN t = 1 .. m
      /\ \A i \in 1 .. k + m : a[i] = IF i <= k THEN s[i] ELSE t[i - k]
  OBVIOUS
<1> HIDE DEF a, k, m
<1>2. /\ \A i \in 1 .. k : s[i] \in ToSet(s)
      /\ \A i \in 1 .. m : t[i] \in ToSet(t)
  BY <1>1 DEF ToSet
<1>3. Rising(a)
  <2> SUFFICES ASSUME NEW i \in 1 .. k + m, NEW j \in 1 .. k + m, i < j
               PROVE  a[i] < a[j]
    BY <1>1 DEF Rising
  <2>1. CASE j <= k
    <3>1. i \in DOMAIN s /\ j \in DOMAIN s /\ a[i] = s[i] /\ a[j] = s[j]
      BY <1>1, <2>1
    <3> QED BY <3>1 DEF Rising
  <2>2. CASE i <= k /\ j > k
    <3>1. i \in 1 .. k /\ j - k \in 1 .. m /\ a[i] = s[i] /\ a[j] = t[j - k]
      BY <1>1, <2>2
    <3> QED BY <1>2, <3>1
  <2>3. CASE i > k
    <3>1. i - k \in 1 .. m /\ j - k \in 1 .. m /\ i - k < j - k /\ j > k
      BY <1>1, <2>3
    <3>2. a[i] = t[i - k] /\ a[j] = t[j - k]
      BY <1>1, <2>3, <3>1
    <3> QED BY <1>1, <3>1, <3>2 DEF Rising
  <2> QED BY <1>1, <2>1, <2>2, <2>3
<1>4. ToSet(a) \subseteq ToSet(s) \union ToSet(t)
  <2> SUFFICES ASSUME NEW i \in 1 .. k + m
               PROVE  a[i] \in ToSet(s) \union ToSet(t)
    BY <1>1 DEF ToSet
  <2>1. CASE i <= k
    BY <1>1, <1>2, <2>1
  <2>2. CASE i > k
    <3>1. i - k \in 1 .. m /\ a[i] = t[i - k]
      BY <1>1, <2>2
    <3> QED BY <1>2, <3>1
  <2> QED BY <1>1, <2>1, <2>2
<1>5. ToSet(s) \subseteq ToSet(a)
  <2>1. \A i \in 1 .. k : i \in 1 .. k + m /\ a[i] = s[i]
    BY <1>1
  <2> QED BY <1>1, <2>1 DEF ToSet
<1>6. ToSet(t) \subseteq ToSet(a)
  <2>1. ASSUME NEW i \in 1 .. m
        PROVE  i + k \in 1 .. k + m /\ a[i + k] = t[i]
    <3>1. i + k \in 1 .. k + m /\ ~(i + k <= k) /\ (i + k) - k = i
      BY <1>1
    <3> QED BY <1>1, <3>1
  <2> QED BY <1>1, <2>1 DEF ToSet
<1>7. ToSet(a) = ToSet(s) \union ToSet(t)
  BY <1>4, <1>5, <1>6
<1> QED BY <1>1, <1>3, <1>7 DEF a

\* As many elements as places.
LEMMA RisingCount ==
  ASSUME NEW s \in Seq(Nat), Rising(s)
  PROVE  IsFiniteSet(ToSet(s)) /\ Cardinality(ToSet(s)) = Len(s) /\ Len(s) \in Nat
<1>1. Len(s) \in Nat /\ s \in [1 .. Len(s) -> ToSet(s)] /\ DOMAIN s = 1 .. Len(s)
  BY DEF ToSet
<1>2. \A i, j \in 1 .. Len(s) : s[i] = s[j] => i = j
  <2>1. \A i \in 1 .. Len(s) : s[i] \in Nat
    OBVIOUS
  <2> QED BY <1>1, <2>1 DEF Rising
<1>3. \A x \in ToSet(s) : \E i \in 1 .. Len(s) : s[i] = x
  BY <1>1 DEF ToSet
<1>4. s \in Bijection(1 .. Len(s), ToSet(s))
  BY <1>1, <1>2, <1>3 DEF Bijection, Injection, Surjection, IsInjective
<1>5. ExistsBijection(1 .. Len(s), ToSet(s))
  BY <1>4 DEF ExistsBijection
<1> QED BY <1>1, <1>5, FS_NatBijection, FS_CountingElements

\* A set of numbers below a bound can be listed in order.
LEMMA CanBeListed ==
  ASSUME NEW b \in Nat, NEW S \in SUBSET Nat, \A n \in S : n < b
  PROVE  \E s \in Seq(Nat) : Rising(s) /\ ToSet(s) = S
<1> DEFINE Listed(U) == \E s \in Seq(Nat) : Rising(s) /\ ToSet(s) = U
           Bad == {k \in Nat : \E U \in SUBSET Nat : (\A n \in U : n < k) /\ ~Listed(U)}
<1>1. ASSUME NEW k \in Bad, \A m \in Bad : k <= m
      PROVE  FALSE
  <2>1. PICK U \in SUBSET Nat : (\A n \in U : n < k) /\ ~Listed(U)
    OBVIOUS
  <2> HIDE DEF Listed
  <2>2. CASE k = 0
    <3>1. U = {}
      BY <2>1, <2>2
    <3>2. <<>> \in Seq(Nat) /\ Rising(<<>>) /\ ToSet(<<>>) = {}
      BY DEF Rising, ToSet
    <3> QED BY <2>1, <3>1, <3>2 DEF Listed
  <2>3. CASE k # 0
    <3>1. k - 1 \in Nat /\ k - 1 \notin Bad
      BY <1>1, <2>3
    <3> DEFINE e == k - 1
               V == U \ {e}
    <3>2. \A n \in V : n < e
      BY <2>1, <3>1
    <3>3. Listed(V)
      <4> HIDE DEF V
      <4>1. V \in SUBSET Nat
        BY DEF V
      <4> QED BY <3>1, <3>2, <4>1
    <3>4. PICK s \in Seq(Nat) : Rising(s) /\ ToSet(s) = V
      BY <3>3 DEF Listed
    <3>5. CASE e \in U
      <4>1. Append(s, e) \in Seq(Nat) /\ Rising(Append(s, e)) /\ ToSet(Append(s, e)) = V \union {e}
        <5> HIDE DEF e, V
        <5>1. e \in Nat
          BY <3>1 DEF e
        <5> QED BY <3>2, <3>4, <5>1, AppendRises
      <4>2. V \union {e} = U
        BY <3>5
      <4> QED BY <2>1, <4>1, <4>2 DEF Listed
    <3>6. CASE e \notin U
      <4>1. V = U
        BY <3>6
      <4> QED BY <2>1, <3>3, <4>1
    <3> QED BY <3>5, <3>6
  <2> QED BY <2>2, <2>3
<1>2. Bad = {}
  <2>1. Bad \in SUBSET Nat
    OBVIOUS
  <2> HIDE DEF Bad
  <2> QED BY <1>1, <2>1, Least
<1> QED BY <1>2

\* What InOrder lists: the set, each once, in order.
LEMMA InOrderLists ==
  ASSUME NEW b \in Nat, NEW S \in SUBSET Nat, \A n \in S : n <= b
  PROVE  InOrder(S) \in Seq(Nat) /\ Rising(InOrder(S)) /\ ToSet(InOrder(S)) = S
<1>1. PICK s \in Seq(Nat) : Rising(s) /\ ToSet(s) = S
  <2>1. b + 1 \in Nat /\ \A n \in S : n < b + 1
    OBVIOUS
  <2> QED BY <2>1, CanBeListed
<1>2. IsFiniteSet(S) /\ Cardinality(S) = Len(s) /\ Len(s) \in Nat
  BY <1>1, RisingCount
<1>3. s \in [1 .. Cardinality(S) -> S]
  BY <1>1, <1>2 DEF ToSet
<1> DEFINE o == InOrder(S)
<1>4. o \in [1 .. Cardinality(S) -> S] /\ Rising(o)
  BY <1>1, <1>3 DEF InOrder
<1> HIDE DEF o
<1>5. o \in Seq(Nat) /\ Len(o) = Cardinality(S)
  <2> DEFINE n == Len(s)
  <2>1. n \in Nat /\ o \in [1 .. n -> Nat] /\ Cardinality(S) = n
    BY <1>2, <1>4
  <2> HIDE DEF n
  <2>2. o \in Seq(Nat) /\ Len(o) = n
    BY <2>1
  <2> QED BY <2>1, <2>2
<1>6. ToSet(o) \in SUBSET S
  BY <1>4 DEF ToSet
<1>7. Cardinality(ToSet(o)) = Cardinality(S)
  BY <1>4, <1>5, RisingCount
<1>8. ToSet(o) = S
  BY <1>2, <1>6, <1>7, FS_Subset
<1> QED BY <1>4, <1>5, <1>8 DEF o

\* The last of a rising sequence is the greatest.
LEMMA LastIsGreatest ==
  ASSUME NEW s \in Seq(Nat), Rising(s), s # <<>>
  PROVE  Last(s) \in ToSet(s) /\ \A n \in ToSet(s) : n <= Last(s)
<1> DEFINE k == Len(s)
<1>1. k \in Nat /\ k >= 1 /\ DOMAIN s = 1 .. k /\ \A i \in 1 .. k : s[i] \in Nat
  OBVIOUS
<1>2. Last(s) = s[k]
  BY DEF Last
<1> HIDE DEF k
<1>3. ASSUME NEW i \in 1 .. k
      PROVE  s[i] <= s[k]
  <2>1. CASE i = k
    BY <1>1, <2>1
  <2>2. CASE i # k
    <3>1. i \in DOMAIN s /\ k \in DOMAIN s /\ i < k
      BY <1>1, <2>2
    <3> QED BY <1>1, <3>1 DEF Rising
  <2> QED BY <2>1, <2>2
<1> QED BY <1>1, <1>2, <1>3 DEF ToSet

-----------------------------------------------------------------------------
(* Pages                                                                   *)

\* A page holds the first matching events after the cursor, and its next cursor lies
\* behind all of them and before the others.
LEMMA PageIs ==
  ASSUME NEW first \in Nat, NEW last \in Nat, NEW after \in Nat, NEW upper \in Nat, NEW limit \in Nat \ {0}
  PROVE  LET hits == Hits(first, last, after, upper, limit)
             next == NextAfter(first, last, after, upper, limit)
         IN /\ hits \in SUBSET Nat /\ next \in Nat /\ next >= after
            /\ next > after => next \in first .. last /\ next <= upper
            /\ \A n \in hits : n \in first .. last /\ after < n /\ n <= upper /\ n <= next /\ Matches(n)
            /\ \A n \in first .. last : after < n /\ n <= upper /\ n <= next /\ Matches(n) => n \in hits
<1> DEFINE all == {n \in Candidates(first, last, after, upper) : Matches(n)}
           before(n) == {m \in all : m <= n}
           hits == Hits(first, last, after, upper, limit)
           next == NextAfter(first, last, after, upper, limit)
<1>1. /\ all \in SUBSET Nat /\ \A n \in all : n <= last
      /\ \A n : n \in all <=> n \in first .. last /\ after < n /\ n <= upper /\ Matches(n)
  BY DEF Candidates
<1>2. hits = {n \in all : Cardinality(before(n)) <= limit} /\ hits \in SUBSET Nat
  BY <1>1 DEF Hits
<1>3. IsFiniteSet(all)
  <2>1. all \in SUBSET (first .. last) /\ IsFiniteSet(first .. last)
    BY FS_Interval DEF Candidates
  <2> HIDE DEF all
  <2> QED BY <2>1, FS_Subset
<1> HIDE DEF all
<1>4. \A n : IsFiniteSet(before(n)) /\ Cardinality(before(n)) \in Nat
  BY <1>3, FS_Subset, FS_CardinalityType
<1>5. ASSUME NEW n \in hits, NEW m \in all, m <= n
      PROVE  m \in hits
  <2>1. before(m) \in SUBSET before(n) /\ n \in all /\ Cardinality(before(n)) <= limit
    BY <1>1, <1>2, <1>5
  <2>2. Cardinality(before(m)) <= Cardinality(before(n))
    <3> HIDE DEF before
    <3> QED BY <1>4, <2>1, FS_Subset
  <2>3. Cardinality(before(m)) <= limit
    <3> HIDE DEF before
    <3> QED BY <1>4, <2>1, <2>2
  <2> QED BY <1>2, <2>3
<1>6. \A n \in hits : n <= last /\ n \in Nat /\ n > after
  BY <1>1, <1>2
<1>7. ASSUME Cardinality(hits) # limit
      PROVE  hits = all
  <2>1. IsFiniteSet(hits) /\ Cardinality(hits) \in Nat
    BY <1>2, <1>3, FS_Subset, FS_CardinalityType
  <2>2. Cardinality(hits) <= limit
    <3>1. CASE hits = {}
      BY <3>1, FS_EmptySet
    <3>2. CASE hits # {}
      <4>1. PICK n \in hits : \A m \in hits : m <= n
        <5> HIDE DEF hits
        <5> QED BY <1>2, <1>6, <3>2, Greatest
      <4>2. hits \in SUBSET before(n) /\ Cardinality(before(n)) <= limit
        BY <1>2, <4>1
      <4>3. Cardinality(hits) <= Cardinality(before(n))
        <5> HIDE DEF hits, before
        <5> QED BY <1>4, <4>2, FS_Subset
      <4> HIDE DEF hits, before
      <4> QED BY <1>4, <2>1, <4>2, <4>3
    <3> QED BY <3>1, <3>2
  <2>3. ASSUME all \ hits # {}
        PROVE  FALSE
    <3> DEFINE rest == all \ hits
    <3>1. PICK x \in rest : \A m \in rest : x <= m
      <4>1. rest \in SUBSET Nat /\ rest # {}
        BY <1>1, <2>3
      <4> HIDE DEF rest
      <4> QED BY <4>1, Least
    <3>2. \A m \in before(x) : m = x \/ m \in hits
      BY <1>1, <3>1
    <3>3. Cardinality(before(x)) > limit
      <4>1. x \in all /\ x \notin hits /\ ~(Cardinality(before(x)) <= limit)
        BY <1>2, <3>1
      <4> HIDE DEF before
      <4> QED BY <1>4, <4>1
    <3>4. before(x) \in SUBSET (hits \union {x}) /\ x \notin hits
      BY <3>1, <3>2
    <3>5. Cardinality(hits \union {x}) = Cardinality(hits) + 1 /\ IsFiniteSet(hits \union {x})
      <4> HIDE DEF hits
      <4> QED BY <2>1, <3>4, FS_AddElement
    <3>6. Cardinality(before(x)) <= Cardinality(hits \union {x})
      <4> HIDE DEF hits, before
      <4> QED BY <3>4, <3>5, FS_Subset
    <3> HIDE DEF hits, before
    <3> QED BY <1>4, <1>7, <2>1, <2>2, <3>3, <3>5, <3>6
  <2> QED BY <1>2, <2>3
<1>8. CASE Cardinality(hits) = limit
  <2>1. next = Max(hits)
    BY <1>8 DEF NextAfter
  <2>2. hits # {}
    BY <1>8, FS_EmptySet
  <2>3. next \in hits /\ \A m \in hits : m <= next
    <3> HIDE DEF hits, next
    <3> QED BY <1>2, <1>6, <2>1, <2>2, MaxOf
  <2>4. next \in all
    BY <1>2, <2>3
  <2> HIDE DEF hits, next
  <2> QED BY <1>1, <1>2, <1>5, <1>6, <2>3, <2>4 DEF hits, next
<1>9. CASE Cardinality(hits) # limit
  <2> DEFINE bound == Candidates(first, last, after, upper) \union {after}
  <2>1. next = Max(bound)
    BY <1>9 DEF NextAfter
  <2>2. /\ bound \in SUBSET Nat /\ bound # {} /\ after \in bound
        /\ \A m \in bound : m <= last + after
        /\ \A m \in bound : m # after => m \in first .. last /\ m <= upper
        /\ \A m \in all : m \in bound
    BY DEF Candidates, all
  <2>3. next \in bound /\ \A m \in bound : m <= next
    <3> HIDE DEF bound, next
    <3> QED BY <2>1, <2>2, MaxOf
  <2>4. hits = all
    BY <1>7, <1>9
  <2> HIDE DEF hits, next, bound
  <2>5. next \in Nat /\ next >= after /\ (next > after => next \in first .. last /\ next <= upper)
    BY <2>2, <2>3
  <2> QED BY <1>1, <1>2, <2>2, <2>3, <2>4, <2>5 DEF hits, next
<1> QED BY <1>8, <1>9

\* What a client knows after a list that goes on from its cursor.
LEMMA KnowsMore ==
  ASSUME NEW through, NEW cursor, NEW got, NEW whole, NEW l, Len(l) \in Nat, Knows(through, cursor, got, whole, l),
         NEW list \in Seq(Nat), Rising(list), NEW upto \in Nat, cursor <= upto, upto <= Len(l),
         ToSet(list) = Stretch(through, l, cursor, upto)
  PROVE  Knows(through, upto, got \o list, whole, l)
<1>1. /\ got \in Seq(Nat) /\ Rising(got) /\ cursor \in Nat
      /\ ToSet(got) = Stretch(through, l, 0, cursor)
  BY DEF Knows
<1>2. \A n \in ToSet(got) : \A m \in ToSet(list) : n < m
  BY <1>1 DEF Stretch
<1>3. /\ got \o list \in Seq(Nat) /\ Rising(got \o list)
      /\ ToSet(got \o list) = ToSet(got) \union ToSet(list)
  BY <1>1, <1>2, ConcatRises
<1> DEFINE all == got \o list
<1> HIDE DEF all
<1>4. ToSet(all) = Stretch(through, l, 0, upto)
  BY <1>1, <1>3 DEF all, Stretch
<1>5. all \in Seq(Nat) /\ Rising(all)
  BY <1>3 DEF all
<1>6. Knows(through, upto, all, whole, l)
  BY <1>4, <1>5 DEF Knows
<1> QED BY <1>6 DEF all

\* An event more that a client wants, or none.
LEMMA KnowsOneMore ==
  ASSUME NEW through, NEW cursor, NEW got, NEW whole, NEW l, Len(l) \in Nat, Knows(through, cursor, got, whole, l),
         NEW e \in 1 .. Len(l), cursor < e, Wanted(through, l, e),
         \A n \in 1 .. Len(l) : Wanted(through, l, n) /\ cursor < n => e <= n
  PROVE  Knows(through, e, Append(got, e), whole, l)
<1>1. /\ got \in Seq(Nat) /\ Rising(got) /\ cursor \in Nat /\ e \in Nat
      /\ ToSet(got) = Stretch(through, l, 0, cursor)
  BY DEF Knows
<1> DEFINE all == Append(got, e)
<1>2. all \in Seq(Nat) /\ Rising(all) /\ ToSet(all) = ToSet(got) \union {e}
  <2>1. \A n \in ToSet(got) : n < e
    BY <1>1 DEF Stretch
  <2> QED BY <1>1, <2>1, AppendRises
<1> HIDE DEF all
<1>3. ToSet(all) = Stretch(through, l, 0, e)
  <2>1. \A n \in 1 .. Len(l) : n \in ToSet(all) <=> Wanted(through, l, n) /\ n <= e
    BY <1>1, <1>2 DEF Stretch
  <2>2. ToSet(all) \subseteq 1 .. Len(l)
    BY <1>1, <1>2 DEF Stretch
  <2> QED BY <2>1, <2>2 DEF Stretch
<1>4. Knows(through, e, all, whole, l)
  BY <1>1, <1>2, <1>3 DEF Knows
<1> QED BY <1>4 DEF all

\* The page of a client: the events it wants, from its cursor to the next.
LEMMA PageGoesOn ==
  ASSUME LedgerInv, NEW through, NEW after, NEW got, NEW whole, Knows(through, after, got, whole, log),
         NEW first \in Nat \ {0}, NEW last \in Nat, NEW upper \in Nat, NEW limit \in Nat \ {0},
         last <= Newest, first <= after + 1 \/ last <= after, through # 0 => upper <= through,
         through = 0 => upper <= Newest
  PROVE  LET hits == Hits(first, last, after, upper, limit)
             next == NextAfter(first, last, after, upper, limit)
         IN /\ next \in Nat /\ after <= next /\ next <= Newest
            /\ InOrder(hits) \in Seq(Nat) /\ Rising(InOrder(hits)) /\ ToSet(InOrder(hits)) = hits
            /\ hits = Stretch(through, log, after, next)
<1> DEFINE hits == Hits(first, last, after, upper, limit)
           next == NextAfter(first, last, after, upper, limit)
<1>1. after \in Nat /\ after <= Newest /\ Newest \in Nat /\ through \in Nat
  BY FollowerAssumption DEF LedgerInv, Knows, Newest
<1>2. /\ hits \in SUBSET Nat /\ next \in Nat /\ next >= after
      /\ next > after => next \in first .. last /\ next <= upper
      /\ \A n \in hits : n \in first .. last /\ after < n /\ n <= upper /\ n <= next /\ Matches(n)
      /\ \A n \in first .. last : after < n /\ n <= upper /\ n <= next /\ Matches(n) => n \in hits
  BY <1>1, PageIs
<1> HIDE DEF hits, next
<1>3. next <= Newest
  BY <1>1, <1>2
<1>4. InOrder(hits) \in Seq(Nat) /\ Rising(InOrder(hits)) /\ ToSet(InOrder(hits)) = hits
  BY <1>2, InOrderLists
<1>5. ASSUME NEW n \in hits
      PROVE  n \in 1 .. Newest /\ Wanted(through, log, n) /\ after < n /\ n <= next
  BY <1>1, <1>2 DEF Wanted, Matches
<1>6. ASSUME NEW n \in 1 .. Newest, Wanted(through, log, n), after < n, n <= next
      PROVE  n \in hits
  <2>1. n \in first .. last /\ n <= upper
    BY <1>1, <1>2, <1>6
  <2> QED BY <1>2, <1>6, <2>1 DEF Wanted, Matches
<1>7. hits = Stretch(through, log, after, next)
  BY <1>5, <1>6 DEF Stretch, Newest
<1> QED BY <1>1, <1>2, <1>3, <1>4, <1>7 DEF hits, next

\* A page that says there is no more leaves nothing out.
LEMMA NoMoreLeft ==
  ASSUME LedgerInv, NEW after \in Nat, NEW first \in Nat \ {0}, NEW last \in Nat, NEW upper \in Nat, NEW limit,
         NEW newest \in Nat, newest <= last, first <= after + 1 \/ newest <= after,
         NextAfter(first, last, after, upper, limit) >= after, NextAfter(first, last, after, upper, limit) \in Nat,
         ~HasMore(first, last, after, upper, limit)
  PROVE  \A n \in 1 .. newest : n <= upper /\ Matches(n) => n <= NextAfter(first, last, after, upper, limit)
<1> DEFINE next == NextAfter(first, last, after, upper, limit)
<1>1. ~\E n \in first .. last : next < n /\ n <= upper /\ Matches(n)
  BY DEF HasMore
<1> HIDE DEF next
<1>2. ASSUME NEW n \in 1 .. newest, n <= upper, Matches(n), ~(n <= next)
      PROVE  FALSE
  <2>1. next \in Nat /\ next >= after
    BY DEF next
  <2>2. n \in first .. last /\ next < n
    BY <1>2, <2>1
  <2> QED BY <1>1, <1>2, <2>2
<1> QED BY <1>2 DEF next

\* One client moves, the ledger does not.
LEMMA OneFollower ==
  ASSUME FollowInv, UNCHANGED ledgerVars, NEW c \in Clients, NEW g,
         follower' = [follower EXCEPT ![c] = g], ClientOK(g, log, readable, persistence)
  PROVE  FollowInv'
<1>1. log' = log /\ readable' = readable /\ persistence' = persistence
  BY DEF ledgerVars
<1>2. DOMAIN follower' = Clients /\ \A d \in Clients : follower'[d] = IF d = c THEN g ELSE follower[d]
  BY DEF FollowInv
<1>3. \A d \in Clients : ClientOK(follower'[d], log, readable, persistence)
  BY <1>2 DEF FollowInv
<1> QED BY <1>1, <1>2, <1>3 DEF FollowInv

\* The fields of a client whose request is over.
LEMMA OverFields ==
  ASSUME NEW f, DOMAIN f = Fields, NEW w
  PROVE  LET o == Over(f, w)
         IN /\ DOMAIN o = Fields /\ o.pc = "idle" /\ o.want = w /\ o.high = 0 /\ o.next = 0 /\ o.sent = 0
            /\ o.through = f.through /\ o.cursor = f.cursor /\ o.got = f.got /\ o.whole = f.whole
  BY DEF Over, Fields

\* A request that is over asks nothing of the ledger.
LEMMA IdleRequest ==
  ASSUME NEW f, f.pc = "idle", f.high = 0, f.next = 0, f.sent = 0, NEW l, Len(l) \in Nat, NEW r, NEW p
  PROVE  Request(f, l, r, p)
  BY DEF Request

\* Ending a request leaves the client with what it knows.
LEMMA OverKeeps ==
  ASSUME NEW f, NEW l, NEW r, NEW p, Len(l) \in Nat, ClientOK(f, l, r, p), NEW w \in {"page", "stream"}
  PROVE  ClientOK(Over(f, w), l, r, p)
<1> DEFINE o == Over(f, w)
<1>1. /\ DOMAIN o = Fields /\ o.pc = "idle" /\ o.want = w /\ o.high = 0 /\ o.next = 0 /\ o.sent = 0
      /\ o.through = f.through /\ o.cursor = f.cursor /\ o.got = f.got /\ o.whole = f.whole
  BY OverFields DEF ClientOK
<1> HIDE DEF o
<1>2. Request(o, l, r, p)
  BY <1>1, IdleRequest
<1> QED BY <1>1, <1>2 DEF ClientOK, Places, o

-----------------------------------------------------------------------------
(* The requests                                                            *)

\* What one client's record says.
LEMMA Client ==
  ASSUME LedgerInv, FollowInv, NEW c \in Clients
  PROVE  LET f == follower[c]
         IN /\ ClientOK(f, log, readable, persistence) /\ DOMAIN f = Fields /\ f.pc \in Places
            /\ f.want \in {"page", "stream"} /\ f.through \in Nat /\ f.cursor \in Nat /\ f.cursor <= Newest
            /\ f.got \in Seq(Nat) /\ f.whole \in Nat /\ f.high \in Nat /\ f.high <= Newest
            /\ f.next \in Nat /\ f.next <= Newest + 1 /\ f.sent \in Nat
            /\ Newest \in Nat /\ readable \in Nat /\ readable <= Newest /\ oldest \in Nat \ {0} /\ oldest <= Newest + 1
<1>1. ClientOK(follower[c], log, readable, persistence)
  BY DEF FollowInv
<1>2. /\ Newest \in Nat /\ Len(log) = Newest /\ readable \in Nat /\ readable <= Newest
      /\ oldest \in Nat \ {0} /\ oldest <= Newest + 1
  BY DEF LedgerInv, Newest
<1> DEFINE f == follower[c]
<1>3. DOMAIN f = Fields /\ f.pc \in Places /\ f.want \in {"page", "stream"}
  BY <1>1 DEF ClientOK
<1>4. /\ f.through \in Nat /\ f.cursor \in Nat /\ f.cursor <= Newest
      /\ f.got \in Seq(Nat) /\ f.whole \in Nat
  <2>1. Knows(f.through, f.cursor, f.got, f.whole, log)
    BY <1>1 DEF ClientOK
  <2> HIDE DEF f
  <2>2. /\ f.through \in Bounds /\ f.cursor \in 0 .. Len(log) /\ f.got \in Seq(Nat)
        /\ f.whole \in 0 .. Len(log)
    BY <2>1 DEF Knows
  <2>3. f.through \in Nat
    BY <2>2, FollowerAssumption
  <2> QED BY <1>2, <2>2, <2>3
<1>5. f.high \in Nat /\ f.high <= Newest /\ f.next \in Nat /\ f.next <= Newest + 1 /\ f.sent \in Nat
  BY <1>1, <1>2 DEF ClientOK, Request
<1> QED BY <1>1, <1>2, <1>3, <1>4, <1>5

\* A page is taken in without a hole and without a repetition.
LEMMA TakesPage ==
  ASSUME LedgerInv, FollowInv, UNCHANGED ledgerVars, NEW c \in Clients,
         NEW first \in Nat \ {0}, NEW last \in Nat, NEW newest \in Nat, newest <= last, last <= Newest,
         first = 1 \/ last = newest, TakePage(c, first, last, newest)
  PROVE  FollowInv'
<1> DEFINE f == follower[c]
           upper == Upper(c, newest)
           hits == Hits(first, last, f.cursor, upper, PageLimit)
           list == InOrder(hits)
           next == NextAfter(first, last, f.cursor, upper, PageLimit)
           more == HasMore(first, last, f.cursor, upper, PageLimit)
           want == IF more THEN "page" ELSE "stream"
           whole == IF more THEN f.whole ELSE Min({upper, newest})
           all == f.got \o list
           g == [Over(f, want) EXCEPT !.got = all, !.cursor = next, !.whole = whole]
<1>1. /\ ClientOK(f, log, readable, persistence) /\ DOMAIN f = Fields
      /\ f.through \in Nat /\ f.cursor \in Nat /\ f.cursor <= Newest
      /\ f.whole \in Nat /\ Newest \in Nat /\ Len(log) = Newest
      /\ Knows(f.through, f.cursor, f.got, f.whole, log)
  BY Client DEF ClientOK, Newest
<1>2. CASE Incomplete(first, last, newest, f.cursor)
  <2>1. follower' = [follower EXCEPT ![c] = Over(f, "page")]
    BY <1>2 DEF TakePage
  <2>2. ClientOK(Over(f, "page"), log, readable, persistence)
    BY <1>1, OverKeeps
  <2> QED BY <2>1, <2>2, OneFollower
<1>3. CASE ~Incomplete(first, last, newest, f.cursor)
  <2>1. newest <= f.cursor \/ first <= f.cursor + 1
    BY <1>1, <1>3 DEF Incomplete
  <2>2. /\ upper \in Nat
        /\ f.through # 0 => upper <= f.through
        /\ f.through = 0 => upper <= Newest
    BY <1>1 DEF Upper
  <2>3. first <= f.cursor + 1 \/ last <= f.cursor
    BY <1>1, <2>1
  <2>4. /\ next \in Nat /\ f.cursor <= next /\ next <= Newest
        /\ list \in Seq(Nat) /\ Rising(list) /\ ToSet(list) = hits
        /\ hits = Stretch(f.through, log, f.cursor, next)
    <3> DEFINE after == f.cursor
               through == f.through
    <3>1. /\ PageLimit \in Nat \ {0} /\ after \in Nat /\ Knows(through, after, f.got, f.whole, log)
          /\ first <= after + 1 \/ last <= after
          /\ through = 0 => upper <= Newest
          /\ through # 0 => upper <= through
      BY <1>1, <2>2, <2>3, FollowerAssumption
    <3> HIDE DEF after, through, f, upper
    <3> QED BY <2>2, <3>1, PageGoesOn DEF after, through
  <2>5. Knows(f.through, next, all, f.whole, log)
    <3> HIDE DEF f, upper, hits, list, next
    <3> QED BY <1>1, <2>4, KnowsMore
  <2>6. ASSUME ~more
        PROVE  \A n \in 1 .. newest : n <= upper /\ Matches(n) => n <= next
    <3> HIDE DEF f, upper
    <3> QED BY <1>1, <2>1, <2>2, <2>4, <2>6, NoMoreLeft
  <2>7. Knows(f.through, next, all, whole, log)
    <3> HIDE DEF f, upper, hits, list, next, all, more
    <3>1. CASE more
      BY <2>5, <3>1
    <3>2. CASE ~more
      <4>1. whole = IF upper <= newest THEN upper ELSE newest
        BY <2>2, <3>2, OfTwo
      <4>2. whole \in 0 .. Newest /\ whole <= upper /\ whole <= newest /\ (f.through # 0 => whole <= f.through)
        BY <1>1, <2>2, <4>1
      <4>3. \A n \in 1 .. whole : log[n] = Hit => n <= next
        BY <1>1, <2>2, <2>6, <3>2, <4>2 DEF Matches
      <4> HIDE DEF whole
      <4> QED BY <1>1, <2>5, <4>2, <4>3 DEF Knows
    <3> QED BY <3>1, <3>2
  <2>8. follower' = [follower EXCEPT ![c] = g]
    <3>1. Over(f, want).got = f.got /\ Over(f, want).whole = f.whole
      BY <1>1, OverFields
    <3>2. [Over(f, want) EXCEPT !.got = @ \o list, !.cursor = next, !.whole = IF more THEN @ ELSE Min({upper, newest})] = g
      <4> HIDE DEF f, upper, hits, list, next, more, want
      <4> QED BY <3>1
    <3>3. follower' = [follower EXCEPT ![c] =
            [Over(f, want) EXCEPT !.got = @ \o list, !.cursor = next, !.whole = IF more THEN @ ELSE Min({upper, newest})]]
      BY <1>3 DEF TakePage
    <3> HIDE DEF f, upper, hits, list, next, more, want, g
    <3> QED BY <3>2, <3>3
  <2>9. /\ DOMAIN g = Fields /\ g.pc = "idle" /\ g.want = want /\ g.high = 0 /\ g.next = 0 /\ g.sent = 0
        /\ g.through = f.through /\ g.cursor = next /\ g.got = all /\ g.whole = whole
    <3> DEFINE o == Over(f, want)
    <3>1. /\ DOMAIN o = Fields /\ o.pc = "idle" /\ o.want = want /\ o.high = 0 /\ o.next = 0 /\ o.sent = 0
          /\ o.through = f.through
      BY <1>1, OverFields
    <3> HIDE DEF f, want, next, all, whole, o
    <3>2. g = [o EXCEPT !.got = all, !.cursor = next, !.whole = whole]
      BY DEF o
    <3> HIDE DEF g
    <3> QED BY <3>1, <3>2 DEF Fields
  <2>10. ClientOK(g, log, readable, persistence)
    <3>1. want \in {"page", "stream"}
      OBVIOUS
    <3> HIDE DEF f, want, next, all, whole, g
    <3>2. Request(g, log, readable, persistence)
      BY <1>1, <2>9, IdleRequest
    <3> QED BY <2>7, <2>9, <3>1, <3>2 DEF ClientOK, Places
  <2> HIDE DEF g
  <2> QED BY <2>8, <2>10, OneFollower
<1> QED BY <1>2, <1>3

-----------------------------------------------------------------------------
(* The ledger                                                              *)

\* A step of the ledger adds at most one event, and takes nothing from the store.
Moves ==
  /\ log' = log \/ \E e \in {Hit, Miss} : log' = Append(log, e)
  /\ readable <= readable' /\ readable' \in Nat
  /\ persistence # "disabled" => persistence' # "disabled"

\* What the ring starts with after an append.
LEMMA RetainedIs ==
  ASSUME LedgerInv, NEW n \in Retained(Newest + 1)
  PROVE  n \in 1 .. Newest + 2 /\ Newest + 2 - n <= RingMax
<1> DEFINE most == Newest + 2 - RingMax
           kept == Max({oldest, most})
<1>1. /\ Newest \in Nat /\ oldest \in 1 .. Newest + 1 /\ RingMax \in Nat \ {0} /\ ByteEvictions \in Nat
      /\ Newest + 1 - oldest <= RingMax
  BY LedgerAssumption DEF LedgerInv, Newest
<1>2. \E m \in {oldest, most} : \A k \in {oldest, most} : m >= k
  BY <1>1
<1>3. kept \in {oldest, most} /\ kept >= oldest /\ kept >= most
  BY <1>2 DEF Max
<1>4. kept \in Nat /\ kept >= 1 /\ kept <= Newest + 2
  BY <1>1, <1>3
<1>5. n \in kept .. Min({kept + ByteEvictions, Newest + 2})
  <2>1. Newest + 1 + 1 - RingMax = most /\ Newest + 1 + 1 = Newest + 2
    BY <1>1
  <2> QED BY <2>1 DEF Retained
<1>6. Min({kept + ByteEvictions, Newest + 2}) <= Newest + 2 /\ Min({kept + ByteEvictions, Newest + 2}) \in Nat
  <2> HIDE DEF kept
  <2>1. kept + ByteEvictions \in Nat /\ Newest + 2 \in Nat
    BY <1>1, <1>4
  <2> QED BY <2>1, OfTwo
<1> HIDE DEF kept
<1> QED BY <1>1, <1>3, <1>4, <1>5, <1>6

\* An append to the store, which may rotate or fail.
LEMMA AppendKeepsLedger ==
  ASSUME LedgerInv, NEW e \in {Hit, Miss}, AppendEvent(e)
  PROVE  LedgerInv' /\ Moves
<1>1. /\ log \in Seq({Hit, Miss}) /\ Newest \in Nat /\ Newest < MaxEvents /\ MaxEvents \in Nat
      /\ log' = Append(log, e) /\ oldest' \in Retained(Newest + 1) /\ ~closed /\ closed' = closed /\ StoreAppend
  BY LedgerAssumption DEF LedgerInv, AppendEvent, Newest
<1>2. log' \in Seq({Hit, Miss}) /\ Newest' = Newest + 1
  BY <1>1 DEF Newest
<1>3. oldest' \in 1 .. Newest' + 1 /\ Newest' + 1 - oldest' <= RingMax
  <2> DEFINE n == oldest'
  <2>1. n \in 1 .. Newest + 2 /\ Newest + 2 - n <= RingMax
    <3>1. n \in Retained(Newest + 1)
      BY <1>1
    <3> HIDE DEF n
    <3> QED BY <3>1, RetainedIs
  <2> QED BY <1>1, <1>2, <2>1
<1>4. /\ persistence' \in {"disabled", "active", "degraded", "sealed"}
      /\ readable' \in Nat /\ stored' \in Nat /\ readable' <= stored' /\ stored' <= Newest + 1
      /\ faults' \in 0 .. MaxFaults /\ readable <= readable'
      /\ persistence' = "active" => stored' = Newest + 1
      /\ persistence' = "disabled" => stored' = 0
      /\ persistence' # "sealed"
      /\ persistence # "disabled" => persistence' # "disabled"
  BY <1>1, LedgerAssumption DEF StoreAppend, LedgerInv
<1> QED BY <1>1, <1>2, <1>3, <1>4 DEF LedgerInv, Moves

\* Sealing, and checkpoints that succeed or fail.
LEMMA StoreKeepsLedger ==
  ASSUME LedgerInv, Seal \/ Checkpoint \/ CheckpointFails
  PROVE  LedgerInv' /\ Moves
<1>1. /\ readable \in Nat /\ stored \in Nat /\ readable <= stored /\ stored <= Newest /\ Newest \in Nat
      /\ MaxFaults \in Nat /\ faults \in 0 .. MaxFaults /\ log' = log /\ oldest' = oldest /\ stored' = stored
  BY LedgerAssumption DEF LedgerInv, Seal, Checkpoint, CheckpointFails, ledgerVars, Newest
<1>2. Newest' = Newest
  BY <1>1 DEF Newest
<1>3. CASE Seal
  BY <1>1, <1>2, <1>3 DEF LedgerInv, Seal, Moves
<1>4. CASE Checkpoint
  BY <1>1, <1>2, <1>4 DEF LedgerInv, Checkpoint, Moves
<1>5. CASE CheckpointFails
  <2>1. CASE UNCHANGED ledgerVars
    BY <1>1, <1>2, <2>1 DEF LedgerInv, ledgerVars, Moves
  <2>2. CASE ~UNCHANGED ledgerVars
    BY <1>1, <1>2, <1>5, <2>2 DEF LedgerInv, CheckpointFails, Moves
  <2> QED BY <2>1, <2>2
<1> QED BY <1>3, <1>4, <1>5

\* A ledger that stands still, but for the faults counted.
LEMMA StillKeepsLedger ==
  ASSUME LedgerInv, UNCHANGED <<log, oldest, persistence, stored, readable, closed>>, faults' \in 0 .. MaxFaults
  PROVE  LedgerInv' /\ Moves
<1>1. Newest' = Newest
  BY DEF Newest
<1>2. readable \in Nat
  BY DEF LedgerInv
<1> QED BY <1>1, <1>2 DEF LedgerInv, Moves

\* What a client knows it knows of the longer log too: the new event is after its cursor.
LEMMA KnowsInLonger ==
  ASSUME NEW l \in Seq({Hit, Miss}), NEW e \in {Hit, Miss}, NEW through, NEW cursor, NEW got, NEW whole,
         Knows(through, cursor, got, whole, l)
  PROVE  Knows(through, cursor, got, whole, Append(l, e))
<1> DEFINE k == Len(l)
           m == Append(l, e)
<1>1. /\ k \in Nat /\ Len(m) = k + 1 /\ \A n \in 1 .. k : m[n] = l[n]
  OBVIOUS
<1> HIDE DEF k, m
<1>2. cursor \in 0 .. k /\ whole \in 0 .. k
  BY DEF Knows, k
<1>3. Stretch(through, m, 0, cursor) = Stretch(through, l, 0, cursor)
  <2>1. \A n \in 1 .. k : Wanted(through, m, n) <=> Wanted(through, l, n)
    BY <1>1 DEF Wanted
  <2>2. \A n : n \in Stretch(through, m, 0, cursor) <=> n \in Stretch(through, l, 0, cursor)
    BY <1>1, <1>2, <2>1 DEF Stretch, k
  <2> QED BY <2>2 DEF Stretch
<1>4. \A n \in 1 .. whole : m[n] = Hit => n <= cursor
  <2>1. \A n \in 1 .. whole : n \in 1 .. k
    BY <1>1, <1>2
  <2> QED BY <1>1, <2>1 DEF Knows
<1>5. cursor \in 0 .. Len(m) /\ whole \in 0 .. Len(m)
  BY <1>1, <1>2
<1>6. Knows(through, cursor, got, whole, m)
  BY <1>3, <1>4, <1>5 DEF Knows
<1> QED BY <1>6 DEF m

\* A step of the ledger leaves every client in order.
LEMMA MovesKeepClient ==
  ASSUME LedgerInv, Moves, NEW f, ClientOK(f, log, readable, persistence)
  PROVE  ClientOK(f, log', readable', persistence')
<1>1. log \in Seq({Hit, Miss}) /\ readable \in Nat
  BY DEF LedgerInv
<1>2. Request(f, log, readable, persistence) /\ Knows(f.through, f.cursor, f.got, f.whole, log)
  BY DEF ClientOK
<1>3. CASE log' = log
  <2>1. Request(f, log, readable', persistence')
    BY <1>1, <1>2 DEF Moves, Request
  <2> QED BY <1>2, <1>3, <2>1 DEF ClientOK
<1>4. ASSUME NEW e \in {Hit, Miss}, log' = Append(log, e)
      PROVE  ClientOK(f, log', readable', persistence')
  <2> DEFINE k == Len(log)
             m == log'
  <2>1. k \in Nat /\ Len(m) = k + 1 /\ \A n \in 1 .. k : m[n] = log[n]
    BY <1>1, <1>4
  <2>2. Knows(f.through, f.cursor, f.got, f.whole, m)
    BY <1>1, <1>2, <1>4, KnowsInLonger
  <2>3. Request(f, m, readable', persistence')
    <3> HIDE DEF m, k
    <3>1. /\ f.high \in 0 .. k /\ f.next \in 0 .. k + 1 /\ f.sent \in Nat
          /\ f.pc \in {"checkpoint", "read"} => f.cursor <= f.high
          /\ f.pc \in {"checkpoint", "export"} => persistence' # "disabled"
          /\ f.pc \in {"read", "export_read"} => f.high <= readable'
          /\ f.pc = "exported" => f.high <= f.sent
          /\ f.pc \in {"subscribed", "measured", "streaming"} => f.next # 0
          /\ f.pc = "measured" => f.next <= f.high + 1
      BY <1>1, <1>2 DEF Request, Moves, k
    <3>2. ASSUME f.pc = "streaming"
          PROVE  /\ f.cursor <= f.sent /\ f.sent <= Len(m)
                 /\ \A n \in 1 .. Len(m) : Wanted(f.through, m, n) /\ f.cursor < n => f.sent < n /\ f.next <= n
      <4>1. /\ f.cursor <= f.sent /\ f.sent <= k /\ f.next <= k + 1
            /\ \A n \in 1 .. k : Wanted(f.through, log, n) /\ f.cursor < n => f.sent < n /\ f.next <= n
        BY <1>2, <3>1, <3>2 DEF Request, k
      <4>2. \A n \in 1 .. k : Wanted(f.through, m, n) <=> Wanted(f.through, log, n)
        BY <2>1 DEF Wanted
      <4>3. \A n \in 1 .. Len(m) : n \in 1 .. k \/ n = k + 1
        BY <2>1
      <4>4. f.sent < k + 1 /\ f.sent <= Len(m)
        BY <2>1, <3>1, <4>1
      <4> QED BY <4>1, <4>2, <4>3, <4>4
    <3>3. f.high \in 0 .. Len(m) /\ f.next \in 0 .. Len(m) + 1
      BY <2>1, <3>1
    <3> QED BY <3>1, <3>2, <3>3 DEF Request
  <2> HIDE DEF k
  <2> QED BY <2>2, <2>3 DEF ClientOK
<1> QED BY <1>3, <1>4 DEF Moves

\* The ledger moves, and at most one client with it.
LEMMA MovesKeepFollowers ==
  ASSUME LedgerInv, FollowInv, Moves, NEW c, NEW g,
         follower' = follower \/ (c \in Clients /\ follower' = [follower EXCEPT ![c] = g]),
         c \in Clients => ClientOK(g, log', readable', persistence')
  PROVE  FollowInv'
<1>1. \A d \in Clients : ClientOK(follower[d], log', readable', persistence')
  BY MovesKeepClient DEF FollowInv
<1>2. DOMAIN follower' = Clients /\ \A d \in Clients : follower'[d] = follower[d] \/ (d = c /\ follower'[d] = g)
  BY DEF FollowInv
<1>3. \A d \in Clients : ClientOK(follower'[d], log', readable', persistence')
  BY <1>1, <1>2
<1> QED BY <1>2, <1>3 DEF FollowInv

-----------------------------------------------------------------------------
(* What a client does                                                      *)

\* A client whose request goes on knows what it knew.
LEMMA SameKnowledge ==
  ASSUME NEW f, NEW g, NEW l, NEW r, NEW p, NEW r2, NEW p2, ClientOK(f, l, r, p),
         DOMAIN g = Fields, g.pc \in Places, g.want = f.want, g.through = f.through, g.cursor = f.cursor,
         g.got = f.got, g.whole = f.whole, Request(g, l, r2, p2)
  PROVE  ClientOK(g, l, r2, p2)
  BY DEF ClientOK

\* A page from the ring, or from the store once the ring has lost the cursor.
LEMMA QueryRingKeeps ==
  ASSUME LedgerInv, FollowInv, NEW c \in Clients, QueryRing(c)
  PROVE  FollowInv'
<1> DEFINE f == follower[c]
           g == [f EXCEPT !.pc = "checkpoint", !.high = Newest]
<1>0. /\ ClientOK(f, log, readable, persistence) /\ DOMAIN f = Fields
      /\ f.cursor \in Nat /\ f.cursor <= Newest /\ Newest \in Nat /\ Len(log) = Newest
      /\ f.next \in Nat /\ f.next <= Newest + 1 /\ f.sent \in Nat /\ oldest \in Nat \ {0}
  BY Client DEF Newest
<1>1. UNCHANGED ledgerVars
  BY DEF QueryRing
<1>2. CASE TakePage(c, oldest, Newest, Newest)
  BY <1>0, <1>1, <1>2, TakesPage
<1>3. CASE follower' = [follower EXCEPT ![c].pc = "checkpoint", ![c].high = Newest] /\ HasStore
  <2>1. follower' = [follower EXCEPT ![c] = g]
    BY <1>3 DEF FollowInv
  <2>2. /\ DOMAIN g = Fields /\ g.pc = "checkpoint" /\ g.high = Newest /\ g.next = f.next /\ g.sent = f.sent
        /\ g.want = f.want /\ g.through = f.through /\ g.cursor = f.cursor /\ g.got = f.got /\ g.whole = f.whole
    BY <1>0 DEF Fields
  <2> HIDE DEF f, g
  <2>3. Request(g, log, readable, persistence)
    BY <1>0, <1>3, <2>2 DEF Request, HasStore
  <2>4. ClientOK(g, log, readable, persistence)
    BY <1>0, <2>2, <2>3, SameKnowledge DEF Places
  <2> QED BY <1>1, <2>1, <2>4, OneFollower
<1> QED BY <1>2, <1>3 DEF QueryRing

\* A checkpoint that succeeds makes everything readable.
LEMMA CheckpointReads ==
  ASSUME LedgerInv, Checkpoint, persistence # "disabled"
  PROVE  readable' = Newest /\ log' = log
  BY DEF LedgerInv, Checkpoint

\* A page waits for the checkpoint, which makes the events it is for readable.
LEMMA PageCheckpointKeeps ==
  ASSUME LedgerInv, FollowInv, NEW c \in Clients, PageCheckpoint(c)
  PROVE  FollowInv' /\ LedgerInv'
<1> DEFINE f == follower[c]
           g == [f EXCEPT !.pc = "read"]
<1>0. /\ ClientOK(f, log, readable, persistence) /\ DOMAIN f = Fields
      /\ Newest \in Nat /\ Len(log) = Newest /\ f.high <= Newest
  BY Client DEF Newest
<1>1. f.pc = "checkpoint" /\ persistence # "disabled" /\ Request(f, log, readable, persistence)
  BY <1>0 DEF PageCheckpoint, ClientOK, Request
<1>2. CASE Checkpoint /\ follower' = [follower EXCEPT ![c].pc = "read"]
  <2>1. follower' = [follower EXCEPT ![c] = g] /\ LedgerInv' /\ Moves /\ readable' = Newest /\ log' = log
    BY <1>1, <1>2, StoreKeepsLedger, CheckpointReads DEF FollowInv
  <2>2. /\ DOMAIN g = Fields /\ g.pc = "read" /\ g.high = f.high /\ g.next = f.next /\ g.sent = f.sent
        /\ g.want = f.want /\ g.through = f.through /\ g.cursor = f.cursor /\ g.got = f.got /\ g.whole = f.whole
    BY <1>0 DEF Fields
  <2> HIDE DEF f, g
  <2>3. Request(g, log, readable', persistence')
    BY <1>0, <1>1, <2>1, <2>2 DEF Request
  <2>4. ClientOK(g, log', readable', persistence')
    BY <1>0, <2>1, <2>2, <2>3, SameKnowledge DEF Places
  <2> QED BY <2>1, <2>4, MovesKeepFollowers
<1>3. CASE CheckpointFails /\ follower' = [follower EXCEPT ![c] = Over(@, "page")]
  <2> DEFINE o == Over(f, "page")
  <2>1. follower' = [follower EXCEPT ![c] = o] /\ LedgerInv' /\ Moves
    BY <1>3, StoreKeepsLedger DEF FollowInv
  <2>2. ClientOK(o, log, readable, persistence)
    BY <1>0, OverKeeps
  <2> HIDE DEF f, o
  <2>3. ClientOK(o, log', readable', persistence')
    BY <2>1, <2>2, MovesKeepClient
  <2> QED BY <2>1, <2>3, MovesKeepFollowers
<1> QED BY <1>2, <1>3 DEF PageCheckpoint

\* A page from the store: everything from the first event is there.
LEMMA ReadPersistedKeeps ==
  ASSUME LedgerInv, FollowInv, NEW c \in Clients, ReadPersisted(c)
  PROVE  FollowInv'
<1> DEFINE f == follower[c]
<1>0. /\ ClientOK(f, log, readable, persistence) /\ f.high \in Nat /\ readable \in Nat /\ readable <= Newest
  BY Client
<1>1. f.pc = "read" /\ f.high <= readable
  BY <1>0 DEF ReadPersisted, ClientOK, Request
<1>2. TakePage(c, 1, readable, f.high) /\ UNCHANGED ledgerVars
  BY DEF ReadPersisted
<1> QED BY <1>0, <1>1, <1>2, TakesPage

\* The place in the live channel, then the high-water mark: no event between them.
LEMMA SubscribeKeeps ==
  ASSUME LedgerInv, FollowInv, NEW c \in Clients, Subscribe(c) \/ HighWater(c)
  PROVE  FollowInv'
<1> DEFINE f == follower[c]
<1>0. /\ ClientOK(f, log, readable, persistence) /\ DOMAIN f = Fields
      /\ Newest \in Nat /\ Len(log) = Newest /\ f.high \in Nat /\ f.high <= Newest
      /\ f.next \in Nat /\ f.next <= Newest + 1 /\ f.sent \in Nat
  BY Client DEF Newest
<1>1. UNCHANGED ledgerVars
  BY DEF Subscribe, HighWater
<1>2. CASE Subscribe(c)
  <2> DEFINE g == [f EXCEPT !.pc = "subscribed", !.next = Newest + 1]
  <2>1. follower' = [follower EXCEPT ![c] = g]
    BY <1>2 DEF Subscribe, FollowInv
  <2>2. /\ DOMAIN g = Fields /\ g.pc = "subscribed" /\ g.high = f.high /\ g.next = Newest + 1 /\ g.sent = f.sent
        /\ g.want = f.want /\ g.through = f.through /\ g.cursor = f.cursor /\ g.got = f.got /\ g.whole = f.whole
    BY <1>0 DEF Fields
  <2> HIDE DEF f, g
  <2>3. Request(g, log, readable, persistence)
    BY <1>0, <2>2 DEF Request
  <2>4. ClientOK(g, log, readable, persistence)
    BY <1>0, <2>2, <2>3, SameKnowledge DEF Places
  <2> QED BY <1>1, <2>1, <2>4, OneFollower
<1>3. CASE HighWater(c)
  <2> DEFINE g == [f EXCEPT !.pc = "measured", !.high = Newest]
  <2>1. follower' = [follower EXCEPT ![c] = g] /\ f.pc = "subscribed"
    BY <1>3 DEF HighWater, FollowInv
  <2>2. /\ DOMAIN g = Fields /\ g.pc = "measured" /\ g.high = Newest /\ g.next = f.next /\ g.sent = f.sent
        /\ g.want = f.want /\ g.through = f.through /\ g.cursor = f.cursor /\ g.got = f.got /\ g.whole = f.whole
    BY <1>0 DEF Fields
  <2>3. f.next # 0
    BY <1>0, <2>1 DEF ClientOK, Request
  <2> HIDE DEF f, g
  <2>4. Request(g, log, readable, persistence)
    BY <1>0, <2>2, <2>3 DEF Request
  <2>5. ClientOK(g, log, readable, persistence)
    BY <1>0, <2>2, <2>4, SameKnowledge DEF Places
  <2> QED BY <1>1, <2>1, <2>5, OneFollower
<1> QED BY <1>2, <1>3

\* A request that ends.
LEMMA EndingKeeps ==
  ASSUME LedgerInv, FollowInv, NEW c \in Clients, StreamCloses(c) \/ Drop(c) \/ ExportEnds(c)
  PROVE  FollowInv' /\ LedgerInv'
<1> DEFINE f == follower[c]
<1>0. ClientOK(f, log, readable, persistence) /\ Len(log) \in Nat /\ f.want \in {"page", "stream"}
  BY Client DEF Newest
<1>1. PICK w \in {"page", "stream"} : follower' = [follower EXCEPT ![c] = Over(f, w)]
  BY <1>0 DEF StreamCloses, Drop, ExportEnds, FollowInv
<1>2. UNCHANGED <<log, oldest, persistence, stored, readable, closed>> /\ faults' \in 0 .. MaxFaults
  <2>1. faults \in 0 .. MaxFaults /\ MaxFaults \in Nat
    BY LedgerAssumption DEF LedgerInv
  <2> QED BY <2>1 DEF StreamCloses, Drop, ExportEnds, ledgerVars
<1>3. ClientOK(Over(f, w), log, readable, persistence)
  BY <1>0, OverKeeps
<1>4. LedgerInv' /\ Moves
  BY <1>2, StillKeepsLedger
<1> DEFINE o == Over(f, w)
<1> HIDE DEF f, o
<1>5. ClientOK(o, log', readable', persistence')
  BY <1>3, <1>4, MovesKeepClient DEF o
<1>6. follower' = [follower EXCEPT ![c] = o]
  BY <1>1 DEF o
<1> QED BY <1>4, <1>5, <1>6, MovesKeepFollowers

\* A snapshot ends where the stream goes on: it leaves out nothing a client wants between
\* its cursor and its place in the live channel.
LEMMA SnapshotKeeps ==
  ASSUME LedgerInv, FollowInv, NEW c \in Clients, Snapshot(c)
  PROVE  FollowInv'
<1> DEFINE f == follower[c]
           after == f.cursor
           through == f.through
           upper == Min({Upper(c, f.high), f.high})
           hits == Hits(oldest, Newest, after, upper, SnapshotLimit)
           list == InOrder(hits)
           next == NextAfter(oldest, Newest, after, upper, SnapshotLimit)
           cursor == IF list = <<>> THEN after ELSE Last(list)
           all == f.got \o list
           g == [f EXCEPT !.pc = "streaming", !.high = 0, !.got = all, !.cursor = cursor, !.sent = next]
<1>0. /\ ClientOK(f, log, readable, persistence) /\ DOMAIN f = Fields
      /\ through \in Nat /\ after \in Nat /\ after <= Newest /\ f.high \in Nat /\ f.high <= Newest
      /\ f.next \in Nat /\ f.next <= Newest + 1 /\ Newest \in Nat /\ Len(log) = Newest
      /\ oldest \in Nat \ {0} /\ oldest <= Newest + 1
      /\ Knows(through, after, f.got, f.whole, log) /\ Request(f, log, readable, persistence)
  BY Client DEF ClientOK, Newest
<1>1. UNCHANGED ledgerVars /\ f.pc = "measured" /\ f.next # 0 /\ f.next <= f.high + 1
  BY <1>0 DEF Snapshot, Request
<1>2. CASE follower' = [follower EXCEPT ![c] = Over(f, "page")]
  <2>1. ClientOK(Over(f, "page"), log, readable, persistence)
    BY <1>0, OverKeeps
  <2> QED BY <1>1, <1>2, <2>1, OneFollower
<1>3. CASE /\ ~Incomplete(oldest, Newest, Newest, after)
           /\ ~HasMore(oldest, Newest, after, upper, SnapshotLimit)
           /\ follower' = [follower EXCEPT ![c] = g]
  <2>1. /\ upper \in Nat /\ upper <= f.high
        /\ through # 0 => upper <= through
        /\ \A n \in 1 .. f.high : Wanted(through, log, n) => n <= upper
    <3>1. Upper(c, f.high) \in Nat /\ Upper(c, f.high) = IF through = 0 THEN f.high ELSE through
      BY <1>0 DEF Upper
    <3>2. upper = IF Upper(c, f.high) <= f.high THEN Upper(c, f.high) ELSE f.high
      BY <1>0, <3>1, OfTwo
    <3> HIDE DEF upper, f, through
    <3> QED BY <1>0, <3>1, <3>2 DEF Wanted
  <2>2. Newest <= after \/ oldest <= after + 1
    BY <1>0, <1>3 DEF Incomplete
  <2>3. /\ next \in Nat /\ after <= next /\ next <= Newest
        /\ list \in Seq(Nat) /\ Rising(list) /\ ToSet(list) = hits
        /\ hits = Stretch(through, log, after, next)
    <3>1. /\ SnapshotLimit \in Nat \ {0} /\ upper \in Nat /\ after \in Nat /\ oldest \in Nat \ {0}
          /\ Newest \in Nat /\ Newest <= Newest /\ Knows(through, after, f.got, f.whole, log)
          /\ oldest <= after + 1 \/ Newest <= after
          /\ through # 0 => upper <= through
          /\ through = 0 => upper <= Newest
      BY <1>0, <2>1, <2>2, FollowerAssumption
    <3> HIDE DEF f, after, through, upper
    <3> QED BY <3>1, PageGoesOn
  <2>4. \A n \in 1 .. Newest : n <= upper /\ Matches(n) => n <= next
    <3>1. /\ ~HasMore(oldest, Newest, after, upper, SnapshotLimit)
          /\ upper \in Nat /\ after \in Nat /\ oldest \in Nat \ {0} /\ Newest \in Nat /\ Newest <= Newest
          /\ oldest <= after + 1 \/ Newest <= after
          /\ next \in Nat /\ next >= after
      BY <1>0, <1>3, <2>1, <2>2, <2>3
    <3> HIDE DEF f, after, through, upper
    <3> QED BY <3>1, NoMoreLeft
  <2>5. /\ cursor \in Nat /\ after <= cursor /\ cursor <= next
        /\ ToSet(list) = Stretch(through, log, after, cursor)
        /\ \A n \in 1 .. Newest : Wanted(through, log, n) /\ cursor < n => next < n
    <3> HIDE DEF f, after, through, upper, hits, list, next
    <3>1. \A n : n \in ToSet(list) <=> n \in 1 .. Newest /\ Wanted(through, log, n) /\ after < n /\ n <= next
      BY <1>0, <2>3 DEF Stretch
    <3>2. CASE list = <<>>
      <4>1. ToSet(list) = {}
        BY <3>2 DEF ToSet
      <4>2. Stretch(through, log, after, after) = {}
        BY <1>0 DEF Stretch
      <4>3. cursor = after
        BY <3>2
      <4> HIDE DEF cursor
      <4>4. ToSet(list) = Stretch(through, log, after, cursor)
        BY <4>1, <4>2, <4>3
      <4>5. cursor \in Nat /\ after <= cursor /\ cursor <= next
        BY <1>0, <2>3, <4>3
      <4>6. ASSUME NEW n \in 1 .. Newest, Wanted(through, log, n), after < n
            PROVE  next < n
        BY <2>3, <3>1, <4>1, <4>6
      <4> QED BY <4>3, <4>4, <4>5, <4>6
    <3>3. CASE list # <<>>
      <4>1. cursor \in ToSet(list) /\ \A n \in ToSet(list) : n <= cursor
        BY <2>3, <3>3, LastIsGreatest
      <4> HIDE DEF cursor
      <4>2. cursor \in Nat /\ after <= cursor /\ cursor <= next
        BY <1>0, <2>3, <3>1, <4>1
      <4>3. ASSUME NEW n \in 1 .. Newest, Wanted(through, log, n), cursor < n
            PROVE  next < n
        BY <1>0, <2>3, <3>1, <4>1, <4>2, <4>3
      <4>4. \A n : n \in ToSet(list) <=> n \in Stretch(through, log, after, cursor)
        BY <1>0, <2>3, <3>1, <4>1, <4>2 DEF Stretch
      <4>5. ToSet(list) = Stretch(through, log, after, cursor)
        BY <4>4 DEF Stretch
      <4> QED BY <4>2, <4>3, <4>5
    <3> QED BY <3>2, <3>3
  <2>6. Knows(through, cursor, all, f.whole, log)
    <3>1. cursor <= Newest
      <4> HIDE DEF cursor, next
      <4> QED BY <1>0, <2>3, <2>5
    <3> HIDE DEF f, after, through, upper, hits, list, next, cursor
    <3> QED BY <1>0, <2>3, <2>5, <3>1, KnowsMore
  <2>7. /\ DOMAIN g = Fields /\ g.pc = "streaming" /\ g.high = 0 /\ g.next = f.next /\ g.sent = next
        /\ g.want = f.want /\ g.through = through /\ g.cursor = cursor /\ g.got = all /\ g.whole = f.whole
    <3> HIDE DEF next, cursor, all
    <3> QED BY <1>0 DEF Fields
  <2>8. f.want \in {"page", "stream"}
    BY <1>0 DEF ClientOK
  <2> HIDE DEF f, after, through, upper, hits, list, next, cursor, all, g
  <2>9. \A n \in 1 .. Newest : Wanted(through, log, n) /\ cursor < n => next < n /\ f.next <= n
    <3>1. ASSUME NEW n \in 1 .. Newest, Wanted(through, log, n), cursor < n
          PROVE  f.next <= n
      <4>1. next < n
        BY <2>5, <3>1
      <4>2. CASE n <= f.high
        <5>1. n <= upper /\ Matches(n)
          BY <1>0, <2>1, <3>1, <4>2 DEF Wanted, Matches
        <5>2. n <= next
          BY <2>4, <5>1
        <5> QED BY <2>3, <4>1, <5>2
      <4>3. CASE n > f.high
        BY <1>0, <1>1, <4>3
      <4> QED BY <1>0, <4>2, <4>3
    <3> QED BY <2>5, <3>1
  <2>10. Request(g, log, readable, persistence)
    BY <1>0, <1>1, <2>3, <2>5, <2>7, <2>9 DEF Request
  <2>11. ClientOK(g, log, readable, persistence)
    BY <2>6, <2>7, <2>8, <2>10 DEF ClientOK, Places
  <2>12. follower' = [follower EXCEPT ![c] = g]
    BY <1>3 DEF g, f, all, cursor, next, list, hits, after
  <2> QED BY <1>1, <2>11, <2>12, OneFollower
<1>4. \/ follower' = [follower EXCEPT ![c] = Over(f, "page")]
      \/ /\ ~Incomplete(oldest, Newest, Newest, after)
         /\ ~HasMore(oldest, Newest, after, upper, SnapshotLimit)
         /\ follower' = [follower EXCEPT ![c] = g]
  BY DEF Snapshot
<1> QED BY <1>2, <1>3, <1>4

\* A live event goes to the client unless the snapshot held it, or nobody asked for it.
LEMMA RecvKeeps ==
  ASSUME LedgerInv, FollowInv, NEW c \in Clients, Recv(c)
  PROVE  FollowInv'
<1> DEFINE f == follower[c]
           e == f.next
           through == f.through
           new == e > f.sent
           hit == new /\ Matches(e) /\ (through = 0 \/ e <= through)
           sent == IF new THEN e ELSE f.sent
           got == IF hit THEN Append(f.got, e) ELSE f.got
           cursor == IF hit THEN e ELSE f.cursor
           g == [f EXCEPT !.next = e + 1, !.sent = sent, !.got = got, !.cursor = cursor]
<1>0. /\ ClientOK(f, log, readable, persistence) /\ DOMAIN f = Fields
      /\ f.cursor \in Nat /\ f.high \in Nat /\ f.high <= Newest
      /\ e \in Nat /\ f.sent \in Nat /\ Newest \in Nat /\ Len(log) = Newest
      /\ Knows(through, f.cursor, f.got, f.whole, log) /\ Request(f, log, readable, persistence)
  BY Client DEF ClientOK, Newest
<1>1. UNCHANGED ledgerVars /\ f.pc = "streaming" /\ e <= Newest
  BY DEF Recv, Pending
<1>2. follower' = [follower EXCEPT ![c] = g]
  <2>1. follower' = [follower EXCEPT ![c] =
          [f EXCEPT !.next = @ + 1, !.sent = IF new THEN f.next ELSE @,
                    !.got = IF hit THEN Append(@, f.next) ELSE @,
                    !.cursor = IF hit THEN f.next ELSE @]]
    BY DEF Recv
  <2>2. [f EXCEPT !.next = @ + 1, !.sent = IF new THEN f.next ELSE @,
                    !.got = IF hit THEN Append(@, f.next) ELSE @,
                    !.cursor = IF hit THEN f.next ELSE @] = g
    <3> HIDE DEF f, new, hit
    <3> QED BY <1>0
  <2> HIDE DEF f, new, hit, g
  <2> QED BY <2>1, <2>2
<1>3. /\ f.cursor <= f.sent /\ f.sent <= Newest /\ e # 0
      /\ \A n \in 1 .. Newest : Wanted(through, log, n) /\ f.cursor < n => f.sent < n /\ e <= n
  BY <1>0, <1>1 DEF Request
<1>4. /\ DOMAIN g = Fields /\ g.pc = f.pc /\ g.high = f.high /\ g.next = e + 1 /\ g.sent = sent
      /\ g.want = f.want /\ g.through = through /\ g.cursor = cursor /\ g.got = got /\ g.whole = f.whole
  <2> HIDE DEF sent, got, cursor
  <2> QED BY <1>0 DEF Fields
<1>5. f.want \in {"page", "stream"} /\ f.pc \in Places
  BY <1>0 DEF ClientOK
<1>6. e \in 1 .. Newest /\ (hit <=> new /\ Wanted(through, log, e))
  <2>1. Matches(e) <=> log[e] = Hit
    BY DEF Matches
  <2> HIDE DEF f, new, e
  <2> QED BY <1>0, <1>1, <1>3, <2>1 DEF Wanted
<1> HIDE DEF f, e, through, g
<1>7. CASE hit
  <2>1. Knows(through, e, Append(f.got, e), f.whole, log)
    <3>1. f.cursor < e /\ Wanted(through, log, e) /\ Len(log) \in Nat /\ e \in 1 .. Len(log)
          /\ \A n \in 1 .. Len(log) : Wanted(through, log, n) /\ f.cursor < n => e <= n
      BY <1>0, <1>3, <1>6, <1>7
    <3> HIDE DEF hit
    <3> QED BY <1>0, <3>1, KnowsOneMore
  <2>2. sent = e /\ cursor = e /\ got = Append(f.got, e) /\ f.cursor < e
    BY <1>0, <1>3, <1>7
  <2> HIDE DEF sent, cursor, got, hit
  <2>3. \A n \in 1 .. Newest : Wanted(through, log, n) /\ e < n => e < n /\ e + 1 <= n
    BY <1>0
  <2>4. Request(g, log, readable, persistence)
    BY <1>0, <1>1, <1>4, <1>6, <2>2, <2>3 DEF Request
  <2>5. ClientOK(g, log, readable, persistence)
    BY <1>4, <1>5, <2>1, <2>2, <2>4 DEF ClientOK
  <2> QED BY <1>1, <1>2, <2>5, OneFollower
<1>8. CASE ~hit
  <2>1. cursor = f.cursor /\ got = f.got
    BY <1>8
  <2>2. \A n \in 1 .. Newest : Wanted(through, log, n) /\ f.cursor < n => sent < n /\ e + 1 <= n
    <3>1. ASSUME NEW n \in 1 .. Newest, Wanted(through, log, n), f.cursor < n
          PROVE  sent < n /\ e + 1 <= n
      <4>1. f.sent < n /\ e <= n
        BY <1>3, <3>1
      <4>2. n # e
        BY <1>6, <1>8, <3>1, <4>1
      <4> QED BY <1>0, <4>1, <4>2
    <3> QED BY <3>1
  <2>3. f.cursor <= sent /\ sent <= Newest /\ sent \in Nat
    BY <1>0, <1>1, <1>3
  <2> HIDE DEF sent, cursor, got, hit
  <2>4. Request(g, log, readable, persistence)
    BY <1>0, <1>1, <1>4, <1>6, <2>1, <2>2, <2>3 DEF Request
  <2>5. ClientOK(g, log, readable, persistence)
    BY <1>0, <1>4, <1>5, <2>1, <2>4 DEF ClientOK
  <2> QED BY <1>1, <1>2, <2>5, OneFollower
<1> QED BY <1>7, <1>8

\* The server's cursor is as good as the client's own: nothing it wants lies between.
LEMMA StreamGapKeeps ==
  ASSUME LedgerInv, FollowInv, NEW c \in Clients, StreamGap(c)
  PROVE  FollowInv'
<1> DEFINE f == follower[c]
           g == [Over(f, "page") EXCEPT !.cursor = f.sent]
<1>0. /\ ClientOK(f, log, readable, persistence) /\ DOMAIN f = Fields
      /\ f.cursor \in Nat /\ f.sent \in Nat /\ Newest \in Nat /\ Len(log) = Newest
      /\ Knows(f.through, f.cursor, f.got, f.whole, log) /\ Request(f, log, readable, persistence)
  BY Client DEF ClientOK, Newest
<1>1. UNCHANGED ledgerVars /\ f.pc = "streaming" /\ follower' = [follower EXCEPT ![c] = g]
  BY DEF StreamGap
<1>2. /\ f.cursor <= f.sent /\ f.sent <= Newest
      /\ \A n \in 1 .. Newest : Wanted(f.through, log, n) /\ f.cursor < n => f.sent < n
  BY <1>0, <1>1 DEF Request
<1>3. /\ DOMAIN g = Fields /\ g.pc = "idle" /\ g.want = "page" /\ g.high = 0 /\ g.next = 0 /\ g.sent = 0
      /\ g.through = f.through /\ g.cursor = f.sent /\ g.got = f.got /\ g.whole = f.whole
  <2> DEFINE o == Over(f, "page")
             sent == f.sent
  <2>1. /\ DOMAIN o = Fields /\ o.pc = "idle" /\ o.want = "page" /\ o.high = 0 /\ o.next = 0 /\ o.sent = 0
        /\ o.through = f.through /\ o.got = f.got /\ o.whole = f.whole
    BY <1>0, OverFields
  <2> HIDE DEF f, o, sent
  <2>2. g = [o EXCEPT !.cursor = sent]
    BY DEF o, sent
  <2> HIDE DEF g
  <2> QED BY <2>1, <2>2 DEF Fields, sent
<1> HIDE DEF f, g
<1>4. Stretch(f.through, log, 0, f.sent) = Stretch(f.through, log, 0, f.cursor)
  <2>1. \A n : n \in Stretch(f.through, log, 0, f.sent) <=> n \in Stretch(f.through, log, 0, f.cursor)
    BY <1>0, <1>2 DEF Stretch
  <2> QED BY <2>1 DEF Stretch
<1>5. f.sent \in 0 .. Len(log) /\ \A n \in 1 .. f.whole : log[n] = Hit => n <= f.sent
  <2>1. f.whole \in Nat /\ \A n \in 1 .. f.whole : log[n] = Hit => n <= f.cursor
    BY <1>0 DEF Knows
  <2> QED BY <1>0, <1>2, <2>1
<1>6. Knows(f.through, f.sent, f.got, f.whole, log)
  BY <1>0, <1>4, <1>5 DEF Knows
<1>7. Request(g, log, readable, persistence)
  BY <1>0, <1>3, IdleRequest
<1>8. ClientOK(g, log, readable, persistence)
  BY <1>3, <1>6, <1>7 DEF ClientOK, Places
<1> QED BY <1>1, <1>8, OneFollower

\* An export gets everything there was: from the store after a checkpoint, or from a ring
\* that lost nothing.
LEMMA ExportKeeps ==
  ASSUME LedgerInv, FollowInv, NEW c \in Clients,
         ExportStart(c) \/ ExportCheckpoint(c) \/ ExportRead(c) \/ ExportRing(c)
  PROVE  FollowInv' /\ LedgerInv'
<1> DEFINE f == follower[c]
<1>0. /\ ClientOK(f, log, readable, persistence) /\ DOMAIN f = Fields
      /\ f.cursor \in Nat /\ f.sent \in Nat /\ Newest \in Nat /\ Len(log) = Newest
      /\ f.high \in Nat /\ f.high <= Newest /\ f.next \in Nat /\ f.next <= Newest + 1
      /\ f.want \in {"page", "stream"} /\ readable \in Nat /\ oldest \in Nat \ {0} /\ oldest <= Newest + 1
      /\ Request(f, log, readable, persistence)
  BY Client DEF ClientOK, Newest
<1>1. ASSUME UNCHANGED ledgerVars
      PROVE  LedgerInv' /\ Moves
  <2>1. faults \in 0 .. MaxFaults
    BY DEF LedgerInv
  <2> QED BY <1>1, <2>1, StillKeepsLedger DEF ledgerVars
<1>2. ASSUME NEW g, NEW pc \in Places \ {"streaming"}, NEW high, NEW sent, UNCHANGED ledgerVars,
             follower' = [follower EXCEPT ![c] = g], g = [f EXCEPT !.pc = pc, !.high = high, !.sent = sent],
             Request(g, log, readable, persistence)
      PROVE  FollowInv' /\ LedgerInv'
  <2>1. /\ DOMAIN g = Fields /\ g.pc = pc /\ g.high = high /\ g.next = f.next /\ g.sent = sent
        /\ g.want = f.want /\ g.through = f.through /\ g.cursor = f.cursor /\ g.got = f.got /\ g.whole = f.whole
    <3> HIDE DEF f
    <3> QED BY <1>0, <1>2 DEF Fields
  <2>2. ClientOK(g, log, readable, persistence)
    <3>1. /\ ClientOK(f, log, readable, persistence) /\ DOMAIN g = Fields /\ g.pc \in Places
          /\ g.want = f.want /\ g.through = f.through /\ g.cursor = f.cursor
          /\ g.got = f.got /\ g.whole = f.whole /\ Request(g, log, readable, persistence)
      BY <1>0, <1>2, <2>1
    <3> HIDE DEF f
    <3> QED BY <3>1, SameKnowledge
  <2> QED BY <1>1, <1>2, <2>2, OneFollower
<1>3. CASE ExportStart(c)
  <2> DEFINE pc == IF HasStore THEN "export" ELSE "export_ring"
             g == [f EXCEPT !.pc = pc, !.high = Newest, !.sent = f.sent]
  <2>1. UNCHANGED ledgerVars /\ follower' = [follower EXCEPT ![c] = [f EXCEPT !.pc = pc, !.high = Newest]]
    BY <1>3 DEF ExportStart, FollowInv
  <2>2. [f EXCEPT !.pc = pc, !.high = Newest] = g
    <3> HIDE DEF f, pc
    <3> QED BY <1>0 DEF Fields
  <2>3. /\ g.pc = pc /\ g.high = Newest /\ g.next = f.next /\ g.sent = f.sent
    <3> HIDE DEF f, pc
    <3> QED BY <1>0 DEF Fields
  <2>4. pc \in Places \ {"streaming"} /\ (pc = "export" => persistence # "disabled") /\ pc \in {"export", "export_ring"}
    BY DEF Places, HasStore
  <2> HIDE DEF f, pc, g
  <2>5. Request(g, log, readable, persistence)
    BY <1>0, <2>3, <2>4 DEF Request
  <2> QED BY <1>2, <2>1, <2>2, <2>4, <2>5 DEF g
<1>4. CASE ExportCheckpoint(c)
  <2>0. f.pc = "export" /\ persistence # "disabled"
    BY <1>0, <1>4 DEF ExportCheckpoint, Request
  <2>1. CASE Checkpoint /\ follower' = [follower EXCEPT ![c].pc = "export_read"]
    <3> DEFINE g == [f EXCEPT !.pc = "export_read"]
    <3>1. follower' = [follower EXCEPT ![c] = g] /\ LedgerInv' /\ Moves /\ readable' = Newest /\ log' = log
      BY <2>0, <2>1, StoreKeepsLedger, CheckpointReads DEF FollowInv
    <3>2. /\ DOMAIN g = Fields /\ g.pc = "export_read" /\ g.high = f.high /\ g.next = f.next /\ g.sent = f.sent
          /\ g.want = f.want /\ g.through = f.through /\ g.cursor = f.cursor /\ g.got = f.got /\ g.whole = f.whole
      BY <1>0 DEF Fields
    <3> HIDE DEF f, g
    <3>3. Request(g, log, readable', persistence')
      BY <1>0, <3>1, <3>2 DEF Request
    <3>4. ClientOK(g, log', readable', persistence')
      BY <1>0, <3>1, <3>2, <3>3, SameKnowledge DEF Places
    <3> QED BY <3>1, <3>4, MovesKeepFollowers
  <2>2. CASE CheckpointFails /\ follower' = [follower EXCEPT ![c] = Over(@, @.want)]
    <3> DEFINE o == Over(f, f.want)
    <3>1. follower' = [follower EXCEPT ![c] = o] /\ LedgerInv' /\ Moves
      BY <2>2, StoreKeepsLedger DEF FollowInv
    <3>2. ClientOK(o, log, readable, persistence)
      BY <1>0, OverKeeps
    <3> HIDE DEF f, o
    <3>3. ClientOK(o, log', readable', persistence')
      BY <3>1, <3>2, MovesKeepClient
    <3> QED BY <3>1, <3>3, MovesKeepFollowers
  <2> QED BY <1>4, <2>1, <2>2 DEF ExportCheckpoint
<1>5. CASE ExportRead(c)
  <2> DEFINE g == [f EXCEPT !.pc = "exported", !.high = f.high, !.sent = readable]
  <2>1. /\ UNCHANGED ledgerVars /\ f.pc = "export_read"
        /\ follower' = [follower EXCEPT ![c] = [f EXCEPT !.pc = "exported", !.sent = readable]]
    BY <1>5 DEF ExportRead, FollowInv
  <2>2. [f EXCEPT !.pc = "exported", !.sent = readable] = g
    <3> HIDE DEF f
    <3> QED BY <1>0 DEF Fields
  <2>3. g.pc = "exported" /\ g.high = f.high /\ g.next = f.next /\ g.sent = readable
    <3> HIDE DEF f
    <3> QED BY <1>0 DEF Fields
  <2>4. f.high <= readable
    BY <1>0, <2>1 DEF Request
  <2> HIDE DEF f, g
  <2>5. Request(g, log, readable, persistence)
    BY <1>0, <2>3, <2>4 DEF Request
  <2> QED BY <1>2, <2>1, <2>2, <2>5 DEF g, Places
<1>6. CASE ExportRing(c)
  <2>1. UNCHANGED ledgerVars /\ f.pc = "export_ring"
    BY <1>6 DEF ExportRing
  <2>2. CASE Incomplete(oldest, Newest, Newest, 0) \/ f.high > SnapshotLimit
    <3>1. follower' = [follower EXCEPT ![c] = Over(f, f.want)]
      BY <1>6, <2>2 DEF ExportRing
    <3>2. ClientOK(Over(f, f.want), log, readable, persistence)
      BY <1>0, OverKeeps
    <3> QED BY <1>1, <2>1, <3>1, <3>2, OneFollower
  <2>3. CASE ~(Incomplete(oldest, Newest, Newest, 0) \/ f.high > SnapshotLimit)
    <3> DEFINE sent == Cardinality(oldest .. f.high)
               g == [f EXCEPT !.pc = "exported", !.high = f.high, !.sent = sent]
    <3>1. follower' = [follower EXCEPT ![c] = [f EXCEPT !.pc = "exported", !.sent = sent]]
      BY <1>6, <2>3 DEF ExportRing
    <3>2. sent \in Nat /\ f.high <= sent
      <4>1. oldest = 1 \/ Newest = 0
        BY <1>0, <2>3 DEF Incomplete
      <4>2. sent \in Nat /\ (oldest = 1 => sent = f.high)
        <5> DEFINE high == f.high
        <5>1. high \in Nat /\ oldest \in Int /\ high \in Int /\ (1 > high <=> high = 0)
          BY <1>0
        <5> HIDE DEF f, high
        <5>2. IsFiniteSet(oldest .. high)
          BY <5>1, FS_Interval
        <5>3. Cardinality(oldest .. high) \in Nat
          BY <5>2, FS_CardinalityType
        <5>4. oldest = 1 => Cardinality(oldest .. high) = high
          BY <5>1, FS_Interval
        <5> QED BY <5>3, <5>4 DEF high
      <4>3. CASE oldest = 1
        BY <1>0, <4>2, <4>3
      <4>4. CASE Newest = 0
        <5>1. f.high = 0
          BY <1>0, <4>4
        <5> HIDE DEF sent
        <5> QED BY <4>2, <5>1
      <4> QED BY <4>1, <4>2, <4>3, <4>4
    <3> HIDE DEF sent
    <3>3. [f EXCEPT !.pc = "exported", !.sent = sent] = g
      <4> HIDE DEF f
      <4> QED BY <1>0 DEF Fields
    <3>4. g.pc = "exported" /\ g.high = f.high /\ g.next = f.next /\ g.sent = sent
      <4> HIDE DEF f
      <4> QED BY <1>0 DEF Fields
    <3> HIDE DEF f, g
    <3>5. Request(g, log, readable, persistence)
      BY <1>0, <3>2, <3>4 DEF Request
    <3> QED BY <1>2, <2>1, <3>1, <3>3, <3>5 DEF g, Places
  <2> QED BY <2>2, <2>3
<1> QED BY <1>3, <1>4, <1>5, <1>6

-----------------------------------------------------------------------------
(* The theorems                                                            *)

\* An empty log, and clients that know nothing.
LEMMA InitFollows ==
  ASSUME Init
  PROVE  LedgerInv /\ FollowInv
<1>0. LedgerInit /\ follower \in [Clients -> NewFollowers]
  BY DEF Init
<1>1. log = <<>> /\ Len(log) = 0 /\ Newest = 0 /\ log \in Seq({Hit, Miss})
  BY <1>0 DEF LedgerInit, Newest
<1>2. LedgerInv
  <2>1. RingMax \in Nat \ {0} /\ MaxEvents \in Nat /\ MaxFaults \in Nat /\ persistence \in {"active", "disabled"}
    BY <1>0, LedgerAssumption DEF LedgerInit
  <2>2. oldest = 1 /\ stored = 0 /\ readable = 0 /\ faults = 0 /\ closed = FALSE
    BY <1>0 DEF LedgerInit
  <2>3. /\ Newest <= MaxEvents /\ oldest \in 1 .. Newest + 1 /\ Newest + 1 - oldest <= RingMax
        /\ readable \in Nat /\ stored \in Nat /\ readable <= stored /\ stored <= Newest
        /\ faults \in 0 .. MaxFaults
    BY <1>1, <2>1, <2>2
  <2>4. closed \in BOOLEAN
    BY <2>2
  <2>5. persistence \in {"disabled", "active", "degraded", "sealed"} /\ persistence # "sealed"
    BY <2>1
  <2>6. stored = Newest /\ stored = 0
    BY <1>1, <2>2
  <2> QED BY <1>1, <2>3, <2>4, <2>5, <2>6 DEF LedgerInv
<1>3. ASSUME NEW c \in Clients
      PROVE  ClientOK(follower[c], log, readable, persistence)
  <2> DEFINE f == follower[c]
  <2>1. f \in NewFollowers
    BY <1>0
  <2> HIDE DEF f
  <2>2. /\ DOMAIN f = Fields /\ f.pc = "idle" /\ f.want \in {"page", "stream"} /\ f.through \in Bounds
        /\ f.cursor = 0 /\ f.got = <<>> /\ f.whole = 0 /\ f.high = 0 /\ f.next = 0 /\ f.sent = 0
    BY <2>1 DEF NewFollowers, Fields
  <2>3. Request(f, log, readable, persistence)
    BY <1>1, <2>2, IdleRequest
  <2>4. Knows(f.through, 0, <<>>, 0, log)
    <3>1. Stretch(f.through, log, 0, 0) = {} /\ ToSet(<<>>) = {} /\ Rising(<<>>)
      BY <1>1 DEF Stretch, ToSet, Rising
    <3>2. f.through \in Bounds /\ f.through \in Nat
      BY <2>2, FollowerAssumption
    <3> QED BY <1>1, <3>1, <3>2 DEF Knows
  <2>5. ClientOK(f, log, readable, persistence)
    BY <2>2, <2>3, <2>4 DEF ClientOK, Places
  <2> QED BY <2>5 DEF f
<1> QED BY <1>0, <1>2, <1>3 DEF FollowInv

\* Every step of the ledger and of its clients keeps both.
LEMMA NextFollows ==
  ASSUME LedgerInv, FollowInv, [Next]_apiVars
  PROVE  (LedgerInv /\ FollowInv)'
<1>1. CASE Write
  <2>1. LedgerInv' /\ Moves /\ follower' = follower
    BY <1>1, AppendKeepsLedger DEF Write
  <2>2. FollowInv'
    <3>1. \A d \in Clients : ClientOK(follower[d], log', readable', persistence')
      BY <2>1, MovesKeepClient DEF FollowInv
    <3> QED BY <2>1, <3>1 DEF FollowInv
  <2> QED BY <2>1, <2>2
<1>2. CASE SealLedger
  <2>1. LedgerInv' /\ Moves /\ follower' = follower
    BY <1>2, StoreKeepsLedger DEF SealLedger
  <2>2. FollowInv'
    <3>1. \A d \in Clients : ClientOK(follower[d], log', readable', persistence')
      BY <2>1, MovesKeepClient DEF FollowInv
    <3> QED BY <2>1, <3>1 DEF FollowInv
  <2> QED BY <2>1, <2>2
<1>3. ASSUME UNCHANGED ledgerVars
      PROVE  LedgerInv'
  <2>1. faults \in 0 .. MaxFaults
    BY DEF LedgerInv
  <2> QED BY <1>3, <2>1, StillKeepsLedger DEF ledgerVars
<1>4. ASSUME NEW c \in Clients, ClientStep(c) \/ ExportStep(c) \/ ExportStart(c) \/ Drop(c)
      PROVE  LedgerInv' /\ FollowInv'
  <2>1. CASE QueryRing(c)
    BY <1>3, <2>1, QueryRingKeeps DEF QueryRing
  <2>2. CASE PageCheckpoint(c)
    BY <2>2, PageCheckpointKeeps
  <2>3. CASE ReadPersisted(c)
    BY <1>3, <2>3, ReadPersistedKeeps DEF ReadPersisted
  <2>4. CASE Subscribe(c) \/ HighWater(c)
    BY <1>3, <2>4, SubscribeKeeps DEF Subscribe, HighWater
  <2>5. CASE Snapshot(c)
    <3>1. UNCHANGED ledgerVars
      BY <2>5 DEF Snapshot
    <3> QED BY <1>3, <2>5, <3>1, SnapshotKeeps
  <2>6. CASE Recv(c)
    <3>1. UNCHANGED ledgerVars
      BY <2>6 DEF Recv
    <3> QED BY <1>3, <2>6, <3>1, RecvKeeps
  <2>7. CASE StreamGap(c)
    <3>1. UNCHANGED ledgerVars
      BY <2>7 DEF StreamGap
    <3> QED BY <1>3, <2>7, <3>1, StreamGapKeeps
  <2>8. CASE StreamCloses(c) \/ Drop(c) \/ ExportEnds(c)
    BY <2>8, EndingKeeps
  <2>9. CASE ExportStart(c) \/ ExportCheckpoint(c) \/ ExportRead(c) \/ ExportRing(c)
    BY <2>9, ExportKeeps
  <2> QED BY <1>4, <2>1, <2>2, <2>3, <2>4, <2>5, <2>6, <2>7, <2>8, <2>9 DEF ClientStep, ExportStep
<1>5. CASE UNCHANGED apiVars
  <2>1. UNCHANGED ledgerVars /\ UNCHANGED follower
    BY <1>5 DEF apiVars, ledgerVars
  <2>2. log' = log /\ readable' = readable /\ persistence' = persistence /\ follower' = follower
    BY <2>1 DEF ledgerVars
  <2>3. FollowInv'
    BY <2>2 DEF FollowInv
  <2> QED BY <1>3, <2>1, <2>3
<1> QED BY <1>1, <1>2, <1>4, <1>5 DEF Next

\* What the ledger and its clients keep, in every state of the specification.
THEOREM Followed == Spec => [](LedgerInv /\ FollowInv)
<1>1. Init => LedgerInv /\ FollowInv
  BY InitFollows
<1>2. (LedgerInv /\ FollowInv) /\ [Next]_apiVars => (LedgerInv /\ FollowInv)'
  BY NextFollows
<1> QED BY <1>1, <1>2, PTL DEF Spec

\* The ring never holds more events than it may, the store never more than the log, and no
\* cursor of a client lies beyond the log (EventFollower's type invariant).
THEOREM EventsTyped == Spec => []TypeOK
<1>1. LedgerInv /\ FollowInv => TypeOK
  <2> SUFFICES ASSUME LedgerInv, FollowInv PROVE TypeOK
    OBVIOUS
  <2>1. LedgerTypeOK
    <3>1. readable \in Nat /\ Len(log) = Newest
      BY DEF LedgerInv, Newest
    <3> QED BY <3>1 DEF LedgerInv, LedgerTypeOK
  <2>2. Newest \in Nat /\ Newest <= MaxEvents /\ MaxEvents \in Nat
    BY LedgerAssumption DEF LedgerInv, Newest
  <2>3. ASSUME NEW c \in Clients
        PROVE  /\ follower[c].pc \in Places /\ follower[c].want \in {"page", "stream"}
               /\ {follower[c].cursor, follower[c].whole, follower[c].high} \subseteq 0 .. MaxEvents
    <3> DEFINE f == follower[c]
    <3>1. /\ f.pc \in Places /\ f.want \in {"page", "stream"} /\ f.cursor \in Nat /\ f.cursor <= Newest
          /\ f.high \in Nat /\ f.high <= Newest /\ Knows(f.through, f.cursor, f.got, f.whole, log)
      BY Client DEF ClientOK
    <3>2. f.whole \in 0 .. Newest
      BY <3>1 DEF Knows, Newest
    <3> HIDE DEF f
    <3>3. f.cursor \in 0 .. MaxEvents /\ f.whole \in 0 .. MaxEvents /\ f.high \in 0 .. MaxEvents
      BY <2>2, <3>1, <3>2
    <3> QED BY <3>1, <3>3 DEF f
  <2> QED BY <2>1, <2>3 DEF TypeOK, Places
<1> QED BY <1>1, Followed, PTL

\* A client has the events that match up to where it knows the session, each once and in
\* order: pages, snapshot, live events and stream gaps meet without a hole or an overlap,
\* whatever was evicted, lagged or lost in between.
THEOREM FollowersMissNothing == Spec => []FollowsExactly
<1>1. LedgerInv /\ FollowInv => FollowsExactly
  <2> SUFFICES ASSUME LedgerInv, FollowInv, NEW c \in Clients
               PROVE  /\ Rising(follower[c].got)
                      /\ ToSet(follower[c].got) = {n \in 1 .. Newest : Matches(n) /\ n <= Known(c)}
    BY DEF FollowsExactly
  <2> DEFINE f == follower[c]
             cursor == IF f.pc = "streaming" THEN Max({f.cursor, f.sent}) ELSE f.cursor
  <2>1. /\ f.through \in Nat /\ f.cursor \in Nat /\ f.sent \in Nat /\ Newest \in Nat /\ Len(log) = Newest
        /\ Knows(f.through, f.cursor, f.got, f.whole, log) /\ Request(f, log, readable, persistence)
    BY Client DEF ClientOK, Newest
  <2>2. Rising(f.got) /\ ToSet(f.got) = Stretch(f.through, log, 0, f.cursor)
    BY <2>1 DEF Knows
  <2>3. /\ cursor \in Nat
        /\ \A n \in 1 .. Newest : Wanted(f.through, log, n) => (n <= f.cursor <=> n <= cursor)
    <3>1. CASE f.pc = "streaming"
      <4>1. /\ f.cursor <= f.sent
            /\ \A n \in 1 .. Newest : Wanted(f.through, log, n) /\ f.cursor < n => f.sent < n
        BY <2>1, <3>1 DEF Request
      <4>2. cursor = f.sent
        <5>1. cursor = Max({f.cursor, f.sent})
          BY <3>1
        <5> HIDE DEF f, cursor
        <5> QED BY <2>1, <4>1, <5>1, OfTwo
      <4> HIDE DEF f, cursor
      <4> QED BY <2>1, <4>1, <4>2
    <3> QED BY <2>1, <3>1
  <2>4. /\ f.through = 0 => Known(c) = cursor
        /\ f.through # 0 => Known(c) = Min({cursor, f.through})
    BY DEF Known
  <2> HIDE DEF f, cursor
  <2>5. /\ f.through = 0 => Known(c) = cursor
        /\ f.through # 0 => \A n \in Nat : n <= Known(c) <=> n <= cursor /\ n <= f.through
    BY <2>1, <2>3, <2>4, OfTwo
  <2>6. \A n \in 1 .. Newest : Wanted(f.through, log, n) /\ 0 < n /\ n <= f.cursor <=> Matches(n) /\ n <= Known(c)
    <3> SUFFICES ASSUME NEW n \in 1 .. Newest
                 PROVE  Wanted(f.through, log, n) /\ 0 < n /\ n <= f.cursor <=> Matches(n) /\ n <= Known(c)
      OBVIOUS
    <3>1. Wanted(f.through, log, n) <=> Matches(n) /\ (f.through = 0 \/ n <= f.through)
      BY DEF Wanted, Matches
    <3> QED BY <2>3, <2>5, <3>1
  <2>7. Stretch(f.through, log, 0, f.cursor) = {n \in 1 .. Newest : Matches(n) /\ n <= Known(c)}
    BY <2>1, <2>6 DEF Stretch
  <2> QED BY <2>2, <2>7 DEF f
<1> QED BY <1>1, Followed, PTL

\* A page that says there is no more leaves no matching event behind, up to the newest one
\* when it was asked for.
THEOREM NoMoreIsTheTruth == Spec => []NoMoreMeansNoMore
<1>1. LedgerInv /\ FollowInv => NoMoreMeansNoMore
  <2> SUFFICES ASSUME LedgerInv, FollowInv, NEW c \in Clients, NEW n \in 1 .. follower[c].whole, Matches(n)
               PROVE  n <= Known(c)
    BY DEF NoMoreMeansNoMore
  <2> DEFINE f == follower[c]
             cursor == IF f.pc = "streaming" THEN Max({f.cursor, f.sent}) ELSE f.cursor
  <2>1. /\ f.through \in Nat /\ f.cursor \in Nat /\ f.sent \in Nat /\ f.whole \in Nat
        /\ Knows(f.through, f.cursor, f.got, f.whole, log)
    BY Client DEF ClientOK
  <2>2. n <= f.cursor /\ (f.through # 0 => f.whole <= f.through)
    BY <2>1 DEF Knows, Matches
  <2>3. cursor \in Nat /\ f.cursor <= cursor
    <3>1. Max({f.cursor, f.sent}) \in Nat /\ f.cursor <= Max({f.cursor, f.sent})
      <4>1. f.cursor \in Nat /\ f.sent \in Nat
        BY <2>1
      <4> HIDE DEF f, cursor
      <4>2. Max({f.cursor, f.sent}) = IF f.cursor <= f.sent THEN f.sent ELSE f.cursor
        BY <4>1, OfTwo
      <4> QED BY <4>1, <4>2
    <3> QED BY <2>1, <3>1
  <2>4. /\ f.through = 0 => Known(c) = cursor
        /\ f.through # 0 => Known(c) = Min({cursor, f.through})
    BY DEF Known
  <2>5. n \in 1 .. f.whole
    OBVIOUS
  <2> HIDE DEF f, cursor
  <2> QED BY <2>1, <2>2, <2>3, <2>4, <2>5, OfTwo
<1> QED BY <1>1, Followed, PTL

\* An export that succeeds has every event there was when it was asked for.
THEOREM ExportsAreWhole == Spec => []ExportComplete
<1>1. LedgerInv /\ FollowInv => ExportComplete
  <2> SUFFICES ASSUME LedgerInv, FollowInv, NEW c \in Clients, follower[c].pc = "exported"
               PROVE  follower[c].sent >= follower[c].high
    BY DEF ExportComplete
  <2>1. /\ follower[c].high \in Nat /\ follower[c].sent \in Nat
        /\ Request(follower[c], log, readable, persistence)
    BY Client DEF ClientOK
  <2> QED BY <2>1 DEF Request
<1> QED BY <1>1, Followed, PTL
=============================================================================
