--------------------------- MODULE WorkflowProofs ---------------------------
(***************************************************************************)
(* For any number of calls, request ids and definitions: of the calls with *)
(* one request id at most one executes, and a passed expect is evidence.   *)
(*                                                                         *)
(* The first rests on KeyInv: a call that executes has its request id in   *)
(* `active' from Claim to Unclaim.  The converse is false (a call that is  *)
(* dropped at an await leaves its id behind) and is not needed.            *)
(*                                                                         *)
(* The second is about any pattern and any bytes, in whatever events they  *)
(* come.  The prefix table has the longest borders of the pattern          *)
(* (PrefixTableOK), so that Feed stands at the longest beginning of the    *)
(* pattern that ends what it was fed, until the pattern is complete        *)
(* (FeedWaiting).  MatchInv says that of every expect under way, for the   *)
(* bytes of the events since its start, and of every passed expect up to   *)
(* the event before its last.  What is shown of the recursive functions    *)
(* goes by the least number for which it fails (Least).                    *)
(***************************************************************************)
EXTENDS Workflow, FiniteSetTheorems, FunctionTheorems, SequenceTheorems,
        WellFoundedInduction, TLAPS

-----------------------------------------------------------------------------
(* One run for a request id                                                *)

RunFields == {"pc", "key", "steps", "next", "seq", "epoch", "step", "start", "matched", "evidence", "answer"}

Claimed == \A r \in Runs : run[r].pc \in Executing => run[r].key \in active

KeyInv ==
  /\ DOMAIN run = Runs
  /\ \A r \in Runs : DOMAIN run[r] = RunFields
  /\ Claimed
  /\ OneRunPerKey

-----------------------------------------------------------------------------
\* No call executes at first.
LEMMA KeyInit ==
  ASSUME Init
  PROVE  KeyInv
  BY DEF Init, NewRun, RunFields, KeyInv, Claimed, OneRunPerKey, Executing

\* One call moves on to x; it does not execute then, or it did already, under the same id.
Moves(r, x) ==
  /\ run' = [run EXCEPT ![r] = x]
  /\ DOMAIN x = RunFields
  /\ x.pc \in Executing => run[r].pc \in Executing /\ x.key = run[r].key

\* As long as nobody claims or gives back an id, that keeps the invariant.
LEMMA MoveKeeps ==
  ASSUME KeyInv, NEW r \in Runs, NEW x, Moves(r, x), active' = active
  PROVE  KeyInv'
<1> USE DEF KeyInv, Moves
<1>1. /\ DOMAIN run' = Runs /\ run'[r] = x
      /\ \A q \in Runs : q # r => run'[q] = run[q]
  OBVIOUS
<1>2. \A q \in Runs : DOMAIN run'[q] = RunFields
  BY <1>1
<1>3. \A q \in Runs : run'[q].pc \in Executing => run[q].pc \in Executing /\ run'[q].key = run[q].key
  BY <1>1
<1>4. Claimed'
  BY <1>3 DEF Claimed
<1>5. OneRunPerKey'
  BY <1>3 DEF OneRunPerKey
<1> QED BY <1>1, <1>2, <1>4, <1>5

\* An id that is free belongs to no call that executes.
LEMMA ClaimKeeps ==
  ASSUME KeyInv, NEW r \in Runs, Claim(r)
  PROVE  KeyInv'
<1>1. run[r].pc = "checked" /\ DOMAIN run[r] = RunFields /\ DOMAIN run = Runs
  BY DEF KeyInv, Claim
<1>2. CASE run[r].key \in active
  <2>1. Moves(r, Over(run[r], "done"))
    BY <1>1, <1>2 DEF Claim, Moves, Over, NewRun, RunFields, Executing
  <2> QED BY <1>2, <2>1, MoveKeeps DEF Claim
<1>3. CASE run[r].key \notin active
  <2>1. /\ active' = active \union {run[r].key}
        /\ DOMAIN run' = Runs /\ \A q \in Runs : DOMAIN run'[q] = RunFields
        /\ \A q \in Runs : run'[q].key = run[q].key
        /\ \A q \in Runs : q # r => run'[q].pc = run[q].pc
    BY <1>1, <1>3 DEF Claim, KeyInv, RunFields
  <2>2. \A q \in Runs : run[q].pc \in Executing => run[q].key # run[r].key
    BY <1>3 DEF KeyInv, Claimed
  <2>3. Claimed'
    BY <2>1 DEF KeyInv, Claimed
  <2>4. OneRunPerKey'
    BY <2>1, <2>2 DEF KeyInv, OneRunPerKey
  <2> QED BY <2>1, <2>3, <2>4 DEF KeyInv
<1> QED BY <1>2, <1>3

\* The id given back is that of no other call that executes.
LEMMA UnclaimKeeps ==
  ASSUME KeyInv, NEW r \in Runs, Unclaim(r)
  PROVE  KeyInv'
<1>1. /\ active' = active \ {run[r].key}
      /\ DOMAIN run' = Runs /\ \A q \in Runs : DOMAIN run'[q] = RunFields
      /\ run[r].pc \in Executing /\ run'[r].pc \notin Executing
      /\ \A q \in Runs : q # r => run'[q] = run[q]
  BY DEF Unclaim, KeyInv, RunFields, Over, NewRun, Executing
<1>2. \A q \in Runs : q # r /\ run[q].pc \in Executing => run[q].key # run[r].key
  BY <1>1 DEF KeyInv, OneRunPerKey
<1>3. Claimed'
  BY <1>1, <1>2 DEF KeyInv, Claimed
<1>4. OneRunPerKey'
  BY <1>1 DEF KeyInv, OneRunPerKey
<1> QED BY <1>1, <1>3, <1>4 DEF KeyInv

\* A step that is over leaves the call executing, under the same id.
LEMMA PassedShape ==
  ASSUME NEW x, NEW seq, DOMAIN x = RunFields
  PROVE  /\ DOMAIN Passed(x, seq) = RunFields
         /\ Passed(x, seq).pc \in {"succeeded", "step"} /\ Passed(x, seq).key = x.key
  BY DEF Passed, RunFields

\* The steps between Claim and Unclaim, and those before and after.
LEMMA CallSteps ==
  ASSUME KeyInv, NEW r \in Runs,
         \/ CheckCompleted(r) \/ Publish(r) \/ Abandon(r)
         \/ Subscribe(r) \/ ReadCursor(r) \/ CheckPort(r)
         \/ BeginStep(r) \/ HostWrites(r) \/ SendReturns(r) \/ StepFails(r)
         \/ Expect(r) \/ ExpectPort(r)
  PROVE  active' = active /\ \E x : Moves(r, x)
<1>0. DOMAIN run[r] = RunFields
  BY DEF KeyInv
<1>1. ASSUME NEW pc \in Executing, run[r].pc \in Executing, Goto(r, pc)
      PROVE  active' = active /\ \E x : Moves(r, x)
  <2>1. Moves(r, [run[r] EXCEPT !.pc = pc])
    BY <1>0, <1>1 DEF Goto, Moves, RunFields
  <2> QED BY <1>1, <2>1 DEF Goto
<1>2. ASSUME run[r].pc \in Executing, Pass(r)
      PROVE  active' = active /\ \E x : Moves(r, x)
  <2>1. Moves(r, Passed(run[r], run[r].seq))
    BY <1>0, <1>2, PassedShape DEF Pass, Moves, Executing
  <2> QED BY <1>2, <2>1 DEF Pass
<1>3. CASE CheckCompleted(r)
  <2>1. PICK x : run' = [run EXCEPT ![r] = x] /\ DOMAIN x = RunFields /\ x.pc \in {"done", "checked"}
    <3>1. PICK k \in Keys, w \in Workflows :
            run' = [run EXCEPT ![r] =
              IF completed[k] # None THEN [run[r] EXCEPT !.pc = "done", !.key = k, !.answer = completed[k]]
              ELSE [run[r] EXCEPT !.pc = "checked", !.key = k, !.steps = w]]
      BY <1>3 DEF CheckCompleted
    <3> DEFINE ended == [run[r] EXCEPT !.pc = "done", !.key = k, !.answer = completed[k]]
               begun == [run[r] EXCEPT !.pc = "checked", !.key = k, !.steps = w]
    <3>2. DOMAIN ended = RunFields /\ ended.pc = "done" /\ DOMAIN begun = RunFields /\ begun.pc = "checked"
      BY <1>0 DEF RunFields
    <3>3. run' = [run EXCEPT ![r] = ended] \/ run' = [run EXCEPT ![r] = begun]
      BY <3>1
    <3> HIDE DEF ended, begun
    <3> QED BY <3>2, <3>3
  <2>2. Moves(r, x)
    BY <2>1 DEF Moves, Executing
  <2> QED BY <1>3, <2>2 DEF CheckCompleted
<1>4. CASE Publish(r)
  <2>1. Moves(r, [run[r] EXCEPT !.pc = "done", !.answer = r])
    BY <1>0, <1>4 DEF Publish, Moves, RunFields, Executing
  <2> QED BY <1>4, <2>1 DEF Publish
<1>5. CASE Abandon(r)
  <2>1. Moves(r, Over(run[r], "gone"))
    BY <1>5 DEF Abandon, Moves, Over, NewRun, RunFields, Executing
  <2> QED BY <1>5, <2>1 DEF Abandon
<1>6. CASE Subscribe(r)
  <2>1. Moves(r, [run[r] EXCEPT !.pc = "subscribed", !.next = Newest + 1, !.seq = Newest, !.start = Newest])
    BY <1>0, <1>6 DEF Subscribe, Moves, RunFields, Executing
  <2> QED BY <1>6, <2>1 DEF Subscribe
<1>7. CASE ReadCursor(r)
  <2>1. Moves(r, [run[r] EXCEPT !.pc = "cursor", !.epoch = link.epoch])
    BY <1>0, <1>7 DEF ReadCursor, Moves, RunFields, Executing
  <2> QED BY <1>7, <2>1 DEF ReadCursor
<1>8. CASE CheckPort(r) \/ ExpectPort(r) \/ StepFails(r)
  <2>1. run[r].pc \in Executing /\ \E pc \in Executing : Goto(r, pc)
    BY <1>8 DEF CheckPort, ExpectPort, StepFails, Executing
  <2> QED BY <2>1, <1>1
<1>9. CASE BeginStep(r)
  <2>1. run[r].pc \in Executing /\ (Pass(r) \/ \E pc \in Executing : Goto(r, pc))
    BY <1>9 DEF BeginStep, Executing
  <2> QED BY <2>1, <1>1, <1>2
<1>10. CASE HostWrites(r)
  <2>1. Moves(r, [run[r] EXCEPT !.pc = "sent"])
    BY <1>0, <1>10 DEF HostWrites, Moves, RunFields, Executing
  <2> QED BY <1>10, <2>1 DEF HostWrites
<1>11. CASE SendReturns(r)
  BY <1>2, <1>11 DEF SendReturns, Executing
<1>12. CASE Expect(r)
  <2>1. run[r].pc \in Executing /\ active' = active
    BY <1>12 DEF Expect, Executing
  <2>2. ASSUME NEW matched, NEW seq, NEW next
        PROVE  /\ Moves(r, [run[r] EXCEPT !.pc = "failed"])
                  \/ run' # [run EXCEPT ![r] = [run[r] EXCEPT !.pc = "failed"]]
               /\ Moves(r, [Passed(run[r], seq) EXCEPT !.next = next])
                  \/ run' # [run EXCEPT ![r] = [Passed(run[r], seq) EXCEPT !.next = next]]
               /\ Moves(r, [run[r] EXCEPT !.pc = "port", !.matched = matched, !.next = next, !.seq = seq])
                  \/ run' # [run EXCEPT ![r] = [run[r] EXCEPT !.pc = "port", !.matched = matched,
                                                              !.next = next, !.seq = seq]]
    BY <1>0, <2>1, PassedShape DEF Moves, RunFields, Executing
  <2>3. \E matched, seq, next :
           \/ run' = [run EXCEPT ![r] = [run[r] EXCEPT !.pc = "failed"]]
           \/ run' = [run EXCEPT ![r] = [Passed(run[r], seq) EXCEPT !.next = next]]
           \/ run' = [run EXCEPT ![r] = [run[r] EXCEPT !.pc = "port", !.matched = matched,
                                                       !.next = next, !.seq = seq]]
    BY <1>12 DEF Expect
  <2> QED BY <2>1, <2>2, <2>3
<1> QED BY <1>3, <1>4, <1>5, <1>6, <1>7, <1>8, <1>9, <1>10, <1>11, <1>12

\* Every step keeps the invariant.
LEMMA KeyNext ==
  ASSUME KeyInv, [Next]_workflowVars
  PROVE  KeyInv'
<1>1. CASE UNCHANGED <<run, active>>
  BY <1>1 DEF KeyInv, Claimed, OneRunPerKey
<1>2. CASE Connects \/ Disconnects \/ RecordLink \/ DeviceRx \/ ReadFails \/ ReadEpoch \/ RecordControl
  BY <1>1, <1>2 DEF Connects, Disconnects, RecordLink, DeviceRx, ReadFails, ReadEpoch, RecordControl, broker, runner
<1>3. ASSUME NEW r \in Runs, RunStep(r) \/ HostWrites(r) \/ StepFails(r) \/ Abandon(r)
      PROVE  KeyInv'
  <2>1. CASE Claim(r)
    BY <2>1, ClaimKeeps
  <2>2. CASE Unclaim(r)
    BY <2>2, UnclaimKeeps
  <2>3. CASE ~(Claim(r) \/ Unclaim(r))
    BY <1>3, <2>3, CallSteps, MoveKeeps DEF RunStep
  <2> QED BY <2>1, <2>2, <2>3
<1> QED BY <1>1, <1>2, <1>3 DEF Next, workflowVars

\* No two runs of a request id execute at the same time ("a concurrent duplicate
\* is rejected").
THEOREM RunsAreAlone == Spec => []OneRunPerKey
<1>1. KeyInv => OneRunPerKey
  BY DEF KeyInv
<1> QED BY <1>1, KeyInit, KeyNext, PTL DEF Spec

-----------------------------------------------------------------------------
(* Sets of numbers                                                         *)

\* An initial segment is finite.
LEMMA IntervalFinite ==
  ASSUME NEW n \in Nat
  PROVE  0 .. n \in FiniteSubsetsOf(Nat)
  BY FS_Interval DEF FiniteSubsetsOf

\* A set of numbers has a least one: of its initial segments one is the smallest.
LEMMA Least ==
  ASSUME NEW T \in SUBSET Nat, T # {}
  PROVE  \E n \in T : \A m \in T : n <= m
<1> DEFINE R == StrictSubsetOrdering(Nat)
           B == {0 .. n : n \in T}
<1>1. IsWellFoundedOn(R, FiniteSubsetsOf(Nat))
  BY FS_StrictSubsetOrderingWellFounded
<1>2. B # {} /\ B \subseteq FiniteSubsetsOf(Nat)
  BY IntervalFinite
<1>3. PICK s \in B : \A t \in B : ~(<<t, s>> \in R)
  <2> HIDE DEF R, B
  <2> QED BY <1>1, <1>2, WFMin
<1>4. PICK n \in T : s = 0 .. n
  OBVIOUS
<1>5. ASSUME NEW m \in T, m < n
      PROVE  FALSE
  <2>1. 0 .. m \in B
    OBVIOUS
  <2>2. 0 .. m \subseteq 0 .. n /\ 0 .. m # 0 .. n /\ 0 .. m \in SUBSET Nat /\ 0 .. n \in SUBSET Nat
    BY <1>5
  <2>3. <<0 .. m, 0 .. n>> \in R
    BY <2>2 DEF StrictSubsetOrdering
  <2> QED BY <1>3, <1>4, <2>1, <2>3
<1> QED BY <1>5

\* k is the greatest number of S.
Greatest(S, k) == k \in S /\ \A j \in S : j <= k

\* A set of numbers that has a bound and is not empty has one: its bound less the
\* least distance.
LEMMA HasGreatest ==
  ASSUME NEW n \in Nat, NEW S \in SUBSET (0 .. n), S # {}
  PROVE  \E k : Greatest(S, k)
<1> DEFINE T == {d \in 0 .. n : n - d \in S}
<1>1. PICK k : k \in S
  OBVIOUS
<1>2. n - k \in T
  BY <1>1
<1>3. PICK d \in T : \A e \in T : d <= e
  <2>1. T \in SUBSET Nat /\ T # {}
    BY <1>2
  <2> HIDE DEF T
  <2> QED BY <2>1, Least
<1>4. d \in 0 .. n /\ n - d \in S
  OBVIOUS
<1>5. ASSUME NEW j \in S
      PROVE  j <= n - d
  <2>1. j \in 0 .. n /\ n - j \in T
    BY <1>5
  <2>2. d <= n - j
    BY <1>3, <2>1
  <2> HIDE DEF T
  <2> QED BY <1>4, <2>1, <2>2
<1>6. Greatest(S, n - d)
  BY <1>4, <1>5 DEF Greatest
<1> HIDE DEF T
<1> QED BY <1>6

\* There is one only.
LEMMA OneGreatest ==
  ASSUME NEW S \in SUBSET Nat, NEW j, NEW k, Greatest(S, j), Greatest(S, k)
  PROVE  j = k
  BY DEF Greatest

-----------------------------------------------------------------------------
(* Matching                                                                *)

\* The first k elements of p are the last k of the first n of s.
Ends(p, k, s, n) == k <= n /\ \A j \in 1 .. k : p[j] = s[n - k + j]

\* What of p can be matched at n, up to a length.
Overlaps(p, longest, s, n) == {k \in 0 .. longest : Ends(p, k, s, n)}

\* The table has, for each i up to n, the longest proper prefix of p that ends at i.
TableOK(p, table, n) == \A i \in 1 .. n : Greatest(Overlaps(p, i - 1, p, i), table[i])

\* Where a match of length k can be continued with a byte: at itself, or at a shorter one.
Continuing(p, k, byte) ==
  {j \in 0 .. k : (j = k \/ Ends(p, j, p, k)) /\ (j = 0 \/ p[j + 1] = byte)}

\* A shorter match at the same place is one of the matched prefix with itself.
LEMMA EndsInside ==
  ASSUME NEW p, NEW s, NEW n \in Nat, NEW k \in Nat, NEW j \in 0 .. k, Ends(p, k, s, n)
  PROVE  Ends(p, j, s, n) <=> Ends(p, j, p, k)
<1>1. ASSUME NEW i \in 1 .. j
      PROVE  p[k - j + i] = s[n - j + i]
  <2>1. k - j + i \in 1 .. k /\ n - k + (k - j + i) = n - j + i
    BY <1>1
  <2>2. p[k - j + i] = s[n - k + (k - j + i)]
    BY <2>1 DEF Ends
  <2> QED BY <2>1, <2>2
<1>2. j <= n /\ j <= k
  BY DEF Ends
<1> QED BY <1>1, <1>2 DEF Ends

\* One byte more.
LEMMA EndsNext ==
  ASSUME NEW p, NEW s, NEW n \in Nat, NEW k \in Nat
  PROVE  Ends(p, k + 1, s, n + 1) <=> Ends(p, k, s, n) /\ p[k + 1] = s[n + 1]
<1>1. ASSUME Ends(p, k + 1, s, n + 1)
      PROVE  Ends(p, k, s, n) /\ p[k + 1] = s[n + 1]
  <2>1. k <= n
    BY <1>1 DEF Ends
  <2>2. ASSUME NEW j \in 1 .. k + 1
        PROVE  p[j] = s[n - k + j]
    <3>1. p[j] = s[(n + 1) - (k + 1) + j]
      BY <1>1 DEF Ends
    <3>2. (n + 1) - (k + 1) + j = n - k + j
      OBVIOUS
    <3> QED BY <3>1, <3>2
  <2>3. k + 1 \in 1 .. k + 1 /\ n - k + (k + 1) = n + 1 /\ 1 .. k \subseteq 1 .. k + 1
    OBVIOUS
  <2>4. p[k + 1] = s[n + 1]
    BY <2>2, <2>3
  <2> QED BY <2>1, <2>2, <2>3, <2>4 DEF Ends
<1>2. ASSUME Ends(p, k, s, n), p[k + 1] = s[n + 1]
      PROVE  Ends(p, k + 1, s, n + 1)
  <2>1. k + 1 <= n + 1
    BY <1>2 DEF Ends
  <2>2. ASSUME NEW j \in 1 .. k + 1
        PROVE  p[j] = s[(n + 1) - (k + 1) + j]
    <3>1. (n + 1) - (k + 1) + j = n - k + j /\ (j \in 1 .. k \/ j = k + 1)
      OBVIOUS
    <3>2. j = k + 1 => n - k + j = n + 1
      OBVIOUS
    <3>3. p[j] = s[n - k + j]
      BY <1>2, <3>1, <3>2 DEF Ends
    <3> QED BY <3>1, <3>3
  <2> QED BY <2>1, <2>2 DEF Ends
<1> QED BY <1>1, <1>2

\* A match can be continued where it is, or at 0, or else wherever its border can.
LEMMA ContinuesHere ==
  ASSUME NEW p, NEW k \in Nat, NEW byte, k = 0 \/ p[k + 1] = byte
  PROVE  Greatest(Continuing(p, k, byte), k)
  BY DEF Greatest, Continuing

LEMMA ContinuesBelow ==
  ASSUME NEW p, NEW k \in Nat, NEW byte, k # 0, p[k + 1] # byte,
         NEW border, Greatest(Overlaps(p, k - 1, p, k), border)
  PROVE  Continuing(p, k, byte) = Continuing(p, border, byte)
<1>1. border \in 0 .. k - 1 /\ Ends(p, border, p, k)
  BY DEF Greatest, Overlaps
<1>2. \A j \in 0 .. k - 1 : Ends(p, j, p, k) => j <= border
  BY DEF Greatest, Overlaps
<1>3. \A j \in 0 .. border : Ends(p, j, p, k) <=> Ends(p, j, p, border)
  BY <1>1, EndsInside
<1>4. ASSUME NEW j \in Continuing(p, k, byte)
      PROVE  j \in Continuing(p, border, byte)
  <2>1. j \in 0 .. k /\ (j = k \/ Ends(p, j, p, k)) /\ (j = 0 \/ p[j + 1] = byte)
    BY DEF Continuing
  <2>2. j \in 0 .. k - 1 /\ Ends(p, j, p, k)
    <3>1. j # k
      BY <2>1
    <3> QED BY <2>1, <3>1
  <2>3. j \in 0 .. border
    BY <1>1, <1>2, <2>2
  <2> QED BY <1>3, <2>1, <2>2, <2>3 DEF Continuing
<1>5. ASSUME NEW j \in Continuing(p, border, byte)
      PROVE  j \in Continuing(p, k, byte)
  <2>1. j \in 0 .. border /\ (j = border \/ Ends(p, j, p, border)) /\ (j = 0 \/ p[j + 1] = byte)
    BY DEF Continuing
  <2>2. Ends(p, j, p, k) /\ j \in 0 .. k
    BY <1>1, <1>3, <2>1
  <2> QED BY <2>1, <2>2 DEF Continuing
<1> QED BY <1>4, <1>5

LEMMA ContinuesSomewhere ==
  ASSUME NEW p, NEW k \in Nat, NEW byte
  PROVE  Continuing(p, k, byte) \in SUBSET (0 .. k) /\ Continuing(p, k, byte) # {}
<1>1. 0 \in Continuing(p, k, byte)
  BY DEF Continuing, Ends
<1> QED BY <1>1 DEF Continuing

-----------------------------------------------------------------------------
(* Falling back                                                            *)

\* Fall, as the function it is a value of.
Falls(back, p, table, k, byte) ==
  back = [j \in 0 .. k |-> IF j = 0 \/ p[j + 1] = byte THEN j ELSE back[table[j]]]

LEMMA FallIsFalls ==
  ASSUME NEW p, NEW table, NEW k, NEW byte
  PROVE  Fall(p, table, k, byte) = (CHOOSE back : Falls(back, p, table, k, byte))[k]
  BY ZenonT(30) DEF Fall, Falls

\* Whatever satisfies the equation has the greatest length that can be continued: of
\* the matches where it had not, the shortest would have a border where it had not.
LEMMA FallsGreatest ==
  ASSUME NEW p, NEW table, NEW k \in Nat, NEW byte, TableOK(p, table, k),
         NEW back, Falls(back, p, table, k, byte)
  PROVE  Greatest(Continuing(p, k, byte), back[k])
<1> DEFINE Bad == {j \in 0 .. k : ~Greatest(Continuing(p, j, byte), back[j])}
<1>1. \A j \in 0 .. k : back[j] = IF j = 0 \/ p[j + 1] = byte THEN j ELSE back[table[j]]
  BY DEF Falls
<1>2. ASSUME Bad # {}
      PROVE  FALSE
  <2>1. PICK j \in Bad : \A i \in Bad : j <= i
    <3>1. Bad \in SUBSET Nat
      OBVIOUS
    <3> HIDE DEF Bad
    <3> QED BY <1>2, <3>1, Least
  <2>2. j \in 0 .. k /\ j \in Nat /\ ~Greatest(Continuing(p, j, byte), back[j])
    OBVIOUS
  <2>3. j # 0 /\ p[j + 1] # byte
    <3>1. CASE j = 0 \/ p[j + 1] = byte
      <4>1. Greatest(Continuing(p, j, byte), j)
        BY <2>2, <3>1, ContinuesHere
      <4> QED BY <1>1, <2>2, <3>1, <4>1
    <3> QED BY <3>1
  <2>4. Greatest(Overlaps(p, j - 1, p, j), table[j])
    <3>1. j \in 1 .. k
      BY <2>2, <2>3
    <3> QED BY <3>1 DEF TableOK
  <2>5. table[j] \in 0 .. k /\ table[j] < j
    BY <2>2, <2>4 DEF Greatest, Overlaps
  <2>6. table[j] \notin Bad
    <3> HIDE DEF Bad
    <3> QED BY <2>1, <2>2, <2>5
  <2>7. Greatest(Continuing(p, table[j], byte), back[table[j]])
    BY <2>5, <2>6
  <2>8. Continuing(p, j, byte) = Continuing(p, table[j], byte)
    BY <2>2, <2>3, <2>4, ContinuesBelow
  <2>9. back[j] = back[table[j]]
    BY <1>1, <2>2, <2>3
  <2> QED BY <2>2, <2>7, <2>8, <2>9
<1>3. k \in 0 .. k
  OBVIOUS
<1> QED BY <1>2, <1>3

\* There is such a function: the one of the greatest lengths.
LEMMA CanFall ==
  ASSUME NEW p, NEW table, NEW k \in Nat, NEW byte, TableOK(p, table, k)
  PROVE  \E back : Falls(back, p, table, k, byte)
<1> DEFINE best(j) == CHOOSE i : Greatest(Continuing(p, j, byte), i)
           back == [j \in 0 .. k |-> best(j)]
<1>1. ASSUME NEW j \in 0 .. k
      PROVE  Greatest(Continuing(p, j, byte), best(j))
  <2>1. j \in Nat
    OBVIOUS
  <2>2. \E i : Greatest(Continuing(p, j, byte), i)
    BY <2>1, ContinuesSomewhere, HasGreatest
  <2> QED BY <2>2
<1>2. ASSUME NEW j \in 0 .. k
      PROVE  best(j) = IF j = 0 \/ p[j + 1] = byte THEN j ELSE best(table[j])
  <2>1. j \in Nat /\ Continuing(p, j, byte) \in SUBSET Nat
    BY ContinuesSomewhere
  <2>2. CASE j = 0 \/ p[j + 1] = byte
    <3>1. Greatest(Continuing(p, j, byte), j)
      BY <2>1, <2>2, ContinuesHere
    <3>2. best(j) = j
      <4>1. Greatest(Continuing(p, j, byte), best(j))
        BY <1>1
      <4> HIDE DEF best
      <4> QED BY <2>1, <3>1, <4>1, OneGreatest
    <3> HIDE DEF best
    <3> QED BY <2>2, <3>2
  <2>3. CASE j # 0 /\ p[j + 1] # byte
    <3>1. Greatest(Overlaps(p, j - 1, p, j), table[j])
      BY <2>3 DEF TableOK
    <3>2. Continuing(p, j, byte) = Continuing(p, table[j], byte)
      BY <2>1, <2>3, <3>1, ContinuesBelow
    <3>3. best(j) = best(table[j])
      BY <3>2
    <3> HIDE DEF best
    <3> QED BY <2>3, <3>3
  <2> HIDE DEF best
  <2> QED BY <2>2, <2>3
<1>3. \A j \in 0 .. k : j # 0 => table[j] \in 0 .. k
  <2> SUFFICES ASSUME NEW j \in 0 .. k, j # 0
               PROVE  table[j] \in 0 .. k
    OBVIOUS
  <2>1. Greatest(Overlaps(p, j - 1, p, j), table[j])
    BY DEF TableOK
  <2> QED BY <2>1 DEF Greatest, Overlaps
<1> HIDE DEF best
<1>4. \A j \in 0 .. k : best(j) = IF j = 0 \/ p[j + 1] = byte THEN j ELSE back[table[j]]
  BY <1>2, <1>3
<1>5. Falls(back, p, table, k, byte)
  BY <1>4 DEF Falls
<1> HIDE DEF back
<1> QED BY <1>5

\* The fall ends at the longest match that can be continued with the byte, or at 0.
LEMMA FallIsGreatest ==
  ASSUME NEW p, NEW table, NEW k \in Nat, NEW byte, TableOK(p, table, k)
  PROVE  Greatest(Continuing(p, k, byte), Fall(p, table, k, byte))
<1> DEFINE back == CHOOSE f : Falls(f, p, table, k, byte)
<1>1. Falls(back, p, table, k, byte)
  BY CanFall
<1>2. Fall(p, table, k, byte) = back[k]
  BY FallIsFalls
<1> HIDE DEF back
<1> QED BY <1>1, <1>2, FallsGreatest

\* So a byte takes the longest match to the longest match.
LEMMA AdvanceIsGreatest ==
  ASSUME NEW p, NEW table, NEW longest \in Nat, NEW s, NEW n \in Nat,
         NEW k, Greatest(Overlaps(p, longest, s, n), k), TableOK(p, table, k)
  PROVE  Greatest(Overlaps(p, longest + 1, s, n + 1), Advance(p, table, k, s[n + 1]))
<1> DEFINE byte == s[n + 1]
           kept == Fall(p, table, k, byte)
           next == Advance(p, table, k, byte)
<1>1. k \in 0 .. longest /\ k \in Nat /\ Ends(p, k, s, n)
  BY DEF Greatest, Overlaps
<1>2. \A j \in 0 .. longest : Ends(p, j, s, n) => j <= k
  BY DEF Greatest, Overlaps
<1>3. Greatest(Continuing(p, k, byte), kept)
  BY <1>1, FallIsGreatest
<1>4. next = IF p[kept + 1] = byte THEN kept + 1 ELSE kept
  BY DEF Advance
<1> HIDE DEF kept, next, byte
<1>5. kept \in 0 .. k /\ kept \in Nat /\ (kept = k \/ Ends(p, kept, p, k)) /\ (kept = 0 \/ p[kept + 1] = byte)
  BY <1>1, <1>3 DEF Greatest, Continuing
<1>6. Ends(p, kept, s, n)
  BY <1>1, <1>5, EndsInside
<1>7. ASSUME NEW j \in 0 .. longest + 1, Ends(p, j, s, n + 1)
      PROVE  j <= next
  <2>1. CASE j = 0
    BY <1>4, <1>5, <2>1
  <2>2. CASE j # 0
    <3> DEFINE i == j - 1
    <3>1. i \in 0 .. longest /\ i \in Nat /\ j = i + 1
      BY <2>2
    <3> HIDE DEF i
    <3>2. Ends(p, i, s, n) /\ p[i + 1] = byte
      BY <1>7, <3>1, EndsNext DEF byte
    <3>3. i \in 0 .. k
      BY <1>1, <1>2, <3>1, <3>2
    <3>4. i \in Continuing(p, k, byte)
      BY <1>1, <3>2, <3>3, EndsInside DEF Continuing
    <3>5. i <= kept
      BY <1>3, <3>4 DEF Greatest
    <3>6. p[kept + 1] = byte
      BY <1>5, <3>1, <3>2, <3>5
    <3> QED BY <1>4, <1>5, <3>1, <3>5, <3>6
  <2> QED BY <2>1, <2>2
<1>8. next \in 0 .. longest + 1 /\ Ends(p, next, s, n + 1)
  <2>1. CASE p[kept + 1] = byte
    <3>1. Ends(p, kept + 1, s, n + 1)
      BY <1>5, <1>6, <2>1, EndsNext DEF byte
    <3> QED BY <1>1, <1>4, <1>5, <2>1, <3>1
  <2>2. CASE p[kept + 1] # byte
    <3>1. kept = 0 /\ next = 0
      BY <1>4, <1>5, <2>2
    <3> QED BY <3>1 DEF Ends
  <2> QED BY <2>1, <2>2
<1>9. Greatest(Overlaps(p, longest + 1, s, n + 1), next)
  BY <1>7, <1>8 DEF Greatest, Overlaps
<1> QED BY <1>9 DEF next, byte

-----------------------------------------------------------------------------
(* The prefix table                                                        *)

\* PrefixTable, as an equation.
IsTable(table, p) ==
  table = [i \in 1 .. Len(p) |-> IF i = 1 THEN 0 ELSE Advance(p, table, table[i - 1], p[i])]

LEMMA PrefixTableIsTable ==
  ASSUME NEW p
  PROVE  PrefixTable(p) = CHOOSE table : IsTable(table, p)
  BY ZenonT(30) DEF PrefixTable, IsTable

\* One entry follows from those before it.
LEMMA NextEntry ==
  ASSUME NEW p, NEW table, NEW i \in Nat, i > 1, TableOK(p, table, i - 1)
  PROVE  Greatest(Overlaps(p, i - 1, p, i), Advance(p, table, table[i - 1], p[i]))
<1> DEFINE n == i - 1
           longest == n - 1
           k == table[n]
<1>1. n \in Nat /\ longest \in Nat /\ n \in 1 .. n /\ longest + 1 = i - 1 /\ n + 1 = i
  OBVIOUS
<1>2. Greatest(Overlaps(p, longest, p, n), k)
  BY <1>1 DEF TableOK
<1> HIDE DEF n, longest, k
<1>3. k \in 0 .. longest
  BY <1>2 DEF Greatest, Overlaps
<1>4. TableOK(p, table, n)
  BY DEF n
<1>5. TableOK(p, table, k)
  <2>1. k \in Nat /\ 1 .. k \subseteq 1 .. n
    BY <1>1, <1>3 DEF longest
  <2> QED BY <1>4, <2>1 DEF TableOK
<1>6. Greatest(Overlaps(p, longest + 1, p, n + 1), Advance(p, table, k, p[n + 1]))
  BY <1>1, <1>2, <1>5, AdvanceIsGreatest
<1>7. Advance(p, table, k, p[n + 1]) = Advance(p, table, table[i - 1], p[i])
  BY <1>1 DEF k, n
<1> QED BY <1>1, <1>6, <1>7

\* The first entry.
LEMMA FirstEntry ==
  ASSUME NEW p
  PROVE  Greatest(Overlaps(p, 0, p, 1), 0)
  BY DEF Greatest, Overlaps, Ends

\* What satisfies the equation has the longest borders.
LEMMA TableIsOK ==
  ASSUME NEW p, Len(p) \in Nat, NEW table, IsTable(table, p)
  PROVE  TableOK(p, table, Len(p))
<1> DEFINE m == Len(p)
           Bad == {i \in 1 .. m : ~Greatest(Overlaps(p, i - 1, p, i), table[i])}
<1>1. \A i \in 1 .. m : table[i] = IF i = 1 THEN 0 ELSE Advance(p, table, table[i - 1], p[i])
  BY DEF IsTable
<1> HIDE DEF m
<1>2. m \in Nat
  BY DEF m
<1>3. ASSUME Bad # {}
      PROVE  FALSE
  <2>1. PICK i \in Bad : \A j \in Bad : i <= j
    <3>1. Bad \in SUBSET Nat
      BY <1>2
    <3> HIDE DEF Bad
    <3> QED BY <1>3, <3>1, Least
  <2>2. i \in 1 .. m /\ i \in Nat /\ ~Greatest(Overlaps(p, i - 1, p, i), table[i])
    BY <1>2
  <2>3. CASE i = 1
    <3>1. table[i] = 0 /\ i - 1 = 0
      BY <1>1, <2>2, <2>3
    <3> QED BY <2>2, <2>3, <3>1, FirstEntry
  <2>4. CASE i # 1
    <3>1. \A j \in 1 .. i - 1 : j \in 1 .. m /\ j < i
      BY <1>2, <2>2
    <3>2. \A j \in 1 .. i - 1 : j \notin Bad
      <4> HIDE DEF Bad
      <4> QED BY <2>1, <2>2, <3>1
    <3>3. \A j \in 1 .. i - 1 : Greatest(Overlaps(p, j - 1, p, j), table[j])
      BY <3>1, <3>2
    <3>4. TableOK(p, table, i - 1)
      BY <3>3 DEF TableOK
    <3>5. Greatest(Overlaps(p, i - 1, p, i), Advance(p, table, table[i - 1], p[i]))
      <4>1. i > 1
        BY <2>2, <2>4
      <4> HIDE DEF Bad
      <4> QED BY <2>2, <3>4, <4>1, NextEntry
    <3>6. table[i] = Advance(p, table, table[i - 1], p[i])
      BY <1>1, <2>2, <2>4
    <3> HIDE DEF Bad
    <3> QED BY <2>2, <3>5, <3>6
  <2> QED BY <2>3, <2>4
<1>4. \A i \in 1 .. m : Greatest(Overlaps(p, i - 1, p, i), table[i])
  BY <1>3
<1> QED BY <1>4 DEF TableOK, m

\* There is such a table: the one of the longest borders.
LEMMA HasTable ==
  ASSUME NEW p, Len(p) \in Nat
  PROVE  \E table : IsTable(table, p)
<1> DEFINE m == Len(p)
           border(i) == CHOOSE k : Greatest(Overlaps(p, i - 1, p, i), k)
           table == [i \in 1 .. m |-> border(i)]
<1>1. \A i \in 1 .. m : table[i] = border(i)
  OBVIOUS
<1>2. ASSUME NEW i \in 1 .. m
      PROVE  Greatest(Overlaps(p, i - 1, p, i), border(i))
  <2> DEFINE S == Overlaps(p, i - 1, p, i)
  <2>1. i - 1 \in Nat /\ S \in SUBSET (0 .. i - 1) /\ 0 \in S
    BY DEF Overlaps, Ends
  <2>2. \E k : Greatest(S, k)
    <3> HIDE DEF S
    <3> QED BY <2>1, HasGreatest
  <2> QED BY <2>2
<1> HIDE DEF border
<1>3. \A i \in 1 .. m : Greatest(Overlaps(p, i - 1, p, i), table[i])
  BY <1>1, <1>2
<1>4. ASSUME NEW i \in 1 .. m
      PROVE  border(i) = IF i = 1 THEN 0 ELSE Advance(p, table, table[i - 1], p[i])
  <2> DEFINE S == Overlaps(p, i - 1, p, i)
             t == IF i = 1 THEN 0 ELSE Advance(p, table, table[i - 1], p[i])
  <2>1. S \in SUBSET Nat
    BY DEF Overlaps
  <2>2. Greatest(S, t)
    <3>1. CASE i = 1
      <4>1. i - 1 = 0 /\ t = 0
        BY <3>1
      <4> HIDE DEF t
      <4> QED BY <3>1, <4>1, FirstEntry
    <3>2. CASE i # 1
      <4>1. i \in Nat /\ i > 1 /\ \A j \in 1 .. i - 1 : j \in 1 .. m
        BY <3>2 DEF m
      <4>2. TableOK(p, table, i - 1)
        <5> HIDE DEF table
        <5> QED BY <1>3, <4>1 DEF TableOK
      <4>3. Greatest(S, Advance(p, table, table[i - 1], p[i]))
        <5> HIDE DEF table
        <5> QED BY <4>1, <4>2, NextEntry
      <4> HIDE DEF table
      <4> QED BY <3>2, <4>3
    <3> QED BY <3>1, <3>2
  <2>3. Greatest(S, border(i))
    BY <1>2
  <2> HIDE DEF S, t
  <2>4. border(i) = t
    BY <2>1, <2>2, <2>3, OneGreatest
  <2> QED BY <2>4 DEF t
<1>5. table = [i \in 1 .. m |-> IF i = 1 THEN 0 ELSE Advance(p, table, table[i - 1], p[i])]
  BY <1>4
<1>6. IsTable(table, p)
  BY <1>5 DEF IsTable
<1> HIDE DEF table
<1> QED BY <1>6

\* prefix_table: the longest border of every prefix.
LEMMA PrefixTableOK ==
  ASSUME NEW p, Len(p) \in Nat
  PROVE  TableOK(p, PrefixTable(p), Len(p))
<1> DEFINE table == CHOOSE t : IsTable(t, p)
<1>1. IsTable(table, p)
  BY HasTable
<1>2. PrefixTable(p) = table
  BY PrefixTableIsTable
<1> HIDE DEF table
<1> QED BY <1>1, <1>2, TableIsOK

-----------------------------------------------------------------------------
(* Feeding                                                                 *)

\* Feed, as the function it is the last value of.
Feeds(after, p, table, k, data, n) ==
  after = [i \in 0 .. n |->
             IF i = 0 THEN k
             ELSE IF after[i - 1] = Len(p) THEN Len(p)
             ELSE Advance(p, table, after[i - 1], data[i])]

LEMMA FeedIsFeeds ==
  ASSUME NEW p, NEW k, NEW data
  PROVE  Feed(p, k, data) = (CHOOSE after : Feeds(after, p, PrefixTable(p), k, data, Len(data)))[Len(data)]
  BY ZenonT(30) DEF Feed, Feeds

\* There is such a function for every length.
LEMMA CanFeed ==
  ASSUME NEW p, NEW table, NEW k, NEW data, NEW n \in Nat
  PROVE  \E after : Feeds(after, p, table, k, data, n)
<1> DEFINE Bad == {m \in Nat : ~ \E after : Feeds(after, p, table, k, data, m)}
           then(x, i) == IF x = Len(p) THEN Len(p) ELSE Advance(p, table, x, data[i])
<1>0. ASSUME NEW after, NEW m
      PROVE  Feeds(after, p, table, k, data, m)
               <=> after = [i \in 0 .. m |-> IF i = 0 THEN k ELSE then(after[i - 1], i)]
  BY DEF Feeds
<1> HIDE DEF then
<1>1. SUFFICES ASSUME Bad # {} PROVE FALSE
  OBVIOUS
<1>2. PICK m \in Bad : \A j \in Bad : m <= j
  <2>1. Bad \in SUBSET Nat
    OBVIOUS
  <2> HIDE DEF Bad
  <2> QED BY <1>1, <2>1, Least
<1>3. m \in Nat /\ ~ \E after : Feeds(after, p, table, k, data, m)
  OBVIOUS
<1>4. CASE m = 0
  <2> DEFINE f == [i \in 0 .. m |-> k]
  <2>1. f = [i \in 0 .. m |-> IF i = 0 THEN k ELSE then(f[i - 1], i)]
    BY <1>4
  <2>2. Feeds(f, p, table, k, data, m)
    <3> HIDE DEF f
    <3> QED BY <1>0, <2>1
  <2> HIDE DEF f
  <2> QED BY <1>3, <2>2
<1>5. CASE m # 0
  <2>1. m - 1 \in Nat /\ m - 1 \notin Bad
    <3>1. m - 1 \in Nat /\ ~(m <= m - 1)
      BY <1>3, <1>5
    <3> HIDE DEF Bad
    <3> QED BY <1>2, <3>1
  <2>2. PICK f : Feeds(f, p, table, k, data, m - 1)
    BY <2>1
  <2> HIDE DEF Bad
  <2>3. f = [i \in 0 .. m - 1 |-> IF i = 0 THEN k ELSE then(f[i - 1], i)]
    BY <1>0, <2>2
  <2>4. \A i \in 0 .. m - 1 : f[i] = IF i = 0 THEN k ELSE then(f[i - 1], i)
    BY <2>3
  <2> DEFINE last == then(f[m - 1], m)
             g == [i \in 0 .. m |-> IF i = m THEN last ELSE f[i]]
  <2>5. DOMAIN g = 0 .. m /\ g[m] = last /\ (\A i \in 0 .. m - 1 : g[i] = f[i]) /\ g = [i \in 0 .. m |-> g[i]]
    <3> HIDE DEF last
    <3> QED BY <1>3, <1>5
  <2> HIDE DEF g
  <2>6. \A i \in 0 .. m : g[i] = IF i = 0 THEN k ELSE then(g[i - 1], i)
    <3> SUFFICES ASSUME NEW i \in 0 .. m
                 PROVE  g[i] = IF i = 0 THEN k ELSE then(g[i - 1], i)
      OBVIOUS
    <3>1. CASE i = m
      <4>1. m - 1 \in 0 .. m - 1
        BY <1>3, <1>5
      <4>2. g[m - 1] = f[m - 1]
        BY <2>5, <4>1
      <4> QED BY <1>5, <2>5, <3>1, <4>2
    <3>2. CASE i # m
      <4>1. i \in 0 .. m - 1 /\ (i # 0 => i - 1 \in 0 .. m - 1)
        BY <1>3, <3>2
      <4>2. g[i] = f[i] /\ (i # 0 => g[i - 1] = f[i - 1])
        BY <2>5, <4>1
      <4> QED BY <2>4, <4>1, <4>2
    <3> QED BY <3>1, <3>2
  <2>7. g = [i \in 0 .. m |-> IF i = 0 THEN k ELSE then(g[i - 1], i)]
    BY <2>5, <2>6
  <2>8. Feeds(g, p, table, k, data, m)
    BY <1>0, <2>7
  <2> QED BY <1>3, <2>8
<1> QED BY <1>4, <1>5

\* After n bytes of s without an occurrence of p, k is as much of p as can be matched.
Progress(p, s, n, k) ==
  /\ Greatest(Overlaps(p, Len(p) - 1, s, n), k)
  /\ \A j \in 0 .. n : ~Ends(p, Len(p), s, j)

\* After n bytes: an occurrence was found, or there is none and k is known.
Fed(p, s, n, k) ==
  IF k = Len(p) THEN \E j \in 0 .. n : Ends(p, Len(p), s, j) ELSE Progress(p, s, n, k)

\* One byte.
LEMMA FeedOne ==
  ASSUME NEW p, NEW m \in Nat \ {0}, m = Len(p), NEW s, NEW n \in Nat, NEW k, Progress(p, s, n, k)
  PROVE  Fed(p, s, n + 1, Advance(p, PrefixTable(p), k, s[n + 1]))
<1> DEFINE table == PrefixTable(p)
           next == Advance(p, table, k, s[n + 1])
           longest == m - 1
<1>1. longest \in Nat /\ longest + 1 = m
  OBVIOUS
<1>2. Greatest(Overlaps(p, longest, s, n), k) /\ \A j \in 0 .. n : ~Ends(p, m, s, j)
  BY DEF Progress
<1>3. TableOK(p, table, k)
  <2>1. TableOK(p, table, m)
    BY PrefixTableOK
  <2>2. k \in 0 .. longest
    BY <1>2 DEF Greatest, Overlaps
  <2>3. 1 .. k \subseteq 1 .. m
    BY <1>1, <2>2
  <2> HIDE DEF table, longest
  <2> QED BY <2>1, <2>3 DEF TableOK
<1> HIDE DEF table, longest
<1>4. Greatest(Overlaps(p, longest + 1, s, n + 1), next)
  BY <1>1, <1>2, <1>3, AdvanceIsGreatest
<1> HIDE DEF next
<1>5. next \in 0 .. m /\ Ends(p, next, s, n + 1) /\ \A j \in 0 .. m : Ends(p, j, s, n + 1) => j <= next
  BY <1>1, <1>4 DEF Greatest, Overlaps
<1>6. CASE next = m
  <2>1. n + 1 \in 0 .. n + 1 /\ Ends(p, m, s, n + 1)
    BY <1>5, <1>6
  <2>2. Fed(p, s, n + 1, next)
    BY <1>6, <2>1 DEF Fed
  <2> QED BY <2>2 DEF next, table
<1>7. CASE next # m
  <2>1. next \in 0 .. longest /\ \A j \in 0 .. longest : Ends(p, j, s, n + 1) => j <= next
    BY <1>1, <1>5, <1>7
  <2>2. Greatest(Overlaps(p, longest, s, n + 1), next)
    BY <1>5, <2>1 DEF Greatest, Overlaps
  <2>3. ~Ends(p, m, s, n + 1)
    <3>1. m \in 0 .. m /\ ~(m <= next)
      BY <1>5, <1>7
    <3> QED BY <1>5, <3>1
  <2>4. \A j \in 0 .. n + 1 : j \in 0 .. n \/ j = n + 1
    OBVIOUS
  <2>5. \A j \in 0 .. n + 1 : ~Ends(p, m, s, j)
    BY <1>2, <2>3, <2>4
  <2>6. Fed(p, s, n + 1, next)
    BY <1>7, <2>2, <2>5 DEF Fed, Progress, longest
  <2> QED BY <2>6 DEF next, table
<1> QED BY <1>6, <1>7

\* Some bytes: expect_bytes finds an occurrence if there is one, and only then.
LEMMA FeedIsRight ==
  ASSUME NEW p, NEW m \in Nat \ {0}, m = Len(p), NEW s, NEW n \in Nat, NEW k, Progress(p, s, n, k),
         NEW data, Len(data) \in Nat, \A i \in 1 .. Len(data) : data[i] = s[n + i]
  PROVE  Fed(p, s, n + Len(data), Feed(p, k, data))
<1> DEFINE l == Len(data)
           after == CHOOSE f : Feeds(f, p, PrefixTable(p), k, data, l)
           Bad == {i \in 0 .. l : ~Fed(p, s, n + i, after[i])}
<1>1. Feeds(after, p, PrefixTable(p), k, data, l)
  BY CanFeed
<1>2. Feed(p, k, data) = after[l]
  BY FeedIsFeeds
<1> HIDE DEF after
<1>3. \A i \in 0 .. l : after[i] = IF i = 0 THEN k
                                   ELSE IF after[i - 1] = Len(p) THEN Len(p)
                                   ELSE Advance(p, PrefixTable(p), after[i - 1], data[i])
  BY <1>1 DEF Feeds
<1>4. ASSUME Bad # {}
      PROVE  FALSE
  <2>1. PICK i \in Bad : \A j \in Bad : i <= j
    <3>1. Bad \in SUBSET Nat
      OBVIOUS
    <3> HIDE DEF Bad
    <3> QED BY <1>4, <3>1, Least
  <2>2. i \in 0 .. l /\ i \in Nat /\ ~Fed(p, s, n + i, after[i])
    OBVIOUS
  <2>3. CASE i = 0
    <3>1. after[i] = k /\ n + i = n
      BY <1>3, <2>2, <2>3
    <3>2. k # m
      <4>1. k \in 0 .. m - 1
        BY DEF Progress, Greatest, Overlaps
      <4> QED BY <4>1
    <3>3. Fed(p, s, n, k)
      BY <3>2 DEF Fed
    <3> QED BY <2>2, <3>1, <3>3
  <2>4. CASE i # 0
    <3> DEFINE h == i - 1
               x == after[h]
    <3>1. h \in 0 .. l /\ h \in Nat /\ h + 1 = i /\ ~(i <= h) /\ i \in 1 .. l
      BY <2>2, <2>4
    <3>2. h \notin Bad
      <4> HIDE DEF Bad, h
      <4> QED BY <2>1, <3>1
    <3>3. Fed(p, s, n + h, x)
      BY <3>1, <3>2
    <3>4. after[i] = IF x = m THEN m ELSE Advance(p, PrefixTable(p), x, data[i])
      BY <1>3, <2>2, <2>4
    <3> HIDE DEF Bad, h, x
    <3>5. data[i] = s[n + i] /\ n + i = (n + h) + 1 /\ n + h \in Nat
      BY <3>1
    <3>6. CASE x = m
      <4>1. \E j \in 0 .. n + h : Ends(p, m, s, j)
        BY <3>3, <3>6 DEF Fed
      <4>2. \A j \in 0 .. n + h : j \in 0 .. n + i
        BY <3>1
      <4>3. Fed(p, s, n + i, m)
        BY <4>1, <4>2 DEF Fed
      <4> QED BY <2>2, <3>4, <3>6, <4>3
    <3>7. CASE x # m
      <4>1. Progress(p, s, n + h, x)
        BY <3>3, <3>7 DEF Fed
      <4>2. Fed(p, s, (n + h) + 1, Advance(p, PrefixTable(p), x, s[(n + h) + 1]))
        BY <3>5, <4>1, FeedOne
      <4>3. after[i] = Advance(p, PrefixTable(p), x, s[(n + h) + 1])
        BY <3>4, <3>5, <3>7
      <4> QED BY <2>2, <3>5, <4>2, <4>3
    <3> QED BY <3>6, <3>7
  <2> QED BY <2>3, <2>4
<1>5. l \in 0 .. l
  OBVIOUS
<1>6. Fed(p, s, n + l, after[l])
  BY <1>4, <1>5
<1> QED BY <1>2, <1>6

-----------------------------------------------------------------------------
(* The bytes of the events                                                 *)

\* FlattenSeq, as the function it is the last value of.
Flattens(f, seqs, n) == f = [i \in 1 .. n |-> IF i = 1 THEN seqs[i] ELSE f[i - 1] \o seqs[i]]
Flat(seqs) == CHOOSE f : Flattens(f, seqs, Len(seqs))

LEMMA FlattenIsFlat ==
  ASSUME NEW seqs, Len(seqs) # 0
  PROVE  FlattenSeq(seqs) = Flat(seqs)[Len(seqs)]
  BY ZenonT(30) DEF FlattenSeq, Flat, Flattens

\* There is such a function for every length.
LEMMA CanBeFlattened ==
  ASSUME NEW seqs, NEW n \in Nat
  PROVE  \E f : Flattens(f, seqs, n)
<1> DEFINE Bad == {m \in Nat : ~ \E f : Flattens(f, seqs, m)}
<1>1. SUFFICES ASSUME Bad # {} PROVE FALSE
  OBVIOUS
<1>2. PICK k \in Bad : \A m \in Bad : k <= m
  <2>1. Bad \in SUBSET Nat
    OBVIOUS
  <2> HIDE DEF Bad
  <2> QED BY <1>1, <2>1, Least
<1>3. k \in Nat /\ ~ \E f : Flattens(f, seqs, k)
  OBVIOUS
<1>4. CASE k = 0
  <2> DEFINE f == [i \in 1 .. k |-> seqs[i]]
  <2>1. Flattens(f, seqs, k)
    BY <1>4 DEF Flattens
  <2> HIDE DEF f
  <2> QED BY <1>3, <2>1
<1>5. CASE k # 0
  <2>1. k - 1 \in Nat /\ k - 1 \notin Bad
    BY <1>2, <1>3, <1>5
  <2>2. PICK f : Flattens(f, seqs, k - 1)
    BY <2>1
  <2> HIDE DEF Bad
  <2>3. \A i \in 1 .. k - 1 : f[i] = IF i = 1 THEN seqs[i] ELSE f[i - 1] \o seqs[i]
    BY <2>2 DEF Flattens
  <2> DEFINE last == IF k = 1 THEN seqs[k] ELSE f[k - 1] \o seqs[k]
             g == [i \in 1 .. k |-> IF i = k THEN last ELSE f[i]]
  <2>4. DOMAIN g = 1 .. k /\ g[k] = last /\ (\A i \in 1 .. k - 1 : g[i] = f[i]) /\ g = [i \in 1 .. k |-> g[i]]
    <3> HIDE DEF last
    <3> QED BY <1>3, <1>5
  <2> HIDE DEF g
  <2>5. \A i \in 1 .. k : g[i] = IF i = 1 THEN seqs[i] ELSE g[i - 1] \o seqs[i]
    <3> SUFFICES ASSUME NEW i \in 1 .. k
                 PROVE  g[i] = IF i = 1 THEN seqs[i] ELSE g[i - 1] \o seqs[i]
      OBVIOUS
    <3>1. CASE i = k
      <4>1. k # 1 => k - 1 \in 1 .. k - 1
        BY <1>3, <1>5
      <4>2. k # 1 => g[k - 1] = f[k - 1]
        BY <2>4, <4>1
      <4> QED BY <2>4, <3>1, <4>2
    <3>2. CASE i # k
      <4>1. i \in 1 .. k - 1 /\ (i # 1 => i - 1 \in 1 .. k - 1)
        BY <1>3, <3>2
      <4>2. g[i] = f[i] /\ (i # 1 => g[i - 1] = f[i - 1])
        BY <2>4, <4>1
      <4> QED BY <2>3, <4>1, <4>2
    <3> QED BY <3>1, <3>2
  <2>6. Flattens(g, seqs, k)
    BY <2>4, <2>5 DEF Flattens
  <2> QED BY <1>3, <2>6
<1> QED BY <1>4, <1>5

\* Two such functions agree as far as their sequences do, and their values are sequences.
LEMMA FlattensAlike ==
  ASSUME NEW V, NEW n \in Nat, NEW m \in Nat, n <= m, NEW seqs, NEW init,
         \A i \in 1 .. n : seqs[i] \in Seq(V) /\ init[i] = seqs[i],
         NEW f, Flattens(f, seqs, m), NEW g, Flattens(g, init, n)
  PROVE  \A i \in 1 .. n : f[i] = g[i] /\ f[i] \in Seq(V)
<1> DEFINE Bad == {i \in 1 .. n : ~(f[i] = g[i] /\ f[i] \in Seq(V))}
<1>1. /\ \A i \in 1 .. n : f[i] = IF i = 1 THEN seqs[i] ELSE f[i - 1] \o seqs[i]
      /\ \A i \in 1 .. n : g[i] = IF i = 1 THEN init[i] ELSE g[i - 1] \o init[i]
  <2>1. \A i \in 1 .. m : f[i] = IF i = 1 THEN seqs[i] ELSE f[i - 1] \o seqs[i]
    BY DEF Flattens
  <2>2. \A i \in 1 .. n : g[i] = IF i = 1 THEN init[i] ELSE g[i - 1] \o init[i]
    BY DEF Flattens
  <2>3. 1 .. n \subseteq 1 .. m
    OBVIOUS
  <2> QED BY <2>1, <2>2, <2>3
<1>2. ASSUME Bad # {}
      PROVE  FALSE
  <2>1. PICK i \in Bad : \A j \in Bad : i <= j
    <3>1. Bad \in SUBSET Nat
      OBVIOUS
    <3> HIDE DEF Bad
    <3> QED BY <1>2, <3>1, Least
  <2>2. i \in 1 .. n /\ i \in Nat /\ ~(f[i] = g[i] /\ f[i] \in Seq(V))
    OBVIOUS
  <2>3. seqs[i] \in Seq(V) /\ init[i] = seqs[i]
    BY <2>2
  <2>4. CASE i = 1
    BY <1>1, <2>2, <2>3, <2>4
  <2>5. CASE i # 1
    <3>1. i - 1 \in 1 .. n /\ ~(i <= i - 1)
      BY <2>2, <2>5
    <3>2. i - 1 \notin Bad
      <4> HIDE DEF Bad
      <4> QED BY <2>1, <3>1
    <3>3. f[i - 1] = g[i - 1] /\ f[i - 1] \in Seq(V)
      BY <3>1, <3>2
    <3>4. f[i] = f[i - 1] \o seqs[i] /\ g[i] = g[i - 1] \o init[i]
      BY <1>1, <2>2, <2>5
    <3> DEFINE a == f[i - 1]
               b == seqs[i]
    <3>5. f[i] = a \o b /\ g[i] = a \o b /\ a \in Seq(V) /\ b \in Seq(V)
      BY <2>3, <3>3, <3>4
    <3> HIDE DEF a, b
    <3>6. a \o b \in Seq(V)
      BY <3>5
    <3> HIDE DEF Bad
    <3> QED BY <2>2, <3>5, <3>6
  <2> QED BY <2>4, <2>5
<1> QED BY <1>2

\* The bytes after one event of a list up to another.
Concat(l, from, to) == FlattenSeq([i \in 1 .. to - from |-> l[from + i].data])

LEMMA NoBytes ==
  ASSUME NEW l, NEW n \in Nat
  PROVE  Concat(l, n, n) = <<>>
<1> DEFINE s == [i \in 1 .. n - n |-> l[n + i].data]
<1>1. s = <<>> /\ Len(s) = 0
  OBVIOUS
<1> HIDE DEF s
<1>2. FlattenSeq(s) = s
  BY <1>1 DEF FlattenSeq
<1> QED BY <1>1, <1>2 DEF Concat, s

LEMMA SameBytes ==
  ASSUME NEW l, NEW q, NEW from \in Nat, NEW to \in Int, \A i \in from + 1 .. to : l[i] = q[i]
  PROVE  Concat(q, from, to) = Concat(l, from, to)
<1>1. \A i \in 1 .. to - from : from + i \in from + 1 .. to
  OBVIOUS
<1>2. [i \in 1 .. to - from |-> l[from + i].data] = [i \in 1 .. to - from |-> q[from + i].data]
  BY <1>1
<1> QED BY <1>2 DEF Concat

\* A list of lists, and one more.
LEMMA FlattenOneMore ==
  ASSUME NEW V, NEW n \in Nat, NEW seqs \in [1 .. n + 1 -> Seq(V)], NEW init \in [1 .. n -> Seq(V)],
         \A i \in 1 .. n : init[i] = seqs[i]
  PROVE  /\ n # 0 => FlattenSeq(init) \in Seq(V)
         /\ FlattenSeq(seqs) = (IF n = 0 THEN seqs[1] ELSE FlattenSeq(init) \o seqs[n + 1])
<1>1. Len(seqs) = n + 1 /\ Len(init) = n
  OBVIOUS
<1> DEFINE f == Flat(seqs)
           g == Flat(init)
<1>2. Flattens(f, seqs, n + 1)
  <2>1. n + 1 \in Nat
    OBVIOUS
  <2>2. \E h : Flattens(h, seqs, n + 1)
    BY <2>1, CanBeFlattened
  <2> QED BY <1>1, <2>2 DEF Flat
<1>3. Flattens(g, init, n)
  BY <1>1, CanBeFlattened DEF Flat
<1>4. FlattenSeq(seqs) = f[n + 1]
  <2>1. n + 1 # 0
    OBVIOUS
  <2> QED BY <1>1, <2>1, FlattenIsFlat
<1>5. n # 0 => FlattenSeq(init) = g[n]
  BY <1>1, FlattenIsFlat
<1> HIDE DEF f, g
<1>6. \A i \in 1 .. n : f[i] = g[i] /\ f[i] \in Seq(V)
  <2>1. \A i \in 1 .. n : seqs[i] \in Seq(V) /\ init[i] = seqs[i]
    OBVIOUS
  <2>2. n + 1 \in Nat /\ n <= n + 1
    OBVIOUS
  <2> QED BY <1>2, <1>3, <2>1, <2>2, FlattensAlike
<1>7. f[n + 1] = IF n + 1 = 1 THEN seqs[n + 1] ELSE f[(n + 1) - 1] \o seqs[n + 1]
  <2>1. n + 1 \in 1 .. n + 1
    OBVIOUS
  <2> QED BY <1>2, <2>1 DEF Flattens
<1>8. (n + 1) - 1 = n /\ (n + 1 = 1 <=> n = 0) /\ (n # 0 => n \in 1 .. n)
  OBVIOUS
<1> QED BY <1>4, <1>5, <1>6, <1>7, <1>8

\* Nothing before a sequence.
LEMMA EmptyBefore ==
  ASSUME NEW V, NEW s \in Seq(V)
  PROVE  <<>> \o s = s
  OBVIOUS

\* The bytes of one event more.
LEMMA MoreBytes ==
  ASSUME NEW V, NEW l, NEW from \in Nat, NEW to \in Nat, from <= to,
         \A i \in from + 1 .. to + 1 : l[i].data \in Seq(V)
  PROVE  /\ Concat(l, from, to) \in Seq(V)
         /\ Concat(l, from, to + 1) = Concat(l, from, to) \o l[to + 1].data
<1> DEFINE n == to - from
           seqs == [i \in 1 .. n + 1 |-> l[from + i].data]
           init == [i \in 1 .. n |-> l[from + i].data]
<1>1. n \in Nat /\ (to + 1) - from = n + 1 /\ from + (n + 1) = to + 1 /\ (n = 0 <=> from = to)
  OBVIOUS
<1>2. Concat(l, from, to + 1) = FlattenSeq(seqs) /\ Concat(l, from, to) = FlattenSeq(init)
  BY <1>1 DEF Concat
<1>3. \A i \in 1 .. n + 1 : from + i \in from + 1 .. to + 1
  BY <1>1
<1> HIDE DEF n
<1>4. \A i \in 1 .. n + 1 : l[from + i].data \in Seq(V)
  BY <1>3
<1>5. seqs \in [1 .. n + 1 -> Seq(V)]
  BY <1>4
<1>6. 1 .. n \subseteq 1 .. n + 1
  BY <1>1
<1>7. init \in [1 .. n -> Seq(V)] /\ \A i \in 1 .. n : init[i] = seqs[i]
  BY <1>4, <1>6
<1>8. seqs[n + 1] = l[to + 1].data /\ seqs[n + 1] \in Seq(V)
  <2>1. n + 1 \in 1 .. n + 1
    BY <1>1
  <2> QED BY <1>1, <1>5, <2>1
<1> HIDE DEF seqs, init
<1>9. /\ n # 0 => FlattenSeq(init) \in Seq(V)
      /\ FlattenSeq(seqs) = (IF n = 0 THEN seqs[1] ELSE FlattenSeq(init) \o seqs[n + 1])
  BY <1>1, <1>5, <1>7, FlattenOneMore
<1>10. CASE n = 0
  <2>1. Concat(l, from, to) = <<>>
    BY <1>1, <1>10, NoBytes
  <2>2. <<>> \in Seq(V)
    OBVIOUS
  <2>3. FlattenSeq(seqs) = seqs[n + 1]
    BY <1>9, <1>10
  <2>4. <<>> \o seqs[n + 1] = seqs[n + 1]
    BY <1>8, EmptyBefore
  <2> QED BY <1>2, <1>8, <2>1, <2>2, <2>3, <2>4
<1>11. CASE n # 0
  BY <1>2, <1>8, <1>9, <1>11
<1> QED BY <1>10, <1>11

LEMMA BytesTyped ==
  ASSUME NEW V, NEW l, NEW from \in Nat, NEW to \in Nat, from <= to,
         \A i \in from + 1 .. to : l[i].data \in Seq(V)
  PROVE  Concat(l, from, to) \in Seq(V)
<1>1. CASE from = to
  <2>1. Concat(l, from, to) = <<>>
    BY <1>1, NoBytes
  <2> QED BY <2>1
<1>2. CASE from # to
  <2> DEFINE n == to - 1
  <2>1. n \in Nat /\ from <= n /\ n + 1 = to /\ n + 1 \in from + 1 .. to
    BY <1>2
  <2> HIDE DEF n
  <2>2. \A i \in from + 1 .. n + 1 : l[i].data \in Seq(V)
    BY <2>1
  <2> DEFINE a == Concat(l, from, n)
             b == l[n + 1].data
  <2>3. a \in Seq(V) /\ Concat(l, from, n + 1) = a \o b
    BY <2>1, <2>2, MoreBytes
  <2>4. b \in Seq(V)
    BY <2>1, <2>2
  <2> HIDE DEF a, b
  <2>5. a \o b \in Seq(V)
    BY <2>3, <2>4
  <2> QED BY <2>1, <2>3, <2>5
<1> QED BY <1>1, <1>2

\* What came before does not depend on what comes after.
LEMMA EndsBefore ==
  ASSUME NEW V, NEW s \in Seq(V), NEW t \in Seq(V), NEW p, NEW k \in Nat, NEW n \in 0 .. Len(s)
  PROVE  Ends(p, k, s \o t, n) <=> Ends(p, k, s, n)
<1>1. \A i \in 1 .. Len(s) : (s \o t)[i] = s[i]
  OBVIOUS
<1>2. ASSUME k <= n, NEW j \in 1 .. k
      PROVE  (s \o t)[n - k + j] = s[n - k + j]
  <2>1. n - k + j \in 1 .. Len(s)
    BY <1>2
  <2> QED BY <1>1, <2>1
<1> QED BY <1>2 DEF Ends

\* An occurrence of a pattern ends somewhere.
LEMMA OccursSomewhere ==
  ASSUME NEW V, NEW p \in Seq(V), NEW bytes \in Seq(V)
  PROVE  Occurs(p, bytes) <=> \E n \in 0 .. Len(bytes) : Ends(p, Len(p), bytes, n)
<1> DEFINE m == Len(p)
           l == Len(bytes)
<1>1. m \in Nat /\ l \in Nat /\ p = [j \in 1 .. m |-> p[j]]
  OBVIOUS
<1>2. ASSUME NEW i \in 0 .. l - m
      PROVE  SubSeq(bytes, i + 1, i + m) = p <=> Ends(p, m, bytes, i + m)
  <2> DEFINE sub == SubSeq(bytes, i + 1, i + m)
  <2>1. i \in Nat /\ i + m <= l
    BY <1>1, <1>2
  <2>2. sub = [j \in 1 .. m |-> bytes[i + j]]
    <3> DEFINE a == i + 1
               b == i + m
    <3>0. a \in Int /\ b \in Int /\ b - a + 1 = m /\ (m # 0 => a <= b) /\ (m = 0 => ~(a <= b))
      <4>1. m \in Nat /\ i \in Nat
        BY <1>1, <2>1
      <4> HIDE DEF m, l
      <4>2. (i + m) - (i + 1) + 1 = m
        BY <4>1
      <4>3. (m # 0 => i + 1 <= i + m) /\ (m = 0 => ~(i + 1 <= i + m))
        BY <4>1
      <4> QED BY <4>1, <4>2, <4>3
    <3>1. a .. b \subseteq 1 .. l
      <4> HIDE DEF m, l
      <4> QED BY <1>1, <2>1
    <3>2. \A x \in a .. b : bytes[x] \in V
      <4> HIDE DEF a, b
      <4> QED BY <1>1, <3>1
    <3>3. \A j \in 1 .. m : a + j - 1 = i + j
      BY <1>1, <2>1
    <3> HIDE DEF a, b, m
    <3>4. /\ SubSeq(bytes, a, b) \in Seq(V)
          /\ Len(SubSeq(bytes, a, b)) = IF a <= b THEN b - a + 1 ELSE 0
          /\ \A j \in 1 .. b - a + 1 : SubSeq(bytes, a, b)[j] = bytes[a + j - 1]
      BY <3>0, <3>2, SubSeqProperties
    <3>5. sub = SubSeq(bytes, a, b)
      BY DEF a, b
    <3> HIDE DEF sub
    <3>6. sub \in Seq(V) /\ Len(sub) = m /\ \A j \in 1 .. m : sub[j] = bytes[i + j]
      BY <1>1, <3>0, <3>3, <3>4, <3>5
    <3>7. sub = [j \in 1 .. Len(sub) |-> sub[j]]
      BY <3>6
    <3> QED BY <3>6, <3>7
  <2>3. Ends(p, m, bytes, i + m) <=> \A j \in 1 .. m : p[j] = bytes[i + j]
    <3>1. m <= i + m /\ \A j \in 1 .. m : (i + m) - m + j = i + j
      BY <1>1, <2>1
    <3> QED BY <3>1 DEF Ends
  <2> HIDE DEF sub, m
  <2>4. sub = p <=> \A j \in 1 .. m : p[j] = bytes[i + j]
    BY <1>1, <2>2
  <2> QED BY <2>3, <2>4 DEF sub
<1>3. ASSUME NEW n \in 0 .. l, Ends(p, m, bytes, n)
      PROVE  n - m \in 0 .. l - m /\ (n - m) + m = n
  BY <1>1, <1>3 DEF Ends
<1>4. \A i \in 0 .. l - m : i + m \in 0 .. l
  BY <1>1
<1>5. Occurs(p, bytes) <=> \E i \in 0 .. l - m : SubSeq(bytes, i + 1, i + m) = p
  BY DEF Occurs
<1> HIDE DEF m, l
<1>6. ASSUME NEW n \in 0 .. l, Ends(p, m, bytes, n)
      PROVE  \E i \in 0 .. l - m : SubSeq(bytes, i + 1, i + m) = p
  <2>1. n - m \in 0 .. l - m /\ (n - m) + m = n
    BY <1>3, <1>6
  <2> QED BY <1>2, <1>6, <2>1
<1>7. ASSUME NEW i \in 0 .. l - m, SubSeq(bytes, i + 1, i + m) = p
      PROVE  \E n \in 0 .. l : Ends(p, m, bytes, n)
  BY <1>2, <1>4, <1>7
<1>8. Occurs(p, bytes) <=> \E n \in 0 .. l : Ends(p, m, bytes, n)
  BY <1>5, <1>6, <1>7
<1> QED BY <1>8 DEF m, l

\* Where a run that waits for p stands, after some bytes.
Waiting(p, bytes, k) == Progress(p, bytes, Len(bytes), k)

\* It stands at 0 before the first byte.
LEMMA WaitingFirst ==
  ASSUME NEW p, Len(p) \in Nat \ {0}
  PROVE  Waiting(p, <<>>, 0)
<1>1. Len(<<>>) = 0
  OBVIOUS
<1>2. Progress(p, <<>>, 0, 0)
  BY DEF Progress, Greatest, Overlaps, Ends
<1> QED BY <1>1, <1>2 DEF Waiting

\* It is there because the pattern has not occurred.
LEMMA WaitingMeans ==
  ASSUME NEW V, NEW p \in Seq(V), NEW bytes \in Seq(V), NEW k, Waiting(p, bytes, k)
  PROVE  ~Occurs(p, bytes) /\ k \in 0 .. Len(p) - 1
<1>1. \A n \in 0 .. Len(bytes) : ~Ends(p, Len(p), bytes, n)
  BY DEF Waiting, Progress
<1>2. ~Occurs(p, bytes)
  BY <1>1, OccursSomewhere
<1>3. k \in 0 .. Len(p) - 1
  BY DEF Waiting, Progress, Greatest, Overlaps
<1> QED BY <1>2, <1>3

\* The bytes of one event: the pattern occurs now, or the run waits on.
LEMMA FeedWaiting ==
  ASSUME NEW V, NEW p \in Seq(V), p # <<>>, NEW bytes \in Seq(V), NEW data \in Seq(V),
         NEW k, Waiting(p, bytes, k)
  PROVE  IF Feed(p, k, data) = Len(p) THEN Occurs(p, bytes \o data)
         ELSE Waiting(p, bytes \o data, Feed(p, k, data))
<1> DEFINE s == bytes \o data
           n == Len(bytes)
           m == Len(p)
           l == Len(data)
           next == Feed(p, k, data)
<1>1. /\ m \in Nat \ {0} /\ n \in Nat /\ l \in Nat /\ s \in Seq(V) /\ Len(s) = n + l
      /\ \A i \in 1 .. l : data[i] = s[n + i]
  OBVIOUS
<1>2. \A j \in 0 .. m : \A i \in 0 .. n : Ends(p, j, s, i) <=> Ends(p, j, bytes, i)
  BY <1>1, EndsBefore
<1> HIDE DEF s, n
<1>3. Progress(p, bytes, n, k)
  BY DEF Waiting, n
<1>4. Overlaps(p, m - 1, s, n) = Overlaps(p, m - 1, bytes, n)
  <2>1. n \in 0 .. n /\ 0 .. m - 1 \subseteq 0 .. m
    BY <1>1
  <2> QED BY <1>2, <2>1 DEF Overlaps
<1>5. \A i \in 0 .. n : ~Ends(p, m, s, i)
  <2>1. m \in 0 .. m
    BY <1>1
  <2> QED BY <1>2, <1>3, <2>1 DEF Progress
<1>6. Progress(p, s, n, k)
  BY <1>3, <1>4, <1>5 DEF Progress
<1>7. Fed(p, s, n + l, next)
  <2> HIDE DEF next
  <2>1. \A i \in 1 .. Len(data) : data[i] = s[n + i]
    BY <1>1
  <2> QED BY <1>1, <1>6, <2>1, FeedIsRight DEF next
<1> HIDE DEF m, l, next
<1>8. CASE next = m
  <2>1. \E j \in 0 .. Len(s) : Ends(p, Len(p), s, j)
    BY <1>1, <1>7, <1>8 DEF Fed, m
  <2>2. Occurs(p, s)
    BY <1>1, <2>1, OccursSomewhere
  <2> QED BY <1>8, <2>2 DEF next, m, s
<1>9. CASE next # m
  <2>1. Progress(p, s, Len(s), next)
    BY <1>1, <1>7, <1>9 DEF Fed, m
  <2> QED BY <1>9, <2>1 DEF Waiting, next, m, s
<1> QED BY <1>8, <1>9

-----------------------------------------------------------------------------
(* The invariant of matching                                               *)

\* What the ledger may hold, and what a run may keep.
LogEvent == [kind : {"up", "down", "rx", "rxgap", "tx", "control"}, epoch : Nat, data : Seq(Byte)]
Instruction == [op : {"expect", "send", "assert", "wait", "lease", "control"}, pattern : Seq(Byte)]
Evidence == [step : Instruction, start : Nat, end : Nat]

LedgerInv ==
  /\ log \in Seq(LogEvent) /\ Newest <= MaxEvents
  /\ oldest \in 1 .. Newest + 1 /\ Newest + 1 - oldest <= RingMax
  /\ persistence \in {"disabled", "active", "degraded", "sealed"}
  /\ readable \in Nat /\ stored \in Nat /\ readable <= stored /\ stored <= Newest
  /\ closed \in BOOLEAN /\ faults \in 0 .. MaxFaults
  /\ persistence = "active" => stored = Newest

LinkInv ==
  /\ link \in [connected : BOOLEAN, epoch : 0 .. MaxLinks] /\ owner \in {"idle", "lost", "record"}
  /\ control # None => control \in 0 .. MaxLinks
  /\ active \subseteq Keys /\ completed \in [Keys -> Runs \union {None}]

Places == Executing \union {"idle", "checked", "publish", "done", "gone"}
Reading == {"subscribed", "cursor", "step", "sending", "sent", "expect", "port"}
Expecting == {"expect", "port"}

\* The events from one on up to another are of one connection, without a break.
Unbroken(l, from, to, epoch) ==
  \A n \in from + 1 .. to : l[n].epoch = epoch /\ l[n].kind \notin {"down", "rxgap"}

\* A step that passed: an expect did so with the event that completed its pattern.
EvidenceOK(e, epoch, l) ==
  /\ e.start <= e.end /\ e.end <= Len(l)
  /\ e.step.op = "expect" =>
       /\ Occurs(e.step.pattern, Concat(l, e.start, e.end))
       /\ ~Occurs(e.step.pattern, Concat(l, e.start, e.end - 1))
       /\ Unbroken(l, e.start, e.end, epoch)

Evident(evidence, epoch, l) ==
  /\ evidence \in Seq(Evidence)
  /\ \A i \in DOMAIN evidence : EvidenceOK(evidence[i], epoch, l)

\* An expect under way: it has consumed every event since it started.
ExpectOK(step, matched, start, seq, epoch, l) ==
  /\ step.op = "expect"
  /\ Waiting(step.pattern, Concat(l, start, seq), matched)
  /\ Unbroken(l, start, seq, epoch)

\* Where a run is: the receiver's place is right behind its cursor, and a step starts
\* at the cursor of the step before.
PlaceOK(x, newest) ==
  /\ x.seq \in 0 .. newest /\ x.next \in 0 .. newest + 1
  /\ x.pc # "idle" => x.key \in Keys
  /\ x.pc \in Executing \union {"checked"} => x.steps \in Workflows
  /\ x.pc \in {"idle", "checked", "claimed", "subscribed", "cursor"} =>
       x.step = 1 /\ x.matched = 0 /\ x.evidence = <<>>
  /\ x.pc \in Reading => x.next = x.seq + 1 /\ x.start \in 0 .. x.seq /\ x.step \in 1 .. Len(x.steps)
  /\ x.pc \in Reading \ Expecting => x.start = x.seq /\ x.matched = 0
  /\ x.pc \in {"sending", "sent"} => x.steps[x.step].op # "expect"

RunOK(x, l) ==
  /\ DOMAIN x = RunFields /\ x.pc \in Places
  /\ PlaceOK(x, Len(l))
  /\ Evident(x.evidence, x.epoch, l)
  /\ x.pc \in Expecting => ExpectOK(x.steps[x.step], x.matched, x.start, x.seq, x.epoch, l)

RunsInv == DOMAIN run = Runs /\ \A r \in Runs : RunOK(run[r], log)

MatchInv == LedgerInv /\ LinkInv /\ RunsInv

-----------------------------------------------------------------------------
(* The ledger                                                              *)

\* Min and Max of two numbers.
LEMMA OfTwo ==
  ASSUME NEW a \in Nat, NEW b \in Nat
  PROVE  /\ Min({a, b}) = IF a <= b THEN a ELSE b
         /\ Max({a, b}) = IF a <= b THEN b ELSE a
<1>1. \E n \in {a, b} : \A m \in {a, b} : n <= m
  OBVIOUS
<1>2. Min({a, b}) \in {a, b} /\ \A m \in {a, b} : Min({a, b}) <= m
  BY <1>1 DEF Min
<1>3. \E n \in {a, b} : \A m \in {a, b} : n >= m
  OBVIOUS
<1>4. Max({a, b}) \in {a, b} /\ \A m \in {a, b} : Max({a, b}) >= m
  BY <1>3 DEF Max
<1> QED BY <1>2, <1>4

\* What the ring starts with after an append.
LEMMA RetainedIs ==
  ASSUME LedgerInv, NEW n \in Retained(Newest + 1)
  PROVE  n \in 1 .. Newest + 2 /\ Newest + 2 - n <= RingMax
<1> DEFINE most == Newest + 2 - RingMax
           kept == Max({oldest, most})
<1>1. /\ Newest \in Nat /\ oldest \in 1 .. Newest + 1 /\ RingMax \in Nat \ {0} /\ ByteEvictions \in Nat
      /\ Newest + 1 - oldest <= RingMax
  BY LedgerAssumption DEF LedgerInv, Newest
<1>2. \E m \in {oldest, most} : \A k \in {oldest, most} : m >= k
  BY <1>1
<1>3. kept \in {oldest, most} /\ kept >= oldest /\ kept >= most
  BY <1>2 DEF Max
<1>4. kept \in Nat /\ kept >= 1 /\ kept <= Newest + 2
  BY <1>1, <1>3
<1>5. n \in kept .. Min({kept + ByteEvictions, Newest + 2})
  <2>1. Newest + 1 + 1 - RingMax = most /\ Newest + 1 + 1 = Newest + 2
    BY <1>1
  <2> QED BY <2>1 DEF Retained
<1>6. Min({kept + ByteEvictions, Newest + 2}) <= Newest + 2 /\ Min({kept + ByteEvictions, Newest + 2}) \in Nat
  <2> HIDE DEF kept
  <2>1. kept + ByteEvictions \in Nat /\ Newest + 2 \in Nat
    BY <1>1, <1>4
  <2> QED BY <2>1, OfTwo
<1> HIDE DEF kept
<1> QED BY <1>1, <1>3, <1>4, <1>5, <1>6

\* An append to the store, which may rotate or fail.
LEMMA AppendKeepsLedger ==
  ASSUME LedgerInv, NEW e \in LogEvent, AppendEvent(e)
  PROVE  LedgerInv' /\ log' = Append(log, e)
<1>1. /\ log \in Seq(LogEvent) /\ Newest \in Nat /\ Newest < MaxEvents /\ MaxEvents \in Nat
      /\ log' = Append(log, e) /\ oldest' \in Retained(Newest + 1) /\ ~closed /\ closed' = closed /\ StoreAppend
  BY LedgerAssumption DEF LedgerInv, AppendEvent, Newest
<1>2. log' \in Seq(LogEvent) /\ Newest' = Newest + 1
  <2> HIDE DEF LogEvent
  <2> QED BY <1>1 DEF Newest
<1>3. oldest' \in 1 .. Newest' + 1 /\ Newest' + 1 - oldest' <= RingMax
  <2> DEFINE n == oldest'
  <2>1. n \in 1 .. Newest + 2 /\ Newest + 2 - n <= RingMax
    <3>1. n \in Retained(Newest + 1)
      BY <1>1
    <3> HIDE DEF n
    <3> QED BY <3>1, RetainedIs
  <2> QED BY <1>1, <1>2, <2>1
<1>4. /\ persistence' \in {"disabled", "active", "degraded", "sealed"}
      /\ readable' \in Nat /\ stored' \in Nat /\ readable' <= stored' /\ stored' <= Newest + 1
      /\ faults' \in 0 .. MaxFaults
      /\ persistence' = "active" => stored' = Newest + 1
  BY <1>1, LedgerAssumption DEF StoreAppend, LedgerInv
<1> QED BY <1>1, <1>2, <1>3, <1>4 DEF LedgerInv

LEMMA StillKeepsLedger ==
  ASSUME LedgerInv, UNCHANGED ledgerVars
  PROVE  LedgerInv'
<1>1. Newest' = Newest
  BY DEF Newest, ledgerVars
<1> QED BY <1>1 DEF LedgerInv, ledgerVars

-----------------------------------------------------------------------------
(* A longer log                                                            *)

\* The events that were there stay where they were.
LEMMA OneMoreEvent ==
  ASSUME NEW V, NEW l \in Seq(V), NEW e \in V
  PROVE  /\ Append(l, e) \in Seq(V) /\ Len(Append(l, e)) = Len(l) + 1 /\ Len(l) \in Nat
         /\ \A i \in 1 .. Len(l) : Append(l, e)[i] = l[i]
         /\ Append(l, e)[Len(l) + 1] = e
  OBVIOUS

\* So stretches up to the old end are the same.
Agree(l, q, n) == \A i \in 1 .. n : q[i] = l[i]

LEMMA SameInside ==
  ASSUME NEW l, NEW q, NEW n \in Nat, Agree(l, q, n), NEW from \in Nat, NEW to \in Int, to <= n
  PROVE  \A i \in from + 1 .. to : q[i] = l[i]
<1>1. from + 1 .. to \subseteq 1 .. n
  OBVIOUS
<1> QED BY <1>1 DEF Agree

LEMMA SameConcat ==
  ASSUME NEW l, NEW q, NEW n \in Nat, Agree(l, q, n), NEW from \in Nat, NEW to \in Int, to <= n
  PROVE  Concat(q, from, to) = Concat(l, from, to)
<1>1. \A i \in from + 1 .. to : q[i] = l[i]
  BY SameInside
<1>2. \A i \in from + 1 .. to : l[i] = q[i]
  BY <1>1
<1> QED BY <1>2, SameBytes

LEMMA SameUnbroken ==
  ASSUME NEW l, NEW q, NEW n \in Nat, Agree(l, q, n), NEW from \in Nat, NEW to \in Int, to <= n, NEW epoch
  PROVE  Unbroken(q, from, to, epoch) <=> Unbroken(l, from, to, epoch)
<1>1. \A i \in from + 1 .. to : q[i] = l[i]
  BY SameInside
<1> QED BY <1>1 DEF Unbroken

\* What a run has and where it is stays right.
LEMMA LongerEvidence ==
  ASSUME NEW l, NEW q, Len(l) \in Nat, Len(q) \in Nat, Len(l) <= Len(q), Agree(l, q, Len(l)),
         NEW e \in Evidence, NEW epoch, EvidenceOK(e, epoch, l)
  PROVE  EvidenceOK(e, epoch, q)
<1>1. e.start \in Nat /\ e.end \in Nat /\ e.end <= Len(l) /\ e.end - 1 \in Int /\ e.end - 1 <= Len(l) /\ e.end <= Len(q)
  BY DEF Evidence, EvidenceOK
<1>2. Concat(q, e.start, e.end) = Concat(l, e.start, e.end)
  BY <1>1, SameConcat
<1>3. Concat(q, e.start, e.end - 1) = Concat(l, e.start, e.end - 1)
  BY <1>1, SameConcat
<1>4. Unbroken(q, e.start, e.end, epoch) <=> Unbroken(l, e.start, e.end, epoch)
  BY <1>1, SameUnbroken
<1> QED BY <1>1, <1>2, <1>3, <1>4 DEF EvidenceOK

LEMMA LongerRun ==
  ASSUME NEW l, NEW q, Len(l) \in Nat, Len(q) \in Nat, Len(l) <= Len(q), Agree(l, q, Len(l)),
         NEW x, RunOK(x, l)
  PROVE  RunOK(x, q)
<1>1. PlaceOK(x, Len(q))
  <2>1. PlaceOK(x, Len(l))
    BY DEF RunOK
  <2>2. 0 .. Len(l) \subseteq 0 .. Len(q) /\ 0 .. Len(l) + 1 \subseteq 0 .. Len(q) + 1
    OBVIOUS
  <2> QED BY <2>1, <2>2 DEF PlaceOK
<1>2. Evident(x.evidence, x.epoch, q)
  <2> DEFINE s == x.evidence
  <2>1. s \in Seq(Evidence) /\ \A i \in DOMAIN s : EvidenceOK(s[i], x.epoch, l)
    BY DEF RunOK, Evident
  <2> HIDE DEF s
  <2>2. \A i \in DOMAIN s : s[i] \in Evidence
    <3> HIDE DEF Evidence
    <3> QED BY <2>1
  <2>3. \A i \in DOMAIN s : EvidenceOK(s[i], x.epoch, q)
    BY <2>1, <2>2, LongerEvidence
  <2> QED BY <2>1, <2>3 DEF Evident, s
<1>3. ASSUME x.pc \in Expecting
      PROVE  ExpectOK(x.steps[x.step], x.matched, x.start, x.seq, x.epoch, q)
  <2>1. ExpectOK(x.steps[x.step], x.matched, x.start, x.seq, x.epoch, l)
    BY <1>3 DEF RunOK
  <2>2. x.start \in Nat /\ x.seq \in Int /\ x.seq <= Len(l)
    BY <1>3 DEF RunOK, PlaceOK, Expecting, Reading
  <2>3. Concat(q, x.start, x.seq) = Concat(l, x.start, x.seq)
    BY <2>2, SameConcat
  <2>4. Unbroken(q, x.start, x.seq, x.epoch) <=> Unbroken(l, x.start, x.seq, x.epoch)
    BY <2>2, SameUnbroken
  <2> QED BY <2>1, <2>3, <2>4 DEF ExpectOK
<1> QED BY <1>1, <1>2, <1>3 DEF RunOK

-----------------------------------------------------------------------------
(* One run                                                                 *)

\* One run moves on, and the ledger stands still.
LEMMA OneRun ==
  ASSUME RunsInv, NEW r \in Runs, NEW x, run' = [run EXCEPT ![r] = x], RunOK(x, log), log' = log
  PROVE  RunsInv'
<1>1. DOMAIN run' = Runs /\ \A q \in Runs : run'[q] = IF q = r THEN x ELSE run[q]
  BY DEF RunsInv
<1>2. \A q \in Runs : RunOK(run'[q], log)
  BY <1>1 DEF RunsInv
<1> QED BY <1>1, <1>2 DEF RunsInv

\* An event is appended, and perhaps one run moves on.
LEMMA RunsSeeMore ==
  ASSUME RunsInv, log \in Seq(LogEvent), NEW e \in LogEvent, log' = Append(log, e)
  PROVE  \A q \in Runs : RunOK(run[q], log')
<1> HIDE DEF LogEvent
<1>1. Len(log) \in Nat /\ Len(log') = Len(log) + 1 /\ Agree(log, log', Len(log))
  BY OneMoreEvent DEF Agree
<1>2. \A q \in Runs : RunOK(run[q], log)
  BY DEF RunsInv
<1>3. Len(log') \in Nat /\ Len(log) <= Len(log')
  BY <1>1
<1> QED BY <1>1, <1>2, <1>3, LongerRun

\* Nothing is left of a run that is over.
LEMMA OverOK ==
  ASSUME NEW x, NEW l, RunOK(x, l), Len(l) \in Nat, NEW pc \in {"publish", "done", "gone"}, x.key \in Keys
  PROVE  RunOK(Over(x, pc), l)
<1> DEFINE y == Over(x, pc)
<1>1. /\ DOMAIN y = RunFields /\ y.pc = pc /\ y.key = x.key /\ y.seq = 0 /\ y.next = 0 /\ y.evidence = <<>>
  BY DEF Over, NewRun, RunFields
<1> HIDE DEF y
<1>2. pc \in Places /\ pc \notin Executing \union {"checked"} /\ pc \notin Reading /\ pc \notin Expecting
      /\ pc \notin {"idle", "checked", "claimed", "subscribed", "cursor"} /\ pc \notin {"sending", "sent"}
  BY DEF Places, Executing, Reading, Expecting
<1>3. PlaceOK(y, Len(l))
  BY <1>1, <1>2 DEF PlaceOK
<1>4. Evident(y.evidence, y.epoch, l)
  BY <1>1 DEF Evident
<1> QED BY <1>1, <1>2, <1>3, <1>4 DEF RunOK, y

\* A run goes on to a place of which no more is asked than of the one it leaves.
LEMMA GotoOK ==
  ASSUME NEW x, NEW l, RunOK(x, l), x.pc \in Executing, NEW pc \in Executing,
         pc \notin {"claimed", "subscribed", "cursor"},
         pc \in Reading => x.pc \in Reading,
         pc \in Reading \ Expecting => x.pc \in Reading \ Expecting,
         pc \in {"sending", "sent"} => x.pc \in {"sending", "sent"} \/ x.steps[x.step].op # "expect",
         pc \in Expecting => ExpectOK(x.steps[x.step], x.matched, x.start, x.seq, x.epoch, l)
  PROVE  RunOK([x EXCEPT !.pc = pc], l)
<1> DEFINE y == [x EXCEPT !.pc = pc]
<1>1. /\ DOMAIN x = RunFields /\ DOMAIN y = RunFields /\ y.pc = pc /\ y.key = x.key /\ y.steps = x.steps
      /\ y.seq = x.seq /\ y.next = x.next /\ y.epoch = x.epoch /\ y.step = x.step /\ y.start = x.start
      /\ y.matched = x.matched /\ y.evidence = x.evidence
  BY DEF RunOK, RunFields
<1> HIDE DEF y
<1>2. PlaceOK(x, Len(l)) /\ Evident(x.evidence, x.epoch, l)
  BY DEF RunOK
<1>3. pc \in Places
  BY DEF Places
<1>4. PlaceOK(y, Len(l))
  BY <1>1, <1>2 DEF PlaceOK, Executing
<1> QED BY <1>1, <1>2, <1>3, <1>4 DEF RunOK, y

-----------------------------------------------------------------------------
(* The steps of a run                                                      *)

\* What validate has made sure of.
LEMMA Validated ==
  ASSUME NEW w \in Workflows
  PROVE  /\ Len(w) \in Nat /\ 1 \in 1 .. Len(w)
         /\ \A i \in 1 .. Len(w) : w[i] \in Instruction
         /\ \A i \in 1 .. Len(w) : w[i].op = "expect" => w[i].pattern \in Seq(Byte) /\ w[i].pattern # <<>>
<1>1. /\ w \in Seq(Instruction) /\ w # <<>>
      /\ \A i \in DOMAIN w : w[i].op = "expect" => w[i].pattern # <<>>
  BY DefinitionAssumption DEF Instruction
<1>2. Len(w) \in Nat /\ DOMAIN w = 1 .. Len(w) /\ 1 \in 1 .. Len(w) /\ \A i \in 1 .. Len(w) : w[i] \in Instruction
  <2> HIDE DEF Instruction
  <2> QED BY <1>1
<1>3. \A i \in 1 .. Len(w) : w[i].pattern \in Seq(Byte)
  BY <1>2 DEF Instruction
<1> QED BY <1>1, <1>2, <1>3

\* The fields of a run after a step that passed.
LEMMA PassedFields ==
  ASSUME NEW x, NEW seq, DOMAIN x = RunFields
  PROVE  LET y == Passed(x, seq) IN
         /\ DOMAIN y = RunFields
         /\ y.key = x.key /\ y.steps = x.steps /\ y.epoch = x.epoch /\ y.next = x.next
         /\ y.seq = seq /\ y.start = seq /\ y.step = x.step + 1 /\ y.matched = 0
         /\ y.evidence = Append(x.evidence, [step |-> x.steps[x.step], start |-> x.start, end |-> seq])
         /\ y.pc = IF x.step = Len(x.steps) THEN "succeeded" ELSE "step"
  BY DEF Passed, RunFields

\* The evidence with one step more.
LEMMA MoreEvidence ==
  ASSUME NEW evidence, NEW epoch, NEW l, Evident(evidence, epoch, l), NEW e \in Evidence, EvidenceOK(e, epoch, l)
  PROVE  Evident(Append(evidence, e), epoch, l)
<1>1. evidence \in Seq(Evidence) /\ \A i \in DOMAIN evidence : EvidenceOK(evidence[i], epoch, l)
  BY DEF Evident
<1> HIDE DEF Evidence
<1>2. /\ Append(evidence, e) \in Seq(Evidence) /\ Len(evidence) \in Nat
      /\ DOMAIN Append(evidence, e) = 1 .. Len(evidence) + 1 /\ DOMAIN evidence = 1 .. Len(evidence)
      /\ \A i \in 1 .. Len(evidence) : Append(evidence, e)[i] = evidence[i]
      /\ Append(evidence, e)[Len(evidence) + 1] = e
  BY <1>1
<1>3. \A i \in DOMAIN Append(evidence, e) : EvidenceOK(Append(evidence, e)[i], epoch, l)
  BY <1>1, <1>2
<1> QED BY <1>2, <1>3 DEF Evident

\* A step that passed leaves a run that is right, if its evidence is.
LEMMA PassedOK ==
  ASSUME NEW l, Len(l) \in Nat, NEW x, RunOK(x, l), x.pc \in Reading,
         NEW seq \in 0 .. Len(l), x.start <= seq, NEW e,
         e = [step |-> x.steps[x.step], start |-> x.start, end |-> seq], EvidenceOK(e, x.epoch, l),
         NEW y, DOMAIN y = RunFields, y.key = x.key, y.steps = x.steps, y.epoch = x.epoch,
         y.next = seq + 1, y.seq = seq, y.start = seq, y.step = x.step + 1, y.matched = 0,
         y.evidence = Append(x.evidence, e),
         y.pc = IF x.step = Len(x.steps) THEN "succeeded" ELSE "step"
  PROVE  RunOK(y, l)
<1>1. PlaceOK(x, Len(l)) /\ Evident(x.evidence, x.epoch, l) /\ DOMAIN x = RunFields
  BY DEF RunOK
<1>2. /\ x.key \in Keys /\ x.steps \in Workflows /\ x.start \in Nat
      /\ x.step \in 1 .. Len(x.steps) /\ x.pc \in Executing
  BY <1>1 DEF PlaceOK, Executing, Reading
<1>3. Len(x.steps) \in Nat /\ x.steps[x.step] \in Instruction
  BY <1>2, Validated
<1>4. e \in Evidence
  <2> HIDE DEF Instruction
  <2> QED BY <1>2, <1>3 DEF Evidence
<1>5. Evident(y.evidence, y.epoch, l)
  BY <1>1, <1>4, MoreEvidence
<1>6. y.pc \in {"succeeded", "step"} /\ (y.pc = "step" => y.step \in 1 .. Len(y.steps))
  BY <1>2, <1>3
<1>7. PlaceOK(y, Len(l))
  BY <1>2, <1>6 DEF PlaceOK, Executing, Reading, Expecting
<1>8. y.pc \in Places /\ y.pc \notin Expecting
  BY <1>6 DEF Places, Executing, Expecting
<1> QED BY <1>5, <1>7, <1>8 DEF RunOK

\* One that reads no events.
LEMMA PassOK ==
  ASSUME NEW l, Len(l) \in Nat, NEW x, RunOK(x, l), x.pc \in Reading \ Expecting, x.steps[x.step].op # "expect"
  PROVE  RunOK(Passed(x, x.seq), l)
<1> DEFINE e == [step |-> x.steps[x.step], start |-> x.start, end |-> x.seq]
           y == Passed(x, x.seq)
<1>1. DOMAIN x = RunFields /\ PlaceOK(x, Len(l))
  BY DEF RunOK
<1>2. x.seq \in 0 .. Len(l) /\ x.start = x.seq /\ x.next = x.seq + 1 /\ x.start <= x.seq
  BY <1>1 DEF PlaceOK
<1>3. EvidenceOK(e, x.epoch, l)
  BY <1>2 DEF EvidenceOK
<1>4. /\ DOMAIN y = RunFields /\ y.key = x.key /\ y.steps = x.steps /\ y.epoch = x.epoch
      /\ y.next = x.seq + 1 /\ y.seq = x.seq /\ y.start = x.seq /\ y.step = x.step + 1 /\ y.matched = 0
      /\ y.evidence = Append(x.evidence, e)
      /\ y.pc = IF x.step = Len(x.steps) THEN "succeeded" ELSE "step"
  BY <1>1, <1>2, PassedFields
<1> HIDE DEF y
<1>5. e = [step |-> x.steps[x.step], start |-> x.start, end |-> x.seq]
  OBVIOUS
<1> HIDE DEF e
<1>6. RunOK(y, l)
  BY <1>2, <1>3, <1>4, <1>5, PassedOK
<1> QED BY <1>6 DEF y

\* An expect starts with nothing consumed.
LEMMA ExpectBegins ==
  ASSUME NEW l, Len(l) \in Nat, NEW x, RunOK(x, l), x.pc = "step", x.steps[x.step].op = "expect"
  PROVE  ExpectOK(x.steps[x.step], x.matched, x.start, x.seq, x.epoch, l)
<1>1. PlaceOK(x, Len(l)) /\ x.pc \in Reading \ Expecting /\ x.pc \in Executing
  BY DEF RunOK, Reading, Expecting, Executing
<1>2. /\ x.seq \in Nat /\ x.start = x.seq /\ x.matched = 0
      /\ x.steps \in Workflows /\ x.step \in 1 .. Len(x.steps)
  BY <1>1 DEF PlaceOK
<1> DEFINE p == x.steps[x.step].pattern
<1>3. p \in Seq(Byte) /\ p # <<>>
  BY <1>2, Validated
<1> HIDE DEF p
<1>4. Len(p) \in Nat \ {0}
  BY <1>3
<1>5. Waiting(p, <<>>, 0)
  BY <1>4, WaitingFirst
<1>6. Concat(l, x.start, x.seq) = <<>>
  BY <1>2, NoBytes
<1>7. Unbroken(l, x.start, x.seq, x.epoch)
  BY <1>2 DEF Unbroken
<1> QED BY <1>2, <1>5, <1>6, <1>7 DEF ExpectOK, p

\* An expect consumes the next event.
LEMMA ExpectGoesOn ==
  ASSUME NEW l \in Seq(LogEvent), NEW step, NEW matched, NEW start \in Nat, NEW seq \in Nat, NEW epoch,
         start <= seq, seq + 1 <= Len(l),
         ExpectOK(step, matched, start, seq, epoch, l), step.pattern \in Seq(Byte), step.pattern # <<>>,
         l[seq + 1].epoch = epoch, l[seq + 1].kind \notin {"down", "rxgap"},
         NEW next, next = Feed(step.pattern, matched, l[seq + 1].data)
  PROVE  /\ next = Len(step.pattern) =>
              EvidenceOK([step |-> step, start |-> start, end |-> seq + 1], epoch, l)
         /\ next # Len(step.pattern) => ExpectOK(step, next, start, seq + 1, epoch, l)
<1> DEFINE p == step.pattern
           data == l[seq + 1].data
           before == Concat(l, start, seq)
           now == Concat(l, start, seq + 1)
<1>1. \A i \in 1 .. Len(l) : l[i].data \in Seq(Byte)
  <2>1. \A i \in 1 .. Len(l) : l[i] \in LogEvent
    <3> HIDE DEF LogEvent
    <3> QED OBVIOUS
  <2> QED BY <2>1 DEF LogEvent
<1>2. Len(l) \in Nat /\ start + 1 .. seq + 1 \subseteq 1 .. Len(l) /\ seq + 1 \in 1 .. Len(l)
  <2> HIDE DEF LogEvent
  <2>1. Len(l) \in Nat
    OBVIOUS
  <2> QED BY <2>1
<1>3. \A i \in start + 1 .. seq + 1 : l[i].data \in Seq(Byte)
  BY <1>1, <1>2
<1>4. before \in Seq(Byte) /\ now = before \o data /\ data \in Seq(Byte)
  <2>1. data \in Seq(Byte)
    BY <1>1, <1>2
  <2> QED BY <1>3, <2>1, MoreBytes
<1>5. Waiting(p, before, matched) /\ step.op = "expect" /\ Unbroken(l, start, seq, epoch)
  BY DEF ExpectOK
<1>6. Unbroken(l, start, seq + 1, epoch)
  <2>1. \A n \in start + 1 .. seq + 1 : n \in start + 1 .. seq \/ n = seq + 1
    OBVIOUS
  <2> QED BY <1>5, <2>1 DEF Unbroken
<1>7. p \in Seq(Byte) /\ p # <<>> /\ next = Feed(p, matched, data)
  OBVIOUS
<1> HIDE DEF before, now, data, p
<1>8. IF next = Len(p) THEN Occurs(p, before \o data) ELSE Waiting(p, before \o data, next)
  BY <1>4, <1>5, <1>7, FeedWaiting
<1>9. ~Occurs(p, before)
  BY <1>4, <1>5, <1>7, WaitingMeans
<1>10. ASSUME next = Len(p)
       PROVE  EvidenceOK([step |-> step, start |-> start, end |-> seq + 1], epoch, l)
  <2>1. Occurs(p, now)
    BY <1>4, <1>8, <1>10
  <2>2. (seq + 1) - 1 = seq /\ start <= seq + 1
    OBVIOUS
  <2> QED BY <1>6, <1>9, <2>1, <2>2 DEF EvidenceOK, before, now, p
<1>11. ASSUME next # Len(p)
       PROVE  ExpectOK(step, next, start, seq + 1, epoch, l)
  <2>1. Waiting(p, now, next)
    BY <1>4, <1>8, <1>11
  <2> QED BY <1>5, <1>6, <2>1 DEF ExpectOK, now, p
<1> QED BY <1>10, <1>11 DEF p

\* Expect: lag and a break end the run, the last byte of the pattern ends the step.
LEMMA ExpectKeeps ==
  ASSUME MatchInv, NEW r \in Runs, Expect(r)
  PROVE  RunsInv'
<1> DEFINE x == run[r]
           event == log[x.next]
           step == x.steps[x.step]
           next == Feed(step.pattern, x.matched, event.data)
           top == Max({x.seq, x.next})
           passed == [Passed(x, top) EXCEPT !.next = x.next + 1]
           waits == [x EXCEPT !.pc = "port", !.matched = next, !.next = x.next + 1, !.seq = top]
           failed == [x EXCEPT !.pc = "failed"]
<1>1. /\ x.pc = "expect" /\ x.next <= Len(log) /\ log' = log
      /\ run' = [run EXCEPT ![r] =
           IF Lagged(x.next) \/ ~Consumes(r, event) THEN failed
           ELSE IF next = Len(step.pattern) THEN passed ELSE waits]
  BY DEF Expect, Pending, Newest, ledgerVars, Pattern, Step
<1>2. RunOK(x, log) /\ RunsInv /\ log \in Seq(LogEvent)
  BY DEF MatchInv, RunsInv, LedgerInv
<1>3. Len(log) \in Nat
  <2> HIDE DEF LogEvent
  <2> QED BY <1>2
<1>4. Consumes(r, event) => (event.epoch = x.epoch \/ x.next <= x.seq) /\ event.kind \notin {"down", "rxgap"}
  BY DEF Consumes
<1> HIDE DEF x, passed, waits, failed, next, top
<1>5. /\ PlaceOK(x, Len(log)) /\ DOMAIN x = RunFields
      /\ x.pc \in Reading /\ x.pc \in Executing /\ x.pc \in Expecting
  BY <1>1, <1>2 DEF RunOK, Reading, Executing, Expecting
<1>6. /\ x.seq \in Nat /\ x.next = x.seq + 1 /\ x.start \in 0 .. x.seq
      /\ x.steps \in Workflows /\ x.step \in 1 .. Len(x.steps) /\ x.key \in Keys
      /\ ExpectOK(step, x.matched, x.start, x.seq, x.epoch, log)
  BY <1>2, <1>5 DEF RunOK, PlaceOK, Executing
<1>7. top = x.seq + 1
  <2>1. x.next \in Nat /\ x.seq <= x.next
    BY <1>6
  <2>2. Max({x.seq, x.next}) = x.next
    BY <1>6, <2>1, OfTwo
  <2> QED BY <1>6, <2>2 DEF top
<1>8. step.op = "expect" /\ step.pattern \in Seq(Byte) /\ step.pattern # <<>>
  BY <1>6, Validated DEF ExpectOK
<1>9. CASE run' = [run EXCEPT ![r] = failed]
  <2>1. RunOK(failed, log)
    <3>1. "failed" \in Executing /\ "failed" \notin {"claimed", "subscribed", "cursor"}
          /\ "failed" \notin Reading /\ "failed" \notin Expecting
      BY DEF Executing, Reading, Expecting
    <3> QED BY <1>2, <1>5, <3>1, GotoOK DEF failed
  <2> QED BY <1>1, <1>2, <1>9, <2>1, OneRun
<1>10. CASE Consumes(r, event)
  <2>1. event.epoch = x.epoch /\ event.kind \notin {"down", "rxgap"}
    BY <1>4, <1>6, <1>10
  <2> HIDE DEF step
  <2>2. /\ next = Len(step.pattern) =>
             EvidenceOK([step |-> step, start |-> x.start, end |-> x.seq + 1], x.epoch, log)
        /\ next # Len(step.pattern) => ExpectOK(step, next, x.start, x.seq + 1, x.epoch, log)
    <3>1. x.start \in Nat /\ x.seq \in Nat /\ x.start <= x.seq /\ x.seq + 1 <= Len(log)
      BY <1>1, <1>6
    <3>2. next = Feed(step.pattern, x.matched, log[x.seq + 1].data)
      BY <1>6 DEF next
    <3>3. log[x.seq + 1].epoch = x.epoch /\ log[x.seq + 1].kind \notin {"down", "rxgap"}
      BY <1>6, <2>1
    <3> HIDE DEF event
    <3> QED BY <1>2, <1>6, <1>8, <3>1, <3>2, <3>3, ExpectGoesOn
  <2>3. CASE run' = [run EXCEPT ![r] = passed] /\ next = Len(step.pattern)
    <3> DEFINE e == [step |-> step, start |-> x.start, end |-> x.seq + 1]
    <3>1. EvidenceOK(e, x.epoch, log)
      BY <2>2, <2>3
    <3>2. /\ DOMAIN passed = RunFields /\ passed.key = x.key /\ passed.steps = x.steps /\ passed.epoch = x.epoch
          /\ passed.next = x.next + 1 /\ passed.seq = top /\ passed.start = top
          /\ passed.step = x.step + 1 /\ passed.matched = 0
          /\ passed.evidence = Append(x.evidence, [step |-> x.steps[x.step], start |-> x.start, end |-> top])
          /\ passed.pc = IF x.step = Len(x.steps) THEN "succeeded" ELSE "step"
      <4> DEFINE y == Passed(x, top)
      <4>1. /\ DOMAIN y = RunFields
            /\ y.key = x.key /\ y.steps = x.steps /\ y.epoch = x.epoch
            /\ y.seq = top /\ y.start = top /\ y.step = x.step + 1 /\ y.matched = 0
            /\ y.evidence = Append(x.evidence, [step |-> x.steps[x.step], start |-> x.start, end |-> top])
            /\ y.pc = IF x.step = Len(x.steps) THEN "succeeded" ELSE "step"
        BY <1>5, PassedFields
      <4>2. passed = [y EXCEPT !.next = x.next + 1]
        BY DEF passed
      <4> HIDE DEF y
      <4> QED BY <4>1, <4>2 DEF RunFields
    <3>3. /\ x.seq + 1 \in 0 .. Len(log) /\ x.start <= x.seq + 1
          /\ passed.next = (x.seq + 1) + 1 /\ passed.seq = x.seq + 1 /\ passed.start = x.seq + 1
      BY <1>1, <1>3, <1>6, <1>7, <3>2
    <3>4. passed.evidence = Append(x.evidence, e) /\ e = [step |-> x.steps[x.step], start |-> x.start, end |-> x.seq + 1]
      BY <1>7, <3>2 DEF step
    <3> HIDE DEF e
    <3>5. RunOK(passed, log)
      BY <1>2, <1>3, <1>5, <3>1, <3>2, <3>3, <3>4, PassedOK
    <3> QED BY <1>1, <1>2, <2>3, <3>5, OneRun
  <2>4. CASE run' = [run EXCEPT ![r] = waits] /\ next # Len(step.pattern)
    <3>1. /\ DOMAIN waits = RunFields /\ waits.pc = "port" /\ waits.key = x.key /\ waits.steps = x.steps
          /\ waits.epoch = x.epoch /\ waits.step = x.step /\ waits.start = x.start /\ waits.evidence = x.evidence
          /\ waits.matched = next /\ waits.next = x.next + 1 /\ waits.seq = top
      BY <1>5 DEF waits, RunFields
    <3>2. PlaceOK(waits, Len(log))
      <4>1. waits.seq = x.seq + 1 /\ waits.next = (x.seq + 1) + 1 /\ x.seq + 1 <= Len(log) /\ waits.start \in 0 .. x.seq + 1
        BY <1>1, <1>6, <1>7, <3>1
      <4>2. waits.seq \in 0 .. Len(log) /\ waits.next \in 0 .. Len(log) + 1
        BY <1>3, <1>6, <4>1
      <4> QED BY <1>6, <3>1, <4>1, <4>2 DEF PlaceOK, Executing, Reading, Expecting
    <3>3. ExpectOK(waits.steps[waits.step], waits.matched, waits.start, waits.seq, waits.epoch, log)
      <4>1. ExpectOK(step, next, x.start, x.seq + 1, x.epoch, log)
        BY <2>2, <2>4
      <4> QED BY <1>7, <3>1, <4>1 DEF step
    <3>4. Evident(waits.evidence, waits.epoch, log)
      BY <1>2, <3>1 DEF RunOK
    <3>5. waits.pc \in Places
      BY <3>1 DEF Places, Executing
    <3>6. RunOK(waits, log)
      BY <3>1, <3>2, <3>3, <3>4, <3>5 DEF RunOK
    <3> QED BY <1>1, <1>2, <2>4, <3>6, OneRun
  <2>5. run' = [run EXCEPT ![r] = failed]
        \/ (run' = [run EXCEPT ![r] = passed] /\ next = Len(step.pattern))
        \/ (run' = [run EXCEPT ![r] = waits] /\ next # Len(step.pattern))
    <3> HIDE DEF event
    <3> QED BY <1>1 DEF step
  <2> QED BY <1>9, <2>3, <2>4, <2>5
<1>11. CASE ~Consumes(r, event)
  <2>1. run' = [run EXCEPT ![r] = failed]
    BY <1>1, <1>11
  <2> QED BY <1>9, <2>1
<1> QED BY <1>10, <1>11

\* Before a run executes, and after.
LEMMA CheckCompletedKeeps ==
  ASSUME MatchInv, NEW r \in Runs, CheckCompleted(r)
  PROVE  RunsInv'
<1> DEFINE x == run[r]
<1>1. RunsInv /\ RunOK(x, log) /\ log' = log /\ x.pc = "idle"
  BY DEF MatchInv, RunsInv, CheckCompleted, ledgerVars
<1>2. PICK k \in Keys, w \in Workflows :
        run' = [run EXCEPT ![r] =
          IF completed[k] # None THEN [x EXCEPT !.pc = "done", !.key = k, !.answer = completed[k]]
          ELSE [x EXCEPT !.pc = "checked", !.key = k, !.steps = w]]
  BY DEF CheckCompleted
<1> DEFINE ended == [x EXCEPT !.pc = "done", !.key = k, !.answer = completed[k]]
           begun == [x EXCEPT !.pc = "checked", !.key = k, !.steps = w]
<1> HIDE DEF x
<1>3. DOMAIN x = RunFields /\ PlaceOK(x, Len(log)) /\ Evident(x.evidence, x.epoch, log)
  BY <1>1 DEF RunOK
<1>4. /\ x.seq \in 0 .. Len(log) /\ x.next \in 0 .. Len(log) + 1
      /\ x.step = 1 /\ x.matched = 0 /\ x.evidence = <<>>
  BY <1>1, <1>3 DEF PlaceOK
<1>5. /\ DOMAIN ended = RunFields /\ ended.pc = "done" /\ ended.key = k /\ ended.seq = x.seq /\ ended.next = x.next
      /\ ended.step = x.step /\ ended.matched = x.matched /\ ended.evidence = x.evidence /\ ended.epoch = x.epoch
  BY <1>3 DEF RunFields
<1>6. /\ DOMAIN begun = RunFields /\ begun.pc = "checked" /\ begun.key = k /\ begun.steps = w
      /\ begun.seq = x.seq /\ begun.next = x.next
      /\ begun.step = x.step /\ begun.matched = x.matched /\ begun.evidence = x.evidence /\ begun.epoch = x.epoch
  BY <1>3 DEF RunFields
<1>7. run' = [run EXCEPT ![r] = ended] \/ run' = [run EXCEPT ![r] = begun]
  BY <1>2
<1> HIDE DEF ended, begun
<1>8. RunOK(ended, log)
  <2>1. PlaceOK(ended, Len(log))
    BY <1>4, <1>5 DEF PlaceOK, Executing, Reading
  <2>2. ended.pc \in Places /\ ended.pc \notin Expecting
    BY <1>5 DEF Places, Expecting
  <2> QED BY <1>3, <1>5, <2>1, <2>2 DEF RunOK
<1>9. RunOK(begun, log)
  <2>1. PlaceOK(begun, Len(log))
    BY <1>4, <1>6 DEF PlaceOK, Executing, Reading
  <2>2. begun.pc \in Places /\ begun.pc \notin Expecting
    BY <1>6 DEF Places, Expecting
  <2> QED BY <1>3, <1>6, <2>1, <2>2 DEF RunOK
<1> QED BY <1>1, <1>7, <1>8, <1>9, OneRun

LEMMA AroundKeeps ==
  ASSUME MatchInv, NEW r \in Runs, Claim(r) \/ Unclaim(r) \/ Publish(r) \/ Abandon(r)
  PROVE  RunsInv' /\ active' \subseteq Keys
<1> DEFINE x == run[r]
<1>1. RunsInv /\ RunOK(x, log) /\ Len(log) \in Nat
  <2>1. RunsInv /\ log \in Seq(LogEvent)
    BY DEF MatchInv, LedgerInv
  <2> HIDE DEF LogEvent
  <2> QED BY <2>1 DEF RunsInv
<1>2. log' = log /\ x.pc # "idle"
  BY DEF Claim, Unclaim, Publish, Abandon, ledgerVars
<1>3. DOMAIN x = RunFields /\ PlaceOK(x, Len(log)) /\ Evident(x.evidence, x.epoch, log) /\ x.key \in Keys
  BY <1>1, <1>2 DEF RunOK, PlaceOK
<1>4. active' \subseteq Keys
  BY <1>3 DEF Claim, Unclaim, Publish, Abandon, MatchInv, LinkInv
<1> SUFFICES RunsInv'
  BY <1>4
<1>5. ASSUME NEW pc \in {"publish", "done", "gone"}, run' = [run EXCEPT ![r] = Over(x, pc)]
      PROVE  RunsInv'
  <2> HIDE DEF x
  <2>1. RunOK(Over(x, pc), log)
    BY <1>1, <1>3, OverOK
  <2> QED BY <1>1, <1>2, <1>5, <2>1, OneRun
<1>6. CASE Claim(r)
  <2>1. CASE x.key \in active
    <3>1. run' = [run EXCEPT ![r] = Over(x, "done")]
      BY <1>6, <2>1 DEF Claim
    <3> QED BY <1>5, <3>1
  <2>2. CASE x.key \notin active
    <3> DEFINE y == [x EXCEPT !.pc = "claimed"]
    <3>1. run' = [run EXCEPT ![r] = y] /\ x.pc = "checked"
      BY <1>6, <2>2 DEF Claim
    <3> HIDE DEF x
    <3>2. /\ DOMAIN y = RunFields /\ y.pc = "claimed" /\ y.key = x.key /\ y.steps = x.steps
          /\ y.seq = x.seq /\ y.next = x.next /\ y.epoch = x.epoch /\ y.step = x.step
          /\ y.matched = x.matched /\ y.evidence = x.evidence
      BY <1>3 DEF RunFields
    <3> HIDE DEF y
    <3>3. PlaceOK(y, Len(log))
      BY <1>3, <3>1, <3>2 DEF PlaceOK, Executing, Reading, Expecting
    <3>4. y.pc \in Places /\ y.pc \notin Expecting
      BY <3>2 DEF Places, Executing, Expecting
    <3>5. RunOK(y, log)
      BY <1>3, <3>2, <3>3, <3>4 DEF RunOK
    <3> QED BY <1>1, <1>2, <3>1, <3>5, OneRun
  <2> QED BY <2>1, <2>2
<1>7. CASE Unclaim(r)
  <2>1. run' = [run EXCEPT ![r] = Over(x, "publish")] \/ run' = [run EXCEPT ![r] = Over(x, "done")]
    BY <1>7 DEF Unclaim
  <2> QED BY <1>5, <2>1
<1>8. CASE Publish(r)
  <2> DEFINE y == [x EXCEPT !.pc = "done", !.answer = r]
  <2>1. run' = [run EXCEPT ![r] = y]
    BY <1>8 DEF Publish
  <2> HIDE DEF x
  <2>2. /\ DOMAIN y = RunFields /\ y.pc = "done" /\ y.key = x.key
        /\ y.seq = x.seq /\ y.next = x.next /\ y.epoch = x.epoch /\ y.evidence = x.evidence
    BY <1>3 DEF RunFields
  <2> HIDE DEF y
  <2>3. PlaceOK(y, Len(log))
    BY <1>3, <2>2 DEF PlaceOK, Executing, Reading, Expecting
  <2>4. y.pc \in Places /\ y.pc \notin Expecting
    BY <2>2 DEF Places, Expecting
  <2>5. RunOK(y, log)
    BY <1>3, <2>2, <2>3, <2>4 DEF RunOK
  <2> QED BY <1>1, <1>2, <2>1, <2>5, OneRun
<1>9. CASE Abandon(r)
  <2>1. run' = [run EXCEPT ![r] = Over(x, "gone")]
    BY <1>9 DEF Abandon
  <2> QED BY <1>5, <2>1
<1> QED BY <1>6, <1>7, <1>8, <1>9

\* The cursor is set up before the first step.
LEMMA CursorKeeps ==
  ASSUME MatchInv, NEW r \in Runs, Subscribe(r) \/ ReadCursor(r)
  PROVE  RunsInv'
<1> DEFINE x == run[r]
           at == [x EXCEPT !.pc = "subscribed", !.next = Newest + 1, !.seq = Newest, !.start = Newest]
           on == [x EXCEPT !.pc = "cursor", !.epoch = link.epoch]
<1>1. RunsInv /\ RunOK(x, log) /\ Newest = Len(log) /\ Newest \in Nat /\ log' = log
  <2>1. RunsInv /\ log \in Seq(LogEvent)
    BY DEF MatchInv, LedgerInv
  <2>2. log' = log
    BY DEF Subscribe, ReadCursor, ledgerVars
  <2> HIDE DEF LogEvent
  <2> QED BY <2>1, <2>2 DEF RunsInv, Newest
<1>2. \/ x.pc = "claimed" /\ run' = [run EXCEPT ![r] = at]
      \/ x.pc = "subscribed" /\ run' = [run EXCEPT ![r] = on]
  BY DEF Subscribe, ReadCursor
<1> HIDE DEF x
<1>3. DOMAIN x = RunFields /\ PlaceOK(x, Len(log)) /\ Evident(x.evidence, x.epoch, log)
  BY <1>1 DEF RunOK
<1>4. x.pc \in {"claimed", "subscribed"}
  BY <1>2
<1>5. x.key \in Keys /\ x.steps \in Workflows /\ x.step = 1 /\ x.matched = 0 /\ x.evidence = <<>>
  BY <1>3, <1>4 DEF PlaceOK, Executing
<1>6. x.step \in 1 .. Len(x.steps)
  BY <1>5, Validated
<1>7. CASE x.pc = "claimed" /\ run' = [run EXCEPT ![r] = at]
  <2>1. /\ DOMAIN at = RunFields /\ at.pc = "subscribed" /\ at.key = x.key /\ at.steps = x.steps
        /\ at.next = Newest + 1 /\ at.seq = Newest /\ at.start = Newest /\ at.epoch = x.epoch
        /\ at.step = x.step /\ at.matched = x.matched /\ at.evidence = x.evidence
    BY <1>3 DEF RunFields
  <2> HIDE DEF at
  <2>2. PlaceOK(at, Len(log))
    <3>1. at.seq \in 0 .. Len(log) /\ at.next \in 0 .. Len(log) + 1 /\ at.next = at.seq + 1 /\ at.start \in 0 .. at.seq
      BY <1>1, <2>1
    <3> QED BY <1>5, <1>6, <2>1, <3>1 DEF PlaceOK, Executing, Reading, Expecting
  <2>3. at.pc \in Places /\ at.pc \notin Expecting
    BY <2>1 DEF Places, Executing, Expecting
  <2>4. RunOK(at, log)
    BY <1>3, <2>1, <2>2, <2>3 DEF RunOK
  <2> QED BY <1>1, <1>7, <2>4, OneRun
<1>8. CASE x.pc = "subscribed" /\ run' = [run EXCEPT ![r] = on]
  <2>1. /\ DOMAIN on = RunFields /\ on.pc = "cursor" /\ on.key = x.key /\ on.steps = x.steps
        /\ on.next = x.next /\ on.seq = x.seq /\ on.start = x.start
        /\ on.step = x.step /\ on.matched = x.matched /\ on.evidence = x.evidence
    BY <1>3 DEF RunFields
  <2> HIDE DEF on
  <2>2. PlaceOK(on, Len(log))
    BY <1>3, <1>8, <2>1 DEF PlaceOK, Executing, Reading, Expecting
  <2>3. on.pc \in Places /\ on.pc \notin Expecting
    BY <2>1 DEF Places, Executing, Expecting
  <2>4. Evident(on.evidence, on.epoch, log)
    BY <1>5, <2>1 DEF Evident
  <2>5. RunOK(on, log)
    BY <2>1, <2>2, <2>3, <2>4 DEF RunOK
  <2> QED BY <1>1, <1>8, <2>5, OneRun
<1> QED BY <1>2, <1>7, <1>8

\* From place to place; a step that reads no events may pass.
LEMMA PlacesKeep ==
  ASSUME MatchInv, NEW r \in Runs,
         CheckPort(r) \/ BeginStep(r) \/ SendReturns(r) \/ StepFails(r) \/ ExpectPort(r)
  PROVE  RunsInv'
<1> DEFINE x == run[r]
           step == x.steps[x.step]
<1>1. RunsInv /\ RunOK(x, log) /\ Len(log) \in Nat
  <2>1. RunsInv /\ log \in Seq(LogEvent)
    BY DEF MatchInv, LedgerInv
  <2> HIDE DEF LogEvent
  <2> QED BY <2>1 DEF RunsInv
<1>2. x.pc \in Reading /\ x.pc \in Executing
  BY DEF CheckPort, BeginStep, SendReturns, StepFails, ExpectPort, Reading, Executing
<1>3. ASSUME NEW pc \in Executing, Goto(r, pc), RunOK([x EXCEPT !.pc = pc], log)
      PROVE  RunsInv'
  <2> DEFINE y == [x EXCEPT !.pc = pc]
  <2>1. run' = [run EXCEPT ![r] = y] /\ log' = log
    BY <1>3 DEF Goto, ledgerVars
  <2> HIDE DEF y
  <2> QED BY <1>1, <1>3, <2>1, OneRun DEF y
<1>4. CASE Goto(r, "failed")
  <2>1. "failed" \in Executing /\ "failed" \notin {"claimed", "subscribed", "cursor"}
        /\ "failed" \notin Reading /\ "failed" \notin Expecting
    BY DEF Executing, Reading, Expecting
  <2> HIDE DEF x
  <2>2. RunOK([x EXCEPT !.pc = "failed"], log)
    BY <1>1, <1>2, <2>1, GotoOK
  <2> QED BY <1>3, <1>4, <2>1, <2>2
<1>5. CASE Goto(r, "step") /\ x.pc = "cursor"
  <2>1. "step" \in Executing /\ "step" \notin {"claimed", "subscribed", "cursor"}
        /\ "step" \notin Expecting /\ "cursor" \in Reading \ Expecting
    BY DEF Executing, Reading, Expecting
  <2>2. RunOK([x EXCEPT !.pc = "step"], log)
    <3> HIDE DEF x
    <3> QED BY <1>1, <1>2, <1>5, <2>1, GotoOK
  <2> QED BY <1>3, <1>5, <2>1, <2>2
<1>6. CASE Goto(r, "sending") /\ x.pc = "step" /\ step.op = "send"
  <2>1. "sending" \in Executing /\ "sending" \notin {"claimed", "subscribed", "cursor"}
        /\ "sending" \notin Expecting /\ "step" \in Reading \ Expecting
    BY DEF Executing, Reading, Expecting
  <2>2. RunOK([x EXCEPT !.pc = "sending"], log)
    <3>1. step.op # "expect"
      BY <1>6
    <3> HIDE DEF x
    <3> QED BY <1>1, <1>2, <1>6, <2>1, <3>1, GotoOK DEF step
  <2> QED BY <1>3, <1>6, <2>1, <2>2
<1>7. CASE Goto(r, "expect") /\ (x.pc = "port" \/ (x.pc = "step" /\ step.op = "expect"))
  <2>1. "expect" \in Executing /\ "expect" \notin {"claimed", "subscribed", "cursor"} /\ "expect" \in Expecting
    BY DEF Executing, Expecting
  <2>2. ExpectOK(step, x.matched, x.start, x.seq, x.epoch, log)
    <3>1. CASE x.pc = "port"
      BY <1>1, <3>1 DEF RunOK, Expecting
    <3>2. CASE x.pc = "step" /\ step.op = "expect"
      <4> HIDE DEF x
      <4> QED BY <1>1, <3>2, ExpectBegins DEF step
    <3> QED BY <1>7, <3>1, <3>2
  <2>3. RunOK([x EXCEPT !.pc = "expect"], log)
    <3> HIDE DEF x
    <3> QED BY <1>1, <1>2, <2>1, <2>2, GotoOK DEF step
  <2> QED BY <1>3, <1>7, <2>1, <2>3
<1>8. CASE Pass(r) /\ x.pc \in {"step", "sent"} /\ step.op # "expect"
  <2> DEFINE y == Passed(x, x.seq)
  <2>1. run' = [run EXCEPT ![r] = y] /\ log' = log
    BY <1>8 DEF Pass, ledgerVars
  <2>2. RunOK(y, log)
    <3>1. x.pc \in Reading \ Expecting
      BY <1>8 DEF Reading, Expecting
    <3> HIDE DEF x
    <3> QED BY <1>1, <1>8, <3>1, PassOK DEF step
  <2> HIDE DEF y
  <2> QED BY <1>1, <2>1, <2>2, OneRun
<1>9. CASE CheckPort(r)
  BY <1>4, <1>5, <1>9 DEF CheckPort
<1>10. CASE BeginStep(r)
  BY <1>6, <1>7, <1>8, <1>10 DEF BeginStep, Step
<1>11. CASE SendReturns(r)
  <2>1. x.pc = "sent" /\ Pass(r)
    BY <1>11 DEF SendReturns
  <2>2. step.op # "expect"
    BY <1>1, <2>1 DEF RunOK, PlaceOK
  <2> QED BY <1>8, <2>1, <2>2
<1>12. CASE StepFails(r)
  BY <1>4, <1>12 DEF StepFails
<1>13. CASE ExpectPort(r)
  <2>1. x.pc = "port"
    BY <1>13 DEF ExpectPort
  <2>2. CASE Goto(r, "expect")
    BY <1>7, <2>1, <2>2
  <2>3. CASE Goto(r, "failed")
    BY <1>4, <2>3
  <2>4. CASE link.connected /\ link.epoch = run[r].epoch
    BY <1>13, <2>2, <2>4 DEF ExpectPort
  <2> QED BY <1>13, <2>3, <2>4 DEF ExpectPort
<1> QED BY <1>9, <1>10, <1>11, <1>12, <1>13

-----------------------------------------------------------------------------
(* The steps of the others                                                 *)

\* Events of the owner thread, of a control request and of a run's own write.
LEMMA EventsKeep ==
  ASSUME MatchInv,
         \/ RecordLink \/ DeviceRx \/ ReadFails \/ RecordControl
         \/ \E r \in Runs : HostWrites(r)
  PROVE  LedgerInv' /\ RunsInv'
<1>1. /\ link \in [connected : BOOLEAN, epoch : 0 .. MaxLinks] /\ MaxLinks \in Nat
      /\ control # None => control \in 0 .. MaxLinks
      /\ Chunks \subseteq Seq(Byte)
  BY WorkflowAssumption, DefinitionAssumption DEF MatchInv, LinkInv
<1>2. link.epoch \in Nat /\ <<>> \in Seq(Byte)
  BY <1>1
<1>3. PICK e \in LogEvent : AppendEvent(e)
  <2>1. CASE RecordLink
    BY <1>2, <2>1 DEF RecordLink, Event, LogEvent
  <2>2. CASE DeviceRx
    BY <1>1, <1>2, <2>2 DEF DeviceRx, Event, LogEvent
  <2>3. CASE ReadFails
    BY <1>2, <2>3 DEF ReadFails, Event, LogEvent
  <2>4. CASE RecordControl
    <3>1. control \in Nat /\ AppendEvent(Event("control", control, <<>>))
      BY <1>1, <2>4 DEF RecordControl
    <3> QED BY <1>2, <3>1 DEF Event, LogEvent
  <2>5. CASE \E r \in Runs : HostWrites(r)
    BY <1>2, <2>5 DEF HostWrites, Event, LogEvent
  <2> QED BY <2>1, <2>2, <2>3, <2>4, <2>5
<1> HIDE DEF LogEvent
<1>4. LedgerInv' /\ log' = Append(log, e)
  BY <1>3, AppendKeepsLedger DEF MatchInv
<1>5. RunsInv /\ log \in Seq(LogEvent)
  BY DEF MatchInv, LedgerInv
<1>6. \A q \in Runs : RunOK(run[q], log')
  BY <1>4, <1>5, RunsSeeMore
<1>7. CASE run' = run
  <2>1. DOMAIN run' = Runs /\ \A q \in Runs : RunOK(run'[q], log')
    BY <1>5, <1>6, <1>7 DEF RunsInv
  <2> QED BY <1>4, <2>1 DEF RunsInv
<1>8. ASSUME NEW r \in Runs, HostWrites(r)
      PROVE  RunsInv'
  <2> DEFINE x == run[r]
             y == [x EXCEPT !.pc = "sent"]
  <2>1. x.pc = "sending" /\ run' = [run EXCEPT ![r] = y]
    BY <1>8 DEF HostWrites
  <2>2. RunOK(x, log')
    BY <1>6
  <2>3. RunOK(y, log')
    <3>1. /\ "sent" \in Executing /\ "sent" \notin {"claimed", "subscribed", "cursor"} /\ "sending" \in Executing
          /\ "sent" \notin Expecting /\ "sending" \in Reading \ Expecting
      BY DEF Executing, Reading, Expecting
    <3> HIDE DEF x
    <3> DEFINE l == log'
    <3>2. RunOK(x, l)
      BY <2>2
    <3> HIDE DEF l
    <3>3. RunOK([x EXCEPT !.pc = "sent"], l)
      BY <2>1, <3>1, <3>2, GotoOK
    <3> QED BY <3>3 DEF l
  <2>4. DOMAIN run' = Runs /\ \A q \in Runs : run'[q] = IF q = r THEN y ELSE run[q]
    BY <1>5, <2>1 DEF RunsInv
  <2> HIDE DEF y
  <2>5. \A q \in Runs : RunOK(run'[q], log')
    BY <1>6, <2>3, <2>4
  <2> QED BY <2>4, <2>5 DEF RunsInv
<1>9. run' = run \/ \E r \in Runs : HostWrites(r)
  BY DEF RecordLink, DeviceRx, ReadFails, RecordControl, runner
<1> QED BY <1>4, <1>7, <1>8, <1>9

\* The port, and what is remembered of results.
LEMMA LinkKeeps ==
  ASSUME MatchInv, Next
  PROVE  LinkInv'
<1>1. /\ LinkInv /\ RunsInv /\ MaxLinks \in Nat
  BY WorkflowAssumption DEF MatchInv
<1>2. link.connected \in BOOLEAN /\ link.epoch \in 0 .. MaxLinks /\ DOMAIN link = {"connected", "epoch"}
  BY <1>1 DEF LinkInv
<1>3. /\ link' \in [connected : BOOLEAN, epoch : 0 .. MaxLinks] /\ owner' \in {"idle", "lost", "record"}
      /\ control' # None => control' \in 0 .. MaxLinks
  <2>1. CASE UNCHANGED broker
    BY <1>1, <2>1 DEF broker, LinkInv
  <2>2. CASE Connects
    <3>1. link.epoch + 1 \in 0 .. MaxLinks
      BY <1>1, <1>2, <2>2 DEF Connects
    <3> QED BY <1>1, <2>2, <3>1 DEF Connects, LinkInv
  <2>3. CASE Disconnects
    BY <1>1, <1>2, <2>3 DEF Disconnects, LinkInv
  <2>4. CASE RecordLink \/ ReadFails \/ RecordControl
    BY <1>1, <2>4 DEF RecordLink, ReadFails, RecordControl, LinkInv
  <2>5. CASE ReadEpoch
    BY <1>1, <1>2, <2>5 DEF ReadEpoch, LinkInv
  <2>6. CASE DeviceRx \/ \E r \in Runs : RunStep(r) \/ HostWrites(r) \/ StepFails(r) \/ Abandon(r)
    <3>1. UNCHANGED broker
      BY <2>6 DEF DeviceRx, HostWrites, StepFails, Abandon, RunStep, CheckCompleted, Claim, Unclaim, Publish,
                  Subscribe, ReadCursor, CheckPort, BeginStep, SendReturns, Expect, ExpectPort, Goto, Pass
    <3> QED BY <2>1, <3>1
  <2> QED BY <2>2, <2>3, <2>4, <2>5, <2>6 DEF Next
<1>4. active' \subseteq Keys
  <2>1. CASE \E r \in Runs : Claim(r) \/ Unclaim(r) \/ Publish(r) \/ Abandon(r)
    BY <2>1, AroundKeeps
  <2>2. CASE ~ \E r \in Runs : Claim(r) \/ Unclaim(r) \/ Publish(r) \/ Abandon(r)
    <3>1. active' = active
      BY <2>2 DEF Next, RunStep, Connects, Disconnects, RecordLink, DeviceRx, ReadFails, ReadEpoch, RecordControl,
                  runner, HostWrites, StepFails, CheckCompleted, Subscribe, ReadCursor, CheckPort, BeginStep,
                  SendReturns, Expect, ExpectPort, Goto, Pass
    <3> QED BY <1>1, <3>1 DEF LinkInv
  <2> QED BY <2>1, <2>2
<1>5. completed' \in [Keys -> Runs \union {None}]
  <2>1. CASE \E r \in Runs : Publish(r)
    BY <1>1, <2>1 DEF Publish, LinkInv
  <2>2. CASE ~ \E r \in Runs : Publish(r)
    <3>1. completed' = completed
      BY <2>2 DEF Next, RunStep, Connects, Disconnects, RecordLink, DeviceRx, ReadFails, ReadEpoch, RecordControl,
                  runner, HostWrites, StepFails, Abandon, CheckCompleted, Claim, Unclaim, Subscribe, ReadCursor,
                  CheckPort, BeginStep, SendReturns, Expect, ExpectPort, Goto, Pass
    <3> QED BY <1>1, <3>1 DEF LinkInv
  <2> QED BY <2>1, <2>2
<1> QED BY <1>3, <1>4, <1>5 DEF LinkInv

\* At first there is no event and no call has begun.
LEMMA MatchInit ==
  ASSUME Init
  PROVE  MatchInv
<1>1. LedgerInv
  <2>1. <<>> \in Seq(LogEvent) /\ Len(<<>>) = 0
    <3> HIDE DEF LogEvent
    <3> QED OBVIOUS
  <2>2. RingMax \in Nat \ {0} /\ MaxEvents \in Nat /\ MaxFaults \in Nat /\ Stores \subseteq {"active", "disabled"}
    BY LedgerAssumption
  <2>3. /\ log = <<>> /\ oldest = 1 /\ persistence \in Stores /\ stored = 0 /\ readable = 0
        /\ closed = FALSE /\ faults = 0 /\ Newest = 0
    BY <2>1 DEF Init, LedgerInit, Newest
  <2>4. log \in Seq(LogEvent)
    BY <2>1, <2>3
  <2> HIDE DEF LogEvent
  <2>5. closed \in BOOLEAN
    BY <2>3
  <2> QED BY <2>2, <2>3, <2>4, <2>5 DEF LedgerInv
<1>2. LinkInv
  BY WorkflowAssumption DEF Init, LinkInv
<1>3. log = <<>> /\ Len(log) = 0 /\ run = [r \in Runs |-> NewRun]
  BY DEF Init, LedgerInit
<1>4. RunOK(NewRun, log)
  <2>1. /\ DOMAIN NewRun = RunFields /\ NewRun.pc = "idle" /\ NewRun.seq = 0 /\ NewRun.next = 0
        /\ NewRun.step = 1 /\ NewRun.matched = 0 /\ NewRun.evidence = <<>>
    BY DEF NewRun, RunFields
  <2>2. PlaceOK(NewRun, Len(log))
    BY <1>3, <2>1 DEF PlaceOK, Executing, Reading
  <2>3. Evident(NewRun.evidence, NewRun.epoch, log)
    BY <2>1 DEF Evident
  <2>4. NewRun.pc \in Places /\ NewRun.pc \notin Expecting
    BY <2>1 DEF Places, Expecting
  <2> QED BY <2>1, <2>2, <2>3, <2>4 DEF RunOK
<1>5. RunsInv
  BY <1>3, <1>4 DEF RunsInv
<1> QED BY <1>1, <1>2, <1>5 DEF MatchInv

\* Every step keeps the invariant.
LEMMA MatchNext ==
  ASSUME MatchInv, [Next]_workflowVars
  PROVE  MatchInv'
<1>1. CASE UNCHANGED workflowVars
  <2>1. LedgerInv'
    BY <1>1, StillKeepsLedger DEF MatchInv, workflowVars, ledgerVars
  <2>2. LinkInv' /\ RunsInv'
    BY <1>1 DEF MatchInv, workflowVars, LinkInv, RunsInv
  <2> QED BY <2>1, <2>2 DEF MatchInv
<1>2. CASE Next
  <2>1. LinkInv'
    BY <1>2, LinkKeeps
  <2>2. CASE RecordLink \/ DeviceRx \/ ReadFails \/ RecordControl \/ \E r \in Runs : HostWrites(r)
    BY <2>1, <2>2, EventsKeep DEF MatchInv
  <2>3. CASE Connects \/ Disconnects \/ ReadEpoch
    <3>1. UNCHANGED ledgerVars /\ run' = run /\ log' = log
      BY <2>3 DEF Connects, Disconnects, ReadEpoch, runner, ledgerVars
    <3> QED BY <2>1, <3>1, StillKeepsLedger DEF MatchInv, RunsInv
  <2>4. ASSUME NEW r \in Runs, RunStep(r) \/ StepFails(r) \/ Abandon(r)
        PROVE  MatchInv'
    <3>1. UNCHANGED ledgerVars
      BY <2>4 DEF RunStep, StepFails, Abandon, CheckCompleted, Claim, Unclaim, Publish, Subscribe, ReadCursor,
                  CheckPort, BeginStep, SendReturns, Expect, ExpectPort, Goto, Pass
    <3>2. LedgerInv'
      BY <3>1, StillKeepsLedger DEF MatchInv
    <3>3. RunsInv'
      BY <2>4, ExpectKeeps, CheckCompletedKeeps, AroundKeeps, CursorKeeps, PlacesKeep DEF RunStep
    <3> QED BY <2>1, <3>2, <3>3 DEF MatchInv
  <2> QED BY <1>2, <2>2, <2>3, <2>4 DEF Next
<1> QED BY <1>1, <1>2

\* Whatever the pattern, however reads cut the bytes and whoever else appends events: each
\* run's evidence is right, and a waiting one has consumed every event since it started.
THEOREM Matched == Spec => []MatchInv
  BY MatchInit, MatchNext, PTL DEF Spec

\* The variables have their types, and as much of a pattern as is matched is less than all
\* of it (expect_bytes).
THEOREM RunsTyped == Spec => []TypeOK
<1>1. ASSUME MatchInv
      PROVE  TypeOK
  <2>1. LedgerTypeOK
    BY <1>1 DEF MatchInv, LedgerInv, LedgerTypeOK, Newest
  <2>2. ASSUME NEW r \in Runs
        PROVE  LET x == run[r] IN
               /\ x.pc \in Executing \union {"idle", "checked", "publish", "done", "gone"}
               /\ x.seq \in 0 .. Newest /\ x.next \in 0 .. Newest + 1
               /\ x.pc \in {"expect", "port"} => x.matched \in 0 .. Len(Pattern(r)) - 1
    <3> DEFINE x == run[r]
    <3>1. RunOK(x, log)
      BY <1>1 DEF MatchInv, RunsInv
    <3>2. x.pc \in Expecting => Waiting(Pattern(r), Concat(log, x.start, x.seq), x.matched)
      BY <3>1 DEF RunOK, ExpectOK, Pattern, Step
    <3>3. x.pc \in Expecting => x.matched \in 0 .. Len(Pattern(r)) - 1
      BY <3>2 DEF Waiting, Progress, Greatest, Overlaps
    <3> QED BY <3>1, <3>3 DEF RunOK, PlaceOK, Places, Newest, Expecting
  <2> QED BY <1>1, <2>1, <2>2 DEF MatchInv, LinkInv, TypeOK
<1> QED BY <1>1, Matched, PTL

\* Bytes, as the proofs have it.
LEMMA BytesAre ==
  ASSUME NEW from, NEW to
  PROVE  Bytes(from, to) = Concat(log, from, to)
  BY DEF Bytes, Concat

\* A passed expect is evidence: its pattern occurs in what was received from its start to
\* its end, over one connection, with no disconnect and no observation gap in between
\* (expect_bytes).
THEOREM PassedExpectsAreEvidence == Spec => []ExpectSound
<1>1. ASSUME MatchInv
      PROVE  ExpectSound
  <2> SUFFICES ASSUME NEW r \in Runs, NEW i \in DOMAIN run[r].evidence, run[r].evidence[i].step.op = "expect"
               PROVE  LET e == run[r].evidence[i] IN
                      /\ Occurs(e.step.pattern, Bytes(e.start, e.end))
                      /\ \A n \in e.start + 1 .. e.end :
                           log[n].epoch = run[r].epoch /\ log[n].kind \notin {"down", "rxgap"}
    BY DEF ExpectSound
  <2>1. EvidenceOK(run[r].evidence[i], run[r].epoch, log)
    BY <1>1 DEF MatchInv, RunsInv, RunOK, Evident
  <2> QED BY <2>1, BytesAre DEF EvidenceOK, Unbroken
<1> QED BY <1>1, Matched, PTL

\* An expect passes at the first occurrence and does not overlook one, in whatever pattern
\* and bytes (prefix_table).
THEOREM NoMatchIsMissed == Spec => []ExpectMissesNothing
<1>1. ASSUME MatchInv
      PROVE  ExpectMissesNothing
  <2>1. ASSUME NEW r \in Runs, run[r].pc \in {"expect", "port"}
        PROVE  ~Occurs(Pattern(r), Bytes(run[r].start, run[r].seq))
    <3> DEFINE x == run[r]
               p == x.steps[x.step].pattern
               bytes == Concat(log, x.start, x.seq)
    <3>1. RunOK(x, log) /\ x.pc \in Expecting /\ log \in Seq(LogEvent)
      BY <1>1, <2>1 DEF MatchInv, RunsInv, LedgerInv, Expecting
    <3>2. Waiting(p, bytes, x.matched) /\ x.steps[x.step].op = "expect"
      BY <3>1 DEF RunOK, ExpectOK
    <3>3. /\ x.steps \in Workflows /\ x.step \in 1 .. Len(x.steps)
          /\ x.start \in 0 .. x.seq /\ x.seq \in 0 .. Len(log)
      BY <3>1 DEF RunOK, PlaceOK, Executing, Reading, Expecting
    <3>4. p \in Seq(Byte)
      BY <3>2, <3>3, Validated
    <3>5. bytes \in Seq(Byte)
      <4>1. \A i \in 1 .. Len(log) : log[i] \in LogEvent
        <5> HIDE DEF LogEvent
        <5> QED BY <3>1
      <4>2. \A i \in 1 .. Len(log) : log[i].data \in Seq(Byte)
        BY <4>1 DEF LogEvent
      <4>3. x.start \in Nat /\ x.seq \in Nat /\ x.start <= x.seq /\ x.start + 1 .. x.seq \subseteq 1 .. Len(log)
        BY <3>3
      <4> HIDE DEF x
      <4> QED BY <4>2, <4>3, BytesTyped
    <3> HIDE DEF p, bytes
    <3>6. ~Occurs(p, bytes)
      BY <3>2, <3>4, <3>5, WaitingMeans
    <3> QED BY <3>6, BytesAre DEF p, bytes, Pattern, Step
  <2>2. ASSUME NEW r \in Runs, NEW i \in DOMAIN run[r].evidence, run[r].evidence[i].step.op = "expect"
        PROVE  ~Occurs(run[r].evidence[i].step.pattern, Bytes(run[r].evidence[i].start, run[r].evidence[i].end - 1))
    <3>1. EvidenceOK(run[r].evidence[i], run[r].epoch, log)
      BY <1>1 DEF MatchInv, RunsInv, RunOK, Evident
    <3> QED BY <2>2, <3>1, BytesAre DEF EvidenceOK
  <2> QED BY <2>1, <2>2 DEF ExpectMissesNothing
<1> QED BY <1>1, Matched, PTL

=============================================================================
