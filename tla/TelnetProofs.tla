---------------------------- MODULE TelnetProofs ----------------------------
(***************************************************************************)
(* The decoder of the RFC 2217 endpoint reads any stream of bytes, cut     *)
(* into reads anywhere, as the reference reads it whole; and what the      *)
(* endpoint writes is read by such a decoder as what was meant.            *)
(*                                                                         *)
(* The argument goes along the tokens of the stream.  Where a token        *)
(* begins, the decoder takes data; where the reference ends it, the        *)
(* decoder does again and has yielded its body.  The tokens from the last  *)
(* one back to the first give the whole stream.                            *)
(*                                                                         *)
(* The provers cannot instantiate a theorem about an operator, so          *)
(* induction is by sets: a set of numbers, or of sequences, that is closed *)
(* under the step has them all (DownFrom, UpFrom, Longer).                 *)
(***************************************************************************)
EXTENDS Telnet, FiniteSetTheorems, FunctionTheorems, SequenceTheorems, WellFoundedInduction, TLAPS

-----------------------------------------------------------------------------
(* Sets of numbers                                                         *)

\* An initial segment is finite.
LEMMA IntervalFinite ==
  ASSUME NEW n \in Nat
  PROVE  0 .. n \in FiniteSubsetsOf(Nat)
  BY FS_Interval DEF FiniteSubsetsOf

\* A set of numbers has a least one: of its initial segments one is the smallest.
LEMMA Least ==
  ASSUME NEW T \in SUBSET Nat, T # {}
  PROVE  \E n \in T : \A m \in T : n <= m
<1> DEFINE R == StrictSubsetOrdering(Nat)
           B == {0 .. n : n \in T}
<1>1. IsWellFoundedOn(R, FiniteSubsetsOf(Nat))
  BY FS_StrictSubsetOrderingWellFounded
<1>2. B # {} /\ B \subseteq FiniteSubsetsOf(Nat)
  BY IntervalFinite
<1>3. PICK s \in B : \A t \in B : ~(<<t, s>> \in R)
  <2> HIDE DEF R, B
  <2> QED BY <1>1, <1>2, WFMin
<1>4. PICK n \in T : s = 0 .. n
  OBVIOUS
<1>5. ASSUME NEW m \in T, m < n
      PROVE  FALSE
  <2>1. 0 .. m \in B
    OBVIOUS
  <2>2. 0 .. m \subseteq 0 .. n /\ 0 .. m # 0 .. n /\ 0 .. m \in SUBSET Nat /\ 0 .. n \in SUBSET Nat
    BY <1>5
  <2>3. <<0 .. m, 0 .. n>> \in R
    BY <2>2 DEF StrictSubsetOrdering
  <2> QED BY <1>3, <1>4, <2>1, <2>3
<1> QED BY <1>5

-----------------------------------------------------------------------------
(* Sequences                                                               *)

\* FlattenSeq, as the function it is the last value of.
Flattens(f, seqs, n) == f = [i \in 1 .. n |-> IF i = 1 THEN seqs[i] ELSE f[i - 1] \o seqs[i]]
Flat(seqs) == CHOOSE f : Flattens(f, seqs, Len(seqs))

\* FlattenSeq is the last of the running concatenations.
LEMMA FlattenIsFlat ==
  ASSUME NEW seqs, Len(seqs) # 0
  PROVE  FlattenSeq(seqs) = Flat(seqs)[Len(seqs)]
  BY ZenonT(30) DEF FlattenSeq, Flat, Flattens

\* There is such a function for every length.
LEMMA CanBeFlattened ==
  ASSUME NEW seqs, NEW n \in Nat
  PROVE  \E f : Flattens(f, seqs, n)
<1> DEFINE Bad == {m \in Nat : ~ \E f : Flattens(f, seqs, m)}
<1>1. SUFFICES ASSUME Bad # {} PROVE FALSE
  OBVIOUS
<1>2. PICK k \in Bad : \A m \in Bad : k <= m
  <2>1. Bad \in SUBSET Nat
    OBVIOUS
  <2> HIDE DEF Bad
  <2> QED BY <1>1, <2>1, Least
<1>3. k \in Nat /\ ~ \E f : Flattens(f, seqs, k)
  OBVIOUS
<1>4. CASE k = 0
  <2> DEFINE f == [i \in 1 .. k |-> seqs[i]]
  <2>1. Flattens(f, seqs, k)
    BY <1>4 DEF Flattens
  <2> HIDE DEF f
  <2> QED BY <1>3, <2>1
<1>5. CASE k # 0
  <2>1. k - 1 \in Nat /\ k - 1 \notin Bad
    BY <1>2, <1>3, <1>5
  <2>2. PICK f : Flattens(f, seqs, k - 1)
    BY <2>1
  <2> HIDE DEF Bad
  <2>3. \A i \in 1 .. k - 1 : f[i] = IF i = 1 THEN seqs[i] ELSE f[i - 1] \o seqs[i]
    BY <2>2 DEF Flattens
  <2> DEFINE last == IF k = 1 THEN seqs[k] ELSE f[k - 1] \o seqs[k]
             g == [i \in 1 .. k |-> IF i = k THEN last ELSE f[i]]
  <2>4. DOMAIN g = 1 .. k /\ g[k] = last /\ (\A i \in 1 .. k - 1 : g[i] = f[i]) /\ g = [i \in 1 .. k |-> g[i]]
    <3> HIDE DEF last
    <3> QED BY <1>3, <1>5
  <2> HIDE DEF g
  <2>5. \A i \in 1 .. k : g[i] = IF i = 1 THEN seqs[i] ELSE g[i - 1] \o seqs[i]
    <3> SUFFICES ASSUME NEW i \in 1 .. k
                 PROVE  g[i] = IF i = 1 THEN seqs[i] ELSE g[i - 1] \o seqs[i]
      OBVIOUS
    <3>1. CASE i = k
      <4>1. k # 1 => k - 1 \in 1 .. k - 1
        BY <1>3, <1>5
      <4>2. k # 1 => g[k - 1] = f[k - 1]
        BY <2>4, <4>1
      <4> QED BY <2>4, <3>1, <4>2
    <3>2. CASE i # k
      <4>1. i \in 1 .. k - 1 /\ (i # 1 => i - 1 \in 1 .. k - 1)
        BY <1>3, <3>2
      <4>2. g[i] = f[i] /\ (i # 1 => g[i - 1] = f[i - 1])
        BY <2>4, <4>1
      <4> QED BY <2>3, <4>1, <4>2
    <3> QED BY <3>1, <3>2
  <2>6. Flattens(g, seqs, k)
    BY <2>4, <2>5 DEF Flattens
  <2> QED BY <1>3, <2>6
<1> QED BY <1>4, <1>5

\* Two such functions agree as far as their sequences do, and their values are sequences.
LEMMA FlattensAlike ==
  ASSUME NEW V, NEW n \in Nat, NEW m \in Nat, n <= m, NEW seqs, NEW init,
         \A i \in 1 .. n : seqs[i] \in Seq(V) /\ init[i] = seqs[i],
         NEW f, Flattens(f, seqs, m), NEW g, Flattens(g, init, n)
  PROVE  \A i \in 1 .. n : f[i] = g[i] /\ f[i] \in Seq(V)
<1> DEFINE Bad == {i \in 1 .. n : ~(f[i] = g[i] /\ f[i] \in Seq(V))}
<1>1. /\ \A i \in 1 .. n : f[i] = IF i = 1 THEN seqs[i] ELSE f[i - 1] \o seqs[i]
      /\ \A i \in 1 .. n : g[i] = IF i = 1 THEN init[i] ELSE g[i - 1] \o init[i]
  <2>1. \A i \in 1 .. m : f[i] = IF i = 1 THEN seqs[i] ELSE f[i - 1] \o seqs[i]
    BY DEF Flattens
  <2>2. \A i \in 1 .. n : g[i] = IF i = 1 THEN init[i] ELSE g[i - 1] \o init[i]
    BY DEF Flattens
  <2>3. 1 .. n \subseteq 1 .. m
    OBVIOUS
  <2> QED BY <2>1, <2>2, <2>3
<1>2. ASSUME Bad # {}
      PROVE  FALSE
  <2>1. PICK i \in Bad : \A j \in Bad : i <= j
    <3>1. Bad \in SUBSET Nat
      OBVIOUS
    <3> HIDE DEF Bad
    <3> QED BY <1>2, <3>1, Least
  <2>2. i \in 1 .. n /\ i \in Nat /\ ~(f[i] = g[i] /\ f[i] \in Seq(V))
    OBVIOUS
  <2>3. seqs[i] \in Seq(V) /\ init[i] = seqs[i]
    BY <2>2
  <2>4. CASE i = 1
    BY <1>1, <2>2, <2>3, <2>4
  <2>5. CASE i # 1
    <3>1. i - 1 \in 1 .. n /\ ~(i <= i - 1)
      BY <2>2, <2>5
    <3>2. i - 1 \notin Bad
      <4> HIDE DEF Bad
      <4> QED BY <2>1, <3>1
    <3>3. f[i - 1] = g[i - 1] /\ f[i - 1] \in Seq(V)
      BY <3>1, <3>2
    <3>4. f[i] = f[i - 1] \o seqs[i] /\ g[i] = g[i - 1] \o init[i]
      BY <1>1, <2>2, <2>5
    <3> DEFINE a == f[i - 1]
               b == seqs[i]
    <3>5. f[i] = a \o b /\ g[i] = a \o b /\ a \in Seq(V) /\ b \in Seq(V)
      BY <2>3, <3>3, <3>4
    <3> HIDE DEF a, b
    <3>6. a \o b \in Seq(V)
      BY <3>5
    <3> HIDE DEF Bad
    <3> QED BY <2>2, <3>5, <3>6
  <2> QED BY <2>4, <2>5
<1> QED BY <1>2

\* A list of lists, and one more.
LEMMA FlattenOneMore ==
  ASSUME NEW V, NEW n \in Nat, NEW seqs \in [1 .. n + 1 -> Seq(V)], NEW init \in [1 .. n -> Seq(V)],
         \A i \in 1 .. n : init[i] = seqs[i]
  PROVE  /\ n # 0 => FlattenSeq(init) \in Seq(V)
         /\ FlattenSeq(seqs) = (IF n = 0 THEN seqs[1] ELSE FlattenSeq(init) \o seqs[n + 1])
<1>1. Len(seqs) = n + 1 /\ Len(init) = n
  OBVIOUS
<1> DEFINE f == Flat(seqs)
           g == Flat(init)
<1>2. Flattens(f, seqs, n + 1)
  <2>1. n + 1 \in Nat
    OBVIOUS
  <2>2. \E h : Flattens(h, seqs, n + 1)
    BY <2>1, CanBeFlattened
  <2> QED BY <1>1, <2>2 DEF Flat
<1>3. Flattens(g, init, n)
  BY <1>1, CanBeFlattened DEF Flat
<1>4. FlattenSeq(seqs) = f[n + 1]
  <2>1. n + 1 # 0
    OBVIOUS
  <2> QED BY <1>1, <2>1, FlattenIsFlat
<1>5. n # 0 => FlattenSeq(init) = g[n]
  BY <1>1, FlattenIsFlat
<1> HIDE DEF f, g
<1>6. \A i \in 1 .. n : f[i] = g[i] /\ f[i] \in Seq(V)
  <2>1. \A i \in 1 .. n : seqs[i] \in Seq(V) /\ init[i] = seqs[i]
    OBVIOUS
  <2>2. n + 1 \in Nat /\ n <= n + 1
    OBVIOUS
  <2> QED BY <1>2, <1>3, <2>1, <2>2, FlattensAlike
<1>7. f[n + 1] = IF n + 1 = 1 THEN seqs[n + 1] ELSE f[(n + 1) - 1] \o seqs[n + 1]
  <2>1. n + 1 \in 1 .. n + 1
    OBVIOUS
  <2> QED BY <1>2, <2>1 DEF Flattens
<1>8. (n + 1) - 1 = n /\ (n + 1 = 1 <=> n = 0) /\ (n # 0 => n \in 1 .. n)
  OBVIOUS
<1> QED BY <1>4, <1>5, <1>6, <1>7, <1>8

\* One sequence more.
LEMMA FlattenAppend ==
  ASSUME NEW V, NEW seqs \in Seq(Seq(V)), NEW x \in Seq(V)
  PROVE  FlattenSeq(seqs) \in Seq(V) /\ FlattenSeq(Append(seqs, x)) = FlattenSeq(seqs) \o x
<1> DEFINE n == Len(seqs)
           longer == Append(seqs, x)
<1>1. n \in Nat /\ seqs \in [1 .. n -> Seq(V)]
  OBVIOUS
<1>2. longer \in [1 .. n + 1 -> Seq(V)]
  <2>1. longer \in Seq(Seq(V)) /\ Len(longer) = n + 1
    BY AppendProperties
  <2> HIDE DEF longer
  <2> QED BY <2>1
<1>3. (\A i \in 1 .. n : seqs[i] = longer[i]) /\ longer[n + 1] = x
  BY AppendProperties
<1>4. n = 0 => seqs = << >>
  BY <1>1
<1> HIDE DEF n, longer
<1>5. /\ n # 0 => FlattenSeq(seqs) \in Seq(V)
      /\ FlattenSeq(longer) = (IF n = 0 THEN longer[1] ELSE FlattenSeq(seqs) \o longer[n + 1])
  BY <1>1, <1>2, <1>3, FlattenOneMore
<1>6. CASE n = 0
  <2>1. seqs = << >> /\ FlattenSeq(<< >>) = << >>
    BY <1>4, <1>6 DEF FlattenSeq
  <2>2. << >> \o x = x /\ << >> \in Seq(V)
    OBVIOUS
  <2>3. FlattenSeq(longer) = x
    BY <1>3, <1>5, <1>6
  <2> QED BY <2>1, <2>2, <2>3 DEF longer
<1>7. CASE n # 0
  BY <1>3, <1>5, <1>7 DEF longer
<1> QED BY <1>6, <1>7

\* A function of the numbers up to n is a sequence, and one more number is one more element.
IsList(f, n) == f = [i \in 1 .. n |-> f[i]]

\* A function on 1..n is the sequence of its values.
LEMMA Listed ==
  ASSUME NEW W, NEW n \in Nat, NEW f, IsList(f, n), \A i \in 1 .. n : f[i] \in W
  PROVE  f \in Seq(W) /\ Len(f) = n
<1>1. f \in [1 .. n -> W]
  BY DEF IsList
<1> QED BY <1>1

\* A sequence one longer is the old one with its last member.
LEMMA ListedNext ==
  ASSUME NEW W, NEW n \in Nat, NEW f \in Seq(W), Len(f) = n,
         NEW g \in Seq(W), Len(g) = n + 1, \A i \in 1 .. n : f[i] = g[i]
  PROVE  g = Append(f, g[n + 1])
<1> DEFINE x == g[n + 1]
           h == Append(f, x)
<1>1. x \in W
  OBVIOUS
<1>2. h \in Seq(W) /\ Len(h) = n + 1 /\ (\A i \in 1 .. n : h[i] = f[i]) /\ h[n + 1] = x
  BY <1>1, AppendProperties
<1>3. \A i \in 1 .. n + 1 : i \in 1 .. n \/ i = n + 1
  OBVIOUS
<1> HIDE DEF h
<1>4. \A i \in 1 .. n + 1 : h[i] = g[i]
  BY <1>2, <1>3
<1>5. h = g
  BY <1>2, <1>4, SeqEqual
<1> QED BY <1>5 DEF h

\* A list of sequences over V, and one more of them.
Grows(f, g, n, V) ==
  /\ IsList(f, n) /\ IsList(g, n + 1)
  /\ \A i \in 1 .. n : f[i] = g[i]
  /\ \A i \in 1 .. n + 1 : g[i] \in Seq(V)

\* The last of the concatenations is the one before it and the last part.
LEMMA FlattenNext ==
  ASSUME NEW V, NEW n \in Nat, NEW f, NEW g, Grows(f, g, n, V)
  PROVE  FlattenSeq(f) \in Seq(V) /\ FlattenSeq(g) = FlattenSeq(f) \o g[n + 1]
<1> DEFINE W == Seq(V)
<1>0. /\ IsList(f, n) /\ IsList(g, n + 1)
      /\ \A i \in 1 .. n : f[i] = g[i]
      /\ \A i \in 1 .. n + 1 : g[i] \in W
  BY DEF Grows
<1>1. n + 1 \in Nat /\ n + 1 \in 1 .. n + 1 /\ 1 .. n \subseteq 1 .. n + 1
  OBVIOUS
<1>2. \A i \in 1 .. n : f[i] \in W
  BY <1>0, <1>1
<1> HIDE DEF W
<1>3. f \in Seq(W) /\ Len(f) = n
  BY <1>0, <1>2, Listed
<1>4. g \in Seq(W) /\ Len(g) = n + 1
  BY <1>0, <1>1, Listed
<1>5. g = Append(f, g[n + 1])
  BY <1>0, <1>3, <1>4, ListedNext
<1>6. g[n + 1] \in Seq(V)
  BY <1>0, <1>1 DEF W
<1> QED BY <1>3, <1>5, <1>6, FlattenAppend DEF W

\* Nothing to put together.
LEMMA FlattenNone ==
  FlattenSeq(<< >>) = << >>
  BY DEF FlattenSeq

-----------------------------------------------------------------------------
(* Induction over a set                                                    *)

\* A set that has the first number, and with each number the next, has them all.
LEMMA UpFrom ==
  ASSUME NEW k \in Nat, NEW n \in Nat, NEW T, k \in T, \A i \in k .. n : i < n /\ i \in T => i + 1 \in T
  PROVE  \A i \in k .. n : i \in T
<1> DEFINE Bad == {i \in k .. n : i \notin T}
<1>1. ASSUME Bad # {}
      PROVE  FALSE
  <2>1. PICK i \in Bad : \A j \in Bad : i <= j
    <3>1. Bad \in SUBSET Nat
      OBVIOUS
    <3> HIDE DEF Bad
    <3> QED BY <1>1, <3>1, Least
  <2>2. i \in k .. n /\ i \notin T
    OBVIOUS
  <2>3. i # k
    BY <2>2
  <2>4. i - 1 \in k .. n /\ i - 1 < n /\ (i - 1) + 1 = i /\ ~(i <= i - 1)
    BY <2>2, <2>3
  <2>5. i - 1 \notin Bad
    <3> HIDE DEF Bad
    <3> QED BY <2>1, <2>4
  <2>6. i - 1 \in T
    BY <2>4, <2>5
  <2> QED BY <2>2, <2>4, <2>6
<1> QED BY <1>1

\* A set that has each number if it has all later ones has them all.
LEMMA DownFrom ==
  ASSUME NEW n \in Nat, NEW T, \A i \in 1 .. n : (\A j \in (i + 1) .. n : j \in T) => i \in T
  PROVE  \A i \in 1 .. n : i \in T
<1> DEFINE Bad == {i \in 1 .. n : i \notin T}
           Off == {n - i : i \in Bad}
<1>1. ASSUME Bad # {}
      PROVE  FALSE
  <2>1. Off \in SUBSET Nat /\ Off # {}
    BY <1>1
  <2>2. PICK x \in Off : \A y \in Off : x <= y
    <3> HIDE DEF Off
    <3> QED BY <2>1, Least
  <2>3. PICK i \in Bad : x = n - i
    BY <2>2
  <2>4. i \in 1 .. n /\ i \notin T
    OBVIOUS
  <2>5. ASSUME NEW j \in (i + 1) .. n
        PROVE  j \in T
    <3>1. j \in 1 .. n /\ ~(x <= n - j)
      BY <2>3, <2>4
    <3>2. n - j \notin Off
      <4> HIDE DEF Off
      <4> QED BY <2>2, <3>1
    <3>3. j \notin Bad
      BY <3>2
    <3> QED BY <3>1, <3>3
  <2> QED BY <2>4, <2>5
<1> QED BY <1>1

-----------------------------------------------------------------------------
(* One byte                                                                *)

Places == {"data", "iac", "negotiation", "subneg", "subneg_iac"}

Decoders ==
  {d \in [at : Places, verb : Byte, frame : Seq(Byte)] : d.at = "negotiation" => d.verb \in Verbs}
Yields   == [payload : Seq(Byte), replies : Seq(Byte), frames : Seq(Seq(Byte))]
Machines == [decoder : Decoders, yield : Yields]

\* A decoder of which nothing has been taken yet.
From(d) == [decoder |-> d, yield |-> Nothing]

Fresh == From(TelnetDecoder)

\* The codes of the protocol are bytes and tell each other apart.
LEMMA Codes ==
  /\ IAC \in Byte /\ Verbs \subseteq Byte /\ SB \in Byte /\ SE \in Byte /\ COM_PORT_OPTION \in Byte
  /\ IAC \notin Verbs /\ SB \notin Verbs /\ SB # IAC /\ SE # IAC /\ COM_PORT_OPTION # IAC
  BY DEF Byte, IAC, DONT, DO, WONT, WILL, SB, SE, Verbs, COM_PORT_OPTION

\* The empty sequence is a sequence of anything.
LEMMA Empty ==
  ASSUME NEW V
  PROVE  << >> \in Seq(V)
  OBVIOUS

\* A read that has yielded nothing is a yield.
LEMMA NothingTyped == Nothing \in Yields
<1> DEFINE W == Seq(Byte)
<1>1. << >> \in W /\ << >> \in Seq(W)
  BY Empty
<1> HIDE DEF W
<1>2. Nothing \in [payload : W, replies : W, frames : Seq(W)]
  BY <1>1 DEF Nothing
<1> QED BY <1>2 DEF Yields, W

\* The machine with which a read starts.
LEMMA FromTyped ==
  ASSUME NEW d \in Decoders
  PROVE  From(d) \in Machines /\ From(d).decoder = d /\ From(d).yield = Nothing
  BY NothingTyped DEF From, Machines

\* The machine with which a connection starts.
LEMMA FreshTyped == TelnetDecoder \in Decoders /\ Fresh \in Machines
<1>1. TelnetDecoder \in Decoders
  <2>1. << >> \in Seq(Byte) /\ 0 \in Byte
    BY Empty DEF Byte
  <2> QED BY <2>1 DEF TelnetDecoder, Decoders, Places
<1> QED BY <1>1, FromTyped DEF Fresh

\* A negotiation is answered with IAC, a verb and the option.
LEMMA ReplyShape ==
  ASSUME NEW v \in Verbs, NEW o \in Byte
  PROVE  \E w \in Verbs : NegotiationReply(v, o) = <<IAC, w, o>>
<1>1. CASE v = WILL /\ o = COM_PORT_OPTION
  BY <1>1 DEF NegotiationReply, Verbs
<1>2. CASE v = DO /\ o = COM_PORT_OPTION
  BY <1>2 DEF NegotiationReply, Verbs, WILL, DO
<1>3. CASE v \in {WONT, DONT} \/ o # COM_PORT_OPTION
  BY <1>3 DEF NegotiationReply, Verbs, WILL, DO, WONT, DONT
<1> QED BY <1>1, <1>2, <1>3 DEF Verbs

\* What one read yields on top of what it has yielded.
Plus(y, z) == [payload |-> y.payload \o z.payload, replies |-> y.replies \o z.replies, frames |-> y.frames \o z.frames]

\* A read that yields nothing more has yielded what it had.
LEMMA PlusNothing ==
  ASSUME NEW y \in Yields
  PROVE  Plus(y, Nothing) = y
<1> DEFINE W == Seq(Byte)
<1>1. \A s \in W : s \o << >> = s
  OBVIOUS
<1>2. \A s \in Seq(W) : s \o << >> = s
  <2> HIDE DEF W
  <2> QED OBVIOUS
<1>3. y \in [payload : W, replies : W, frames : Seq(W)]
  BY DEF Yields
<1> HIDE DEF W
<1> QED BY <1>1, <1>2, <1>3 DEF Plus, Nothing

\* What a step makes of the decoder, and what it yields: the cases of feed.
Steps(m, d, payload, replies, frms) ==
  [decoder |-> d, yield |-> [payload |-> m.yield.payload \o payload, replies |-> m.yield.replies \o replies,
                             frames |-> m.yield.frames \o frms]]

\* What it adds to something, on its own.
Added(x, y, z) == x = y \o z

\* A step read part by part: the decoder is the one given, each yield has the part given added.
LEMMA StepsParts ==
  ASSUME NEW m, NEW d, NEW p, NEW r, NEW fs, NEW x, x = Steps(m, d, p, r, fs)
  PROVE  /\ x.decoder = d /\ Added(x.yield.payload, m.yield.payload, p)
         /\ Added(x.yield.replies, m.yield.replies, r) /\ Added(x.yield.frames, m.yield.frames, fs)
  BY DEF Steps, Added

Moved(d, at)     == [at |-> at, verb |-> d.verb, frame |-> d.frame]
Kept(d, at, b) == [at |-> at, verb |-> d.verb, frame |-> Append(d.frame, b)]

\* Nothing is yielded: only the decoder changes.
LEMMA OnlyDecoder ==
  ASSUME NEW m \in Machines, NEW d, NEW x, x = [m EXCEPT !.decoder = d]
  PROVE  x = Steps(m, d, << >>, << >>, << >>)
<1>1. m = [decoder |-> m.decoder, yield |-> m.yield] /\ m.yield \in Yields
  BY DEF Machines
<1>2. x = [decoder |-> d, yield |-> m.yield]
  BY <1>1
<1>3. m.yield = Plus(m.yield, Nothing)
  BY <1>1, PlusNothing
<1> QED BY <1>2, <1>3 DEF Steps, Plus, Nothing

\* A machine read part by part.
LEMMA MachineParts ==
  ASSUME NEW m \in Machines
  PROVE  /\ m = [decoder |-> m.decoder, yield |-> m.yield]
         /\ m.decoder \in Decoders /\ m.yield \in Yields
         /\ m.decoder = [at |-> m.decoder.at, verb |-> m.decoder.verb, frame |-> m.decoder.frame]
         /\ m.yield = [payload |-> m.yield.payload, replies |-> m.yield.replies, frames |-> m.yield.frames]
         /\ m.decoder.at \in Places /\ m.decoder.verb \in Byte /\ m.decoder.frame \in Seq(Byte)
         /\ m.decoder.at = "negotiation" => m.decoder.verb \in Verbs
         /\ m.yield.payload \in Seq(Byte) /\ m.yield.replies \in Seq(Byte) /\ m.yield.frames \in Seq(Seq(Byte))
<1>1. m.decoder \in Decoders /\ m.yield \in Yields /\ m = [decoder |-> m.decoder, yield |-> m.yield]
  BY DEF Machines
<1> DEFINE d == m.decoder
           y == m.yield
<1>2. /\ d = [at |-> d.at, verb |-> d.verb, frame |-> d.frame]
      /\ d.at \in Places /\ d.verb \in Byte /\ d.frame \in Seq(Byte)
      /\ d.at = "negotiation" => d.verb \in Verbs
  <2> HIDE DEF d
  <2> QED BY <1>1 DEF Decoders, d
<1>3. /\ y = [payload |-> y.payload, replies |-> y.replies, frames |-> y.frames]
      /\ y.payload \in Seq(Byte) /\ y.replies \in Seq(Byte) /\ y.frames \in Seq(Seq(Byte))
  <2> DEFINE W == Seq(Byte)
  <2>1. y \in [payload : W, replies : W, frames : Seq(W)]
    BY <1>1 DEF Yields
  <2> HIDE DEF y, W
  <2>2. /\ y = [payload |-> y.payload, replies |-> y.replies, frames |-> y.frames]
        /\ y.payload \in W /\ y.replies \in W /\ y.frames \in Seq(W)
    BY <2>1
  <2> QED BY <2>2 DEF W
<1> QED BY <1>1, <1>2, <1>3

\* Adding nothing changes no yield.
LEMMA NothingAdded ==
  ASSUME NEW m \in Machines
  PROVE  /\ m.yield.payload \o << >> = m.yield.payload /\ m.yield.replies \o << >> = m.yield.replies
         /\ m.yield.frames \o << >> = m.yield.frames
<1>1. \A s \in Seq(Byte) : s \o << >> = s
  OBVIOUS
<1> DEFINE W == Seq(Byte)
<1>2. \A s \in Seq(W) : s \o << >> = s
  <2> HIDE DEF W
  <2> QED OBVIOUS
<1> QED BY <1>1, <1>2, MachineParts DEF W

\* A byte between tokens.
LEMMA ByteOnData ==
  ASSUME NEW m \in Machines, NEW b \in Byte, m.decoder.at = "data"
  PROVE  /\ b = IAC => FeedByte(m, b) = Steps(m, Moved(m.decoder, "iac"), << >>, << >>, << >>)
         /\ b # IAC => FeedByte(m, b) = Steps(m, Moved(m.decoder, "data"), <<b>>, << >>, << >>)
<1>0. /\ m = [decoder |-> m.decoder, yield |-> m.yield]
      /\ m.decoder = [at |-> m.decoder.at, verb |-> m.decoder.verb, frame |-> m.decoder.frame]
      /\ m.yield = [payload |-> m.yield.payload, replies |-> m.yield.replies, frames |-> m.yield.frames]
  BY MachineParts
<1>1. ASSUME b = IAC
      PROVE  FeedByte(m, b) = Steps(m, Moved(m.decoder, "iac"), << >>, << >>, << >>)
  <2> DEFINE x == FeedByte(m, b)
  <2>1. x = [m EXCEPT !.decoder.at = "iac"]
    BY <1>1 DEF FeedByte
  <2>2. x = [m EXCEPT !.decoder = Moved(m.decoder, "iac")]
    BY <1>0, <2>1 DEF Moved
  <2> HIDE DEF x
  <2> QED BY <2>2, OnlyDecoder DEF x
<1>2. ASSUME b # IAC
      PROVE  FeedByte(m, b) = Steps(m, Moved(m.decoder, "data"), <<b>>, << >>, << >>)
  <2> DEFINE x == FeedByte(m, b)
  <2>1. x = [m EXCEPT !.decoder.at = "data", !.yield["payload"] = @ \o <<b>>]
    BY <1>2 DEF FeedByte
  <2> QED BY <1>0, <2>1, NothingAdded DEF Moved, Steps
<1> QED BY <1>1, <1>2

\* A byte that starts over what an IAC began.
Other == Byte \ (Verbs \cup {IAC, SB})

\* The byte after an IAC.
LEMMA ByteOnIac ==
  ASSUME NEW m \in Machines, NEW b \in Byte, m.decoder.at = "iac"
  PROVE  /\ b = IAC => FeedByte(m, b) = Steps(m, Moved(m.decoder, "data"), <<b>>, << >>, << >>)
         /\ b \in Verbs => FeedByte(m, b) =
              Steps(m, [at |-> "negotiation", verb |-> b, frame |-> m.decoder.frame], << >>, << >>, << >>)
         /\ b = SB => FeedByte(m, b) =
              Steps(m, [at |-> "subneg", verb |-> m.decoder.verb, frame |-> << >>], << >>, << >>, << >>)
         /\ b \in Other => FeedByte(m, b) = Steps(m, Moved(m.decoder, "data"), << >>, << >>, << >>)
<1>0. /\ m = [decoder |-> m.decoder, yield |-> m.yield]
      /\ m.decoder = [at |-> m.decoder.at, verb |-> m.decoder.verb, frame |-> m.decoder.frame]
      /\ m.yield = [payload |-> m.yield.payload, replies |-> m.yield.replies, frames |-> m.yield.frames]
  BY MachineParts
<1> DEFINE x == FeedByte(m, b)
<1>1. ASSUME b = IAC
      PROVE  x = Steps(m, Moved(m.decoder, "data"), <<b>>, << >>, << >>)
  <2>1. x = [m EXCEPT !.decoder.at = "data", !.yield["payload"] = @ \o <<b>>]
    BY <1>1, Codes DEF FeedByte
  <2> QED BY <1>0, <2>1, NothingAdded DEF Moved, Steps
<1>2. ASSUME b \in Verbs
      PROVE  x = Steps(m, [at |-> "negotiation", verb |-> b, frame |-> m.decoder.frame], << >>, << >>, << >>)
  <2>1. x = [m EXCEPT !.decoder.at = "negotiation", !.decoder.verb = b]
    BY <1>2, Codes DEF FeedByte
  <2>2. x = [m EXCEPT !.decoder = [at |-> "negotiation", verb |-> b, frame |-> m.decoder.frame]]
    BY <1>0, <2>1
  <2> HIDE DEF x
  <2> QED BY <2>2, OnlyDecoder
<1>3. ASSUME b = SB
      PROVE  x = Steps(m, [at |-> "subneg", verb |-> m.decoder.verb, frame |-> << >>], << >>, << >>, << >>)
  <2>1. x = [m EXCEPT !.decoder.at = "subneg", !.decoder.frame = << >>]
    BY <1>3, Codes DEF FeedByte
  <2>2. x = [m EXCEPT !.decoder = [at |-> "subneg", verb |-> m.decoder.verb, frame |-> << >>]]
    BY <1>0, <2>1
  <2> HIDE DEF x
  <2> QED BY <2>2, OnlyDecoder
<1>4. ASSUME b \in Other
      PROVE  x = Steps(m, Moved(m.decoder, "data"), << >>, << >>, << >>)
  <2>1. x = [m EXCEPT !.decoder.at = "data"]
    BY <1>4 DEF FeedByte, Other
  <2>2. x = [m EXCEPT !.decoder = Moved(m.decoder, "data")]
    BY <1>0, <2>1 DEF Moved
  <2> HIDE DEF x
  <2> QED BY <2>2, OnlyDecoder
<1> QED BY <1>1, <1>2, <1>3, <1>4

\* The option after a verb.
LEMMA ByteOnNegotiation ==
  ASSUME NEW m \in Machines, NEW b \in Byte, m.decoder.at = "negotiation"
  PROVE  FeedByte(m, b) = Steps(m, Moved(m.decoder, "data"), << >>, NegotiationReply(m.decoder.verb, b), << >>)
<1>0. /\ m = [decoder |-> m.decoder, yield |-> m.yield]
      /\ m.decoder = [at |-> m.decoder.at, verb |-> m.decoder.verb, frame |-> m.decoder.frame]
      /\ m.yield = [payload |-> m.yield.payload, replies |-> m.yield.replies, frames |-> m.yield.frames]
  BY MachineParts
<1> DEFINE x == FeedByte(m, b)
           r == NegotiationReply(m.decoder.verb, b)
<1>1. x = [m EXCEPT !.decoder.at = "data", !.yield["replies"] = @ \o r]
  BY DEF FeedByte
<1> HIDE DEF x, r
<1>2. x = Steps(m, Moved(m.decoder, "data"), << >>, r, << >>)
  BY <1>0, <1>1, NothingAdded DEF Moved, Steps
<1> QED BY <1>2 DEF x, r

\* A byte of a subnegotiation.
LEMMA ByteOnSubneg ==
  ASSUME NEW m \in Machines, NEW b \in Byte, m.decoder.at = "subneg"
  PROVE  /\ b = IAC => FeedByte(m, b) = Steps(m, Moved(m.decoder, "subneg_iac"), << >>, << >>, << >>)
         /\ b # IAC => FeedByte(m, b) = Steps(m, Kept(m.decoder, "subneg", b), << >>, << >>, << >>)
<1>0. /\ m = [decoder |-> m.decoder, yield |-> m.yield]
      /\ m.decoder = [at |-> m.decoder.at, verb |-> m.decoder.verb, frame |-> m.decoder.frame]
  BY MachineParts
<1> DEFINE x == FeedByte(m, b)
<1>1. ASSUME b = IAC
      PROVE  x = Steps(m, Moved(m.decoder, "subneg_iac"), << >>, << >>, << >>)
  <2>1. x = [m EXCEPT !.decoder.at = "subneg_iac"]
    BY <1>1 DEF FeedByte
  <2>2. x = [m EXCEPT !.decoder = Moved(m.decoder, "subneg_iac")]
    BY <1>0, <2>1 DEF Moved
  <2> HIDE DEF x
  <2> QED BY <2>2, OnlyDecoder
<1>2. ASSUME b # IAC
      PROVE  x = Steps(m, Kept(m.decoder, "subneg", b), << >>, << >>, << >>)
  <2>1. x = [m EXCEPT !.decoder.at = "subneg", !.decoder.frame = Append(@, b)]
    BY <1>2 DEF FeedByte
  <2>2. x = [m EXCEPT !.decoder = Kept(m.decoder, "subneg", b)]
    BY <1>0, <2>1 DEF Kept
  <2> HIDE DEF x
  <2> QED BY <2>2, OnlyDecoder
<1> QED BY <1>1, <1>2

\* The byte after an IAC of a subnegotiation.
LEMMA ByteOnSubnegIac ==
  ASSUME NEW m \in Machines, NEW b \in Byte, m.decoder.at = "subneg_iac"
  PROVE  /\ b = IAC => FeedByte(m, b) = Steps(m, Kept(m.decoder, "subneg", b), << >>, << >>, << >>)
         /\ b = SE => FeedByte(m, b) = Steps(m, Moved(m.decoder, "data"), << >>, << >>, <<m.decoder.frame>>)
         /\ b # IAC /\ b # SE => FeedByte(m, b) = Steps(m, Moved(m.decoder, "data"), << >>, << >>, << >>)
<1>0. /\ m = [decoder |-> m.decoder, yield |-> m.yield]
      /\ m.decoder = [at |-> m.decoder.at, verb |-> m.decoder.verb, frame |-> m.decoder.frame]
      /\ m.yield = [payload |-> m.yield.payload, replies |-> m.yield.replies, frames |-> m.yield.frames]
  BY MachineParts
<1> DEFINE x == FeedByte(m, b)
<1>1. ASSUME b = IAC
      PROVE  x = Steps(m, Kept(m.decoder, "subneg", b), << >>, << >>, << >>)
  <2>1. x = [m EXCEPT !.decoder.at = "subneg", !.decoder.frame = Append(@, b)]
    BY <1>1, Codes DEF FeedByte
  <2>2. x = [m EXCEPT !.decoder = Kept(m.decoder, "subneg", b)]
    BY <1>0, <2>1 DEF Kept
  <2> HIDE DEF x
  <2> QED BY <2>2, OnlyDecoder
<1>2. ASSUME b = SE
      PROVE  x = Steps(m, Moved(m.decoder, "data"), << >>, << >>, <<m.decoder.frame>>)
  <2>1. x = [m EXCEPT !.decoder.at = "data", !.yield["frames"] = @ \o <<m.decoder.frame>>]
    BY <1>2, Codes DEF FeedByte
  <2> QED BY <1>0, <2>1, NothingAdded DEF Moved, Steps
<1>3. ASSUME b # IAC, b # SE
      PROVE  x = Steps(m, Moved(m.decoder, "data"), << >>, << >>, << >>)
  <2>1. x = [m EXCEPT !.decoder.at = "data"]
    BY <1>3 DEF FeedByte
  <2>2. x = [m EXCEPT !.decoder = Moved(m.decoder, "data")]
    BY <1>0, <2>1 DEF Moved
  <2> HIDE DEF x
  <2> QED BY <2>2, OnlyDecoder
<1> QED BY <1>1, <1>2, <1>3

\* What a step makes of a machine is a machine.
LEMMA StepsTyped ==
  ASSUME NEW m \in Machines, NEW d \in Decoders,
         NEW p \in Seq(Byte), NEW r \in Seq(Byte), NEW fs \in Seq(Seq(Byte))
  PROVE  Steps(m, d, p, r, fs) \in Machines
<1> DEFINE W == Seq(Byte)
<1>1. \A s, t \in W : s \o t \in W
  OBVIOUS
<1>2. \A s, t \in Seq(W) : s \o t \in Seq(W)
  <2> HIDE DEF W
  <2> QED OBVIOUS
<1>3. m.yield.payload \in W /\ m.yield.replies \in W /\ m.yield.frames \in Seq(W)
  BY MachineParts
<1> HIDE DEF W
<1>4. p \in W /\ r \in W /\ fs \in Seq(W)
  BY DEF W
<1>5. [payload |-> m.yield.payload \o p, replies |-> m.yield.replies \o r, frames |-> m.yield.frames \o fs]
        \in [payload : W, replies : W, frames : Seq(W)]
  BY <1>1, <1>2, <1>3, <1>4
<1> QED BY <1>5 DEF Steps, Machines, Yields, W

\* The decoders a byte leads to are decoders.
LEMMA MovedTyped ==
  ASSUME NEW m \in Machines, NEW b \in Byte
  PROVE  /\ \A at \in Places : at # "negotiation" =>
              Moved(m.decoder, at) \in Decoders /\ Kept(m.decoder, at, b) \in Decoders
         /\ b \in Verbs => [at |-> "negotiation", verb |-> b, frame |-> m.decoder.frame] \in Decoders
         /\ [at |-> "subneg", verb |-> m.decoder.verb, frame |-> << >>] \in Decoders
<1>1. m.decoder.verb \in Byte /\ m.decoder.frame \in Seq(Byte)
  BY MachineParts
<1>2. Append(m.decoder.frame, b) \in Seq(Byte) /\ << >> \in Seq(Byte)
  BY <1>1
<1> QED BY <1>1, <1>2 DEF Moved, Kept, Decoders, Places

\* One value is a sequence, and so is none.
LEMMA Singles ==
  ASSUME NEW W, NEW w \in W
  PROVE  <<w>> \in Seq(W) /\ << >> \in Seq(W)
  OBVIOUS

\* A step, whatever the place: the yield of one byte is added to what there was.
LEMMA ByteAdds ==
  ASSUME NEW m \in Machines, NEW b \in Byte
  PROVE  \E d \in Decoders, p \in Seq(Byte), r \in Seq(Byte), fs \in Seq(Seq(Byte)) :
           /\ FeedByte(m, b) = Steps(m, d, p, r, fs)
           /\ FeedByte(From(m.decoder), b) = Steps(From(m.decoder), d, p, r, fs)
<1> DEFINE n == From(m.decoder)
<1>1. m.decoder \in Decoders
  BY MachineParts
<1>2. n \in Machines /\ n.decoder = m.decoder
  BY <1>1, FromTyped
<1>3. \A at \in Places : at # "negotiation" =>
        Moved(m.decoder, at) \in Decoders /\ Kept(m.decoder, at, b) \in Decoders
  BY MovedTyped
<1>4. <<b>> \in Seq(Byte) /\ << >> \in Seq(Byte) /\ << >> \in Seq(Seq(Byte))
  BY Singles, Empty
<1>5. m.decoder.frame \in Seq(Byte) /\ m.decoder.at \in Places
  BY MachineParts
<1>6. <<m.decoder.frame>> \in Seq(Seq(Byte))
  BY <1>5, Singles
<1> HIDE DEF n
<1>7. CASE m.decoder.at = "data"
  <2>1. Moved(m.decoder, "iac") \in Decoders /\ Moved(m.decoder, "data") \in Decoders
    BY <1>3 DEF Places
  <2> QED BY <1>2, <1>4, <1>7, <2>1, ByteOnData DEF n
<1>8. CASE m.decoder.at = "iac"
  <2>1. /\ Moved(m.decoder, "data") \in Decoders
        /\ b \in Verbs => [at |-> "negotiation", verb |-> b, frame |-> m.decoder.frame] \in Decoders
        /\ [at |-> "subneg", verb |-> m.decoder.verb, frame |-> << >>] \in Decoders
    BY <1>3, MovedTyped DEF Places
  <2>2. b = IAC \/ b \in Verbs \/ b = SB \/ b \in Other
    BY DEF Other
  <2>3. n.decoder.at = "iac"
    BY <1>2, <1>8
  <2>4. CASE b = IAC
    <3> DEFINE e == Moved(m.decoder, "data")
    <3>1. /\ FeedByte(m, b) = Steps(m, e, <<b>>, << >>, << >>)
          /\ FeedByte(n, b) = Steps(n, e, <<b>>, << >>, << >>)
          /\ e \in Decoders
      BY <1>2, <1>8, <2>1, <2>3, <2>4, ByteOnIac
    <3> HIDE DEF e
    <3> QED BY <1>4, <3>1 DEF n
  <2>5. CASE b \in Verbs
    <3> DEFINE e == [at |-> "negotiation", verb |-> b, frame |-> m.decoder.frame]
    <3>1. /\ FeedByte(m, b) = Steps(m, e, << >>, << >>, << >>)
          /\ FeedByte(n, b) = Steps(n, e, << >>, << >>, << >>)
          /\ e \in Decoders
      BY <1>2, <1>8, <2>1, <2>3, <2>5, ByteOnIac
    <3> HIDE DEF e
    <3> QED BY <1>4, <3>1 DEF n
  <2>6. CASE b = SB
    <3> DEFINE e == [at |-> "subneg", verb |-> m.decoder.verb, frame |-> << >>]
    <3>1. /\ FeedByte(m, b) = Steps(m, e, << >>, << >>, << >>)
          /\ FeedByte(n, b) = Steps(n, e, << >>, << >>, << >>)
          /\ e \in Decoders
      BY <1>2, <1>8, <2>1, <2>3, <2>6, ByteOnIac
    <3> HIDE DEF e
    <3> QED BY <1>4, <3>1 DEF n
  <2>7. CASE b \in Other
    <3> DEFINE e == Moved(m.decoder, "data")
    <3>1. /\ FeedByte(m, b) = Steps(m, e, << >>, << >>, << >>)
          /\ FeedByte(n, b) = Steps(n, e, << >>, << >>, << >>)
          /\ e \in Decoders
      BY <1>2, <1>8, <2>1, <2>3, <2>7, ByteOnIac
    <3> HIDE DEF e
    <3> QED BY <1>4, <3>1 DEF n
  <2> QED BY <2>2, <2>4, <2>5, <2>6, <2>7
<1>9. CASE m.decoder.at = "negotiation"
  <2>1. Moved(m.decoder, "data") \in Decoders
    BY <1>3 DEF Places
  <2>2. m.decoder.verb \in Verbs
    BY <1>9, MachineParts
  <2>3. NegotiationReply(m.decoder.verb, b) \in Seq(Byte)
    <3>1. PICK w \in Verbs : NegotiationReply(m.decoder.verb, b) = <<IAC, w, b>>
      BY <2>2, ReplyShape
    <3>2. w \in Byte /\ IAC \in Byte
      BY Codes
    <3> QED BY <3>1, <3>2
  <2> QED BY <1>2, <1>4, <1>9, <2>1, <2>3, ByteOnNegotiation DEF n
<1>10. CASE m.decoder.at = "subneg"
  <2>1. Moved(m.decoder, "subneg_iac") \in Decoders /\ Kept(m.decoder, "subneg", b) \in Decoders
    BY <1>3 DEF Places
  <2> QED BY <1>2, <1>4, <1>10, <2>1, ByteOnSubneg DEF n
<1>11. CASE m.decoder.at = "subneg_iac"
  <2>1. Moved(m.decoder, "data") \in Decoders /\ Kept(m.decoder, "subneg", b) \in Decoders
    BY <1>3 DEF Places
  <2> QED BY <1>2, <1>4, <1>6, <1>11, <2>1, ByteOnSubnegIac DEF n
<1> QED BY <1>5, <1>7, <1>8, <1>9, <1>10, <1>11 DEF Places

\* One byte leads from a machine to a machine.
LEMMA ByteTyped ==
  ASSUME NEW m \in Machines, NEW b \in Byte
  PROVE  FeedByte(m, b) \in Machines
  BY ByteAdds, StepsTyped

-----------------------------------------------------------------------------
(* Many bytes                                                              *)

\* FeedAll, as the function it is the last value of.
Feeds(f, m, bytes, n) == f = [i \in 0 .. n |-> IF i = 0 THEN m ELSE FeedByte(f[i - 1], bytes[i])]
Run(m, bytes) == CHOOSE f : Feeds(f, m, bytes, Len(bytes))

\* FeedAll is the last machine of the run.
LEMMA FeedAllIsRun ==
  ASSUME NEW m, NEW bytes
  PROVE  FeedAll(m, bytes) = Run(m, bytes)[Len(bytes)]
  BY ZenonT(30) DEF FeedAll, Run, Feeds

\* A run over any number of bytes exists.
LEMMA CanBeFed ==
  ASSUME NEW m, NEW bytes, NEW n \in Nat
  PROVE  \E f : Feeds(f, m, bytes, n)
<1> DEFINE T == {k \in 0 .. n : \E f : Feeds(f, m, bytes, k)}
<1>1. 0 \in T
  <2> DEFINE f == [i \in 0 .. 0 |-> m]
  <2>1. f = [i \in 0 .. 0 |-> IF i = 0 THEN m ELSE FeedByte(f[i - 1], bytes[i])]
    OBVIOUS
  <2> HIDE DEF f
  <2>2. Feeds(f, m, bytes, 0)
    BY <2>1 DEF Feeds
  <2> QED BY <2>2
<1>2. ASSUME NEW k \in 0 .. n, k < n, k \in T
      PROVE  k + 1 \in T
  <2>1. PICK f : Feeds(f, m, bytes, k)
    BY <1>2
  <2>2. \A i \in 0 .. k : f[i] = IF i = 0 THEN m ELSE FeedByte(f[i - 1], bytes[i])
    BY <2>1 DEF Feeds
  <2> DEFINE last == FeedByte(f[k], bytes[k + 1])
             g == [i \in 0 .. (k + 1) |-> IF i = k + 1 THEN last ELSE f[i]]
  <2>3. DOMAIN g = 0 .. (k + 1) /\ g[k + 1] = last /\ (\A i \in 0 .. k : g[i] = f[i]) /\ g = [i \in 0 .. (k + 1) |-> g[i]]
    <3> HIDE DEF last
    <3> QED OBVIOUS
  <2> HIDE DEF g
  <2>4. \A i \in 0 .. (k + 1) : g[i] = IF i = 0 THEN m ELSE FeedByte(g[i - 1], bytes[i])
    <3> SUFFICES ASSUME NEW i \in 0 .. (k + 1)
                 PROVE  g[i] = IF i = 0 THEN m ELSE FeedByte(g[i - 1], bytes[i])
      OBVIOUS
    <3>1. CASE i = k + 1
      <4>1. k \in 0 .. k /\ i # 0 /\ i - 1 = k
        BY <3>1
      <4> QED BY <2>3, <3>1, <4>1
    <3>2. CASE i # k + 1
      <4>1. i \in 0 .. k /\ (i # 0 => i - 1 \in 0 .. k)
        BY <3>2
      <4> QED BY <2>2, <2>3, <4>1
    <3> QED BY <3>1, <3>2
  <2>5. Feeds(g, m, bytes, k + 1)
    BY <2>3, <2>4 DEF Feeds
  <2>6. k + 1 \in 0 .. n
    BY <1>2
  <2> HIDE DEF last
  <2> QED BY <2>5, <2>6
<1> HIDE DEF T
<1>3. n \in T
  BY <1>1, <1>2, UpFrom
<1> QED BY <1>3 DEF T

\* D is what becomes of m along the bytes.
Runs(D, m, bytes) ==
  /\ D[0] = m
  /\ \A i \in 1 .. Len(bytes) : D[i] = FeedByte(D[i - 1], bytes[i])
  /\ \A i \in 0 .. Len(bytes) : D[i] \in Machines

\* The run that CHOOSE names is one.
LEMMA RunRuns ==
  ASSUME NEW m \in Machines, NEW bytes \in Seq(Byte)
  PROVE  Runs(Run(m, bytes), m, bytes) /\ FeedAll(m, bytes) = Run(m, bytes)[Len(bytes)]
<1> DEFINE D == Run(m, bytes)
           n == Len(bytes)
<1>1. n \in Nat /\ \A i \in 1 .. n : bytes[i] \in Byte
  OBVIOUS
<1>2. Feeds(D, m, bytes, n)
  BY <1>1, CanBeFed DEF Run
<1> HIDE DEF D
<1>3. \A i \in 0 .. n : D[i] = IF i = 0 THEN m ELSE FeedByte(D[i - 1], bytes[i])
  BY <1>2 DEF Feeds
<1> DEFINE T == {i \in 0 .. n : D[i] \in Machines}
<1>4. 0 \in T
  BY <1>1, <1>3
<1>5. ASSUME NEW i \in 0 .. n, i < n, i \in T
      PROVE  i + 1 \in T
  <2>1. i + 1 \in 0 .. n /\ i + 1 # 0 /\ (i + 1) - 1 = i /\ i + 1 \in 1 .. n
    BY <1>1, <1>5
  <2>2. D[i + 1] = FeedByte(D[i], bytes[i + 1]) /\ bytes[i + 1] \in Byte
    BY <1>1, <1>3, <2>1
  <2>3. D[i + 1] \in Machines
    BY <1>5, <2>2, ByteTyped
  <2> QED BY <2>1, <2>3
<1> HIDE DEF T
<1>6. \A i \in 0 .. n : i \in T
  BY <1>1, <1>4, <1>5, UpFrom
<1>7. \A i \in 0 .. n : D[i] \in Machines
  BY <1>6 DEF T
<1>8. 0 \in 0 .. n /\ \A i \in 1 .. n : i \in 0 .. n /\ i # 0
  BY <1>1
<1>9. Runs(D, m, bytes)
  BY <1>3, <1>7, <1>8 DEF Runs
<1> QED BY <1>9, FeedAllIsRun DEF D

\* Two runs agree as far as their bytes do.
LEMMA RunsAlike ==
  ASSUME NEW m, NEW s \in Seq(Byte), NEW t \in Seq(Byte), NEW D, NEW E, Runs(D, m, s), Runs(E, m, t),
         Len(s) <= Len(t), \A i \in 1 .. Len(s) : s[i] = t[i]
  PROVE  \A i \in 0 .. Len(s) : D[i] = E[i]
<1> DEFINE n == Len(s)
           T == {i \in 0 .. n : D[i] = E[i]}
<1>1. n \in Nat /\ Len(t) \in Nat
  OBVIOUS
<1>2. 0 \in T
  BY <1>1 DEF Runs
<1>3. ASSUME NEW i \in 0 .. n, i < n, i \in T
      PROVE  i + 1 \in T
  <2>1. i + 1 \in 1 .. n /\ i + 1 \in 1 .. Len(t) /\ (i + 1) - 1 = i /\ i + 1 \in 0 .. n
    BY <1>1, <1>3
  <2>2. D[i + 1] = FeedByte(D[i], s[i + 1]) /\ E[i + 1] = FeedByte(E[i], t[i + 1])
    BY <2>1 DEF Runs
  <2> QED BY <1>3, <2>1, <2>2
<1> HIDE DEF T
<1>4. \A i \in 0 .. n : i \in T
  BY <1>1, <1>2, <1>3, UpFrom
<1> QED BY <1>4 DEF T

\* No bytes change nothing.
LEMMA FeedNone ==
  ASSUME NEW m \in Machines
  PROVE  FeedAll(m, << >>) = m
<1>1. << >> \in Seq(Byte) /\ Len(<< >>) = 0
  BY Empty
<1> QED BY <1>1, RunRuns DEF Runs

\* One more byte is one more step of the decoder.
LEMMA FeedAppend ==
  ASSUME NEW m \in Machines, NEW bytes \in Seq(Byte), NEW b \in Byte
  PROVE  /\ FeedAll(m, bytes) \in Machines
         /\ FeedAll(m, Append(bytes, b)) = FeedByte(FeedAll(m, bytes), b)
<1> DEFINE n == Len(bytes)
           t == Append(bytes, b)
           D == Run(m, bytes)
           E == Run(m, t)
<1>1. n \in Nat /\ t \in Seq(Byte) /\ Len(t) = n + 1 /\ (\A i \in 1 .. n : bytes[i] = t[i]) /\ t[n + 1] = b
  BY AppendProperties
<1> HIDE DEF t
<1>2. Runs(D, m, bytes) /\ FeedAll(m, bytes) = D[n] /\ Runs(E, m, t) /\ FeedAll(m, t) = E[n + 1]
  BY <1>1, RunRuns
<1> HIDE DEF D, E
<1>3. D[n] = E[n]
  <2>1. n <= n + 1 /\ n \in 0 .. n
    BY <1>1
  <2> QED BY <1>1, <1>2, <2>1, RunsAlike
<1>4. E[n + 1] = FeedByte(E[n], b) /\ D[n] \in Machines
  <2>1. n + 1 \in 1 .. (n + 1) /\ (n + 1) - 1 = n /\ n \in 0 .. n
    BY <1>1
  <2> QED BY <1>1, <1>2, <2>1 DEF Runs
<1> QED BY <1>2, <1>3, <1>4 DEF t

-----------------------------------------------------------------------------
(* Escapes                                                                 *)

\* Of two neighbours one is even.
LEMMA Even ==
  ASSUME NEW n \in Nat
  PROVE  (n + 1) % 2 = 0 <=> n % 2 # 0
  OBVIOUS

\* An IAC opens an escape unless the byte before it does.
LEMMA PairNext ==
  ASSUME NEW s, NEW from \in Nat, NEW i \in Nat, from <= i + 1
  PROVE  EndsPair(s, from, i + 1) <=> s[i + 1] = IAC /\ ~EndsPair(s, from, i)
<1> DEFINE Row(j, k) == /\ \A x \in j .. k : s[x] = IAC
                        /\ j = from \/ s[j - 1] # IAC
<1>1. \A k : EndsPair(s, from, k) <=> \E j \in from .. k : Row(j, k) /\ (k - j) % 2 = 0
  BY DEF EndsPair
<1>2. ASSUME EndsPair(s, from, i + 1)
      PROVE  s[i + 1] = IAC /\ ~EndsPair(s, from, i)
  <2>1. PICK j \in from .. (i + 1) : Row(j, i + 1) /\ ((i + 1) - j) % 2 = 0
    BY <1>1, <1>2
  <2>2. s[i + 1] = IAC
    BY <2>1
  <2>3. ASSUME NEW k \in from .. i, Row(k, i), (i - k) % 2 = 0
        PROVE  FALSE
    <3>1. s[i] = IAC
      BY <2>3
    <3>2. j # i + 1
      BY <2>1, <2>3, <3>1
    <3>3. j = k
      <4>1. CASE j < k
        <5>1. k - 1 \in j .. (i + 1) /\ k # from
          BY <4>1
        <5> QED BY <2>1, <2>3, <5>1
      <4>2. CASE k < j
        <5>1. j - 1 \in k .. i /\ j # from
          BY <3>2, <4>2
        <5> QED BY <2>1, <2>3, <5>1
      <4> QED BY <4>1, <4>2
    <3>4. i - k \in Nat /\ (i - k) + 1 = (i + 1) - j
      BY <3>3
    <3> QED BY <2>1, <2>3, <3>4, Even
  <2> QED BY <1>1, <2>2, <2>3
<1>3. ASSUME s[i + 1] = IAC, ~EndsPair(s, from, i)
      PROVE  EndsPair(s, from, i + 1)
  <2>1. CASE from = i + 1 \/ s[i] # IAC
    <3>1. i + 1 \in from .. (i + 1) /\ Row(i + 1, i + 1) /\ ((i + 1) - (i + 1)) % 2 = 0
      BY <1>3, <2>1
    <3> HIDE DEF Row
    <3> QED BY <1>1, <3>1
  <2>2. CASE from # i + 1 /\ s[i] = IAC
    <3> DEFINE T == {k \in from .. i : \A x \in k .. i : s[x] = IAC}
    <3>1. i \in T /\ T \in SUBSET Nat
      BY <2>2
    <3>2. PICK k \in T : \A other \in T : k <= other
      <4> HIDE DEF T
      <4> QED BY <3>1, Least
    <3>3. k \in from .. i /\ \A x \in k .. i : s[x] = IAC
      OBVIOUS
    <3>4. k = from \/ s[k - 1] # IAC
      <4>1. ASSUME k # from, s[k - 1] = IAC
            PROVE  FALSE
        <5>1. k - 1 \in from .. i /\ ~(k <= k - 1) /\ \A x \in (k - 1) .. i : x = k - 1 \/ x \in k .. i
          BY <3>3, <4>1
        <5>2. k - 1 \in T
          BY <3>3, <4>1, <5>1
        <5> HIDE DEF T
        <5> QED BY <3>2, <5>1, <5>2
      <4> QED BY <4>1
    <3>5. Row(k, i)
      BY <3>3, <3>4
    <3>6. (i - k) % 2 # 0
      BY <1>1, <1>3, <3>3, <3>5
    <3>7. i - k \in Nat /\ (i - k) + 1 = (i + 1) - k
      BY <3>3
    <3>8. ((i + 1) - k) % 2 = 0
      BY <3>6, <3>7, Even
    <3>9. Row(k, i + 1) /\ k \in from .. (i + 1)
      <4>1. \A x \in k .. (i + 1) : x \in k .. i \/ x = i + 1
        BY <3>3
      <4> QED BY <1>3, <3>3, <3>4, <4>1
    <3> HIDE DEF Row
    <3> QED BY <1>1, <3>8, <3>9
  <2> QED BY <2>1, <2>2
<1> QED BY <1>2, <1>3

\* Before the first byte nothing is open.
LEMMA PairNone ==
  ASSUME NEW s, NEW from \in Nat, NEW i \in Nat, i < from
  PROVE  ~EndsPair(s, from, i)
  BY DEF EndsPair

\* What the bytes up to one place stand for, and the next one.
LEMMA UnescapedNext ==
  ASSUME NEW s \in Seq(Byte), NEW from \in Nat \ {0}, NEW i \in Nat, from <= i + 1, i + 1 <= Len(s)
  PROVE  /\ Unescaped(s, from, i) \in Seq(Byte)
         /\ Unescaped(s, from, i + 1) =
              Unescaped(s, from, i) \o (IF EndsPair(s, from, i + 1) THEN << >> ELSE <<s[i + 1]>>)
<1> DEFINE n == (i - from) + 1
           at(k) == (from + k) - 1
           f == [k \in 1 .. n |-> IF EndsPair(s, from, at(k)) THEN << >> ELSE <<s[at(k)]>>]
           g == [k \in 1 .. (n + 1) |-> IF EndsPair(s, from, at(k)) THEN << >> ELSE <<s[at(k)]>>]
<1>1. n \in Nat /\ ((i + 1) - from) + 1 = n + 1 /\ at(n + 1) = i + 1
  OBVIOUS
<1>2. \A k \in 1 .. (n + 1) : from + k - 1 = at(k) /\ at(k) \in 1 .. Len(s)
  OBVIOUS
<1>3. 1 .. n \subseteq 1 .. (n + 1)
  BY <1>1
<1>4. Unescaped(s, from, i) = FlattenSeq(f)
  <2>1. i - from + 1 = n /\ \A k \in 1 .. n : from + k - 1 = at(k)
    BY <1>2, <1>3
  <2>2. f = [k \in 1 .. (i - from + 1) |->
                IF EndsPair(s, from, from + k - 1) THEN << >> ELSE <<s[from + k - 1]>>]
    BY <2>1
  <2> HIDE DEF f
  <2> QED BY <2>2 DEF Unescaped
<1>5. Unescaped(s, from, i + 1) = FlattenSeq(g)
  <2>1. (i + 1) - from + 1 = n + 1
    OBVIOUS
  <2>2. g = [k \in 1 .. ((i + 1) - from + 1) |->
                IF EndsPair(s, from, from + k - 1) THEN << >> ELSE <<s[from + k - 1]>>]
    BY <1>2, <2>1
  <2> HIDE DEF g
  <2> QED BY <2>2 DEF Unescaped
<1>6. \A k \in 1 .. (n + 1) : g[k] \in Seq(Byte)
  <2>1. \A x \in 1 .. Len(s) : s[x] \in Byte
    OBVIOUS
  <2>2. \A b \in Byte : <<b>> \in Seq(Byte) /\ << >> \in Seq(Byte)
    BY Singles
  <2>3. \A k \in 1 .. (n + 1) : <<s[at(k)]>> \in Seq(Byte) /\ << >> \in Seq(Byte)
    BY <1>2, <2>1, <2>2
  <2> HIDE DEF n, at
  <2> QED BY <2>3
<1>7. Grows(f, g, n, Byte)
  <2>1. \A k \in 1 .. n : f[k] = g[k]
    BY <1>3
  <2>2. IsList(f, n) /\ IsList(g, n + 1)
    BY DEF IsList
  <2> HIDE DEF f, g, n
  <2> QED BY <1>6, <2>1, <2>2 DEF Grows
<1>8. g[n + 1] = IF EndsPair(s, from, i + 1) THEN << >> ELSE <<s[i + 1]>>
  <2>1. n + 1 \in 1 .. (n + 1)
    BY <1>1
  <2>2. g[n + 1] = IF EndsPair(s, from, at(n + 1)) THEN << >> ELSE <<s[at(n + 1)]>>
    <3> HIDE DEF n, at
    <3> QED BY <2>1
  <2> QED BY <1>1, <2>2
<1> HIDE DEF f, g, n
<1>9. n \in Nat
  BY <1>1
<1>10. FlattenSeq(f) \in Seq(Byte) /\ FlattenSeq(g) = FlattenSeq(f) \o g[n + 1]
  BY <1>7, <1>9, FlattenNext
<1> QED BY <1>4, <1>5, <1>8, <1>10

\* Nothing to unescape.
LEMMA UnescapedNone ==
  ASSUME NEW s, NEW from \in Nat \ {0}
  PROVE  Unescaped(s, from, from - 1) = << >>
<1>1. (from - 1) - from + 1 = 0
  OBVIOUS
<1>2. [k \in 1 .. ((from - 1) - from + 1) |->
         IF EndsPair(s, from, from + k - 1) THEN << >> ELSE <<s[from + k - 1]>>] = << >>
  BY <1>1
<1> QED BY <1>2, FlattenNone DEF Unescaped

-----------------------------------------------------------------------------
(* What a decoder has read                                                 *)

\* The verbs and options read on the way, which the decoder itself does not keep.
Spoke(D, s, k) == IF D[k - 1].decoder.at = "negotiation" THEN <<<<D[k - 1].decoder.verb, s[k]>>>> ELSE << >>
Spoken(D, s, i) == FlattenSeq([k \in 1 .. i |-> Spoke(D, s, k)])

\* D is what becomes of a new decoder along s.
Reading(D, s) == s \in Seq(Byte) /\ Runs(D, Fresh, s)

\* A step of a run over a stream is FeedByte of its byte.
LEMMA ReadingStep ==
  ASSUME NEW D, NEW s, Reading(D, s), NEW i \in Nat, i < Len(s)
  PROVE  /\ D[i] \in Machines /\ D[i + 1] \in Machines /\ s[i + 1] \in Byte
         /\ D[i + 1] = FeedByte(D[i], s[i + 1])
<1>1. s \in Seq(Byte) /\ Runs(D, Fresh, s)
  BY DEF Reading
<1>2. i + 1 \in 1 .. Len(s) /\ i \in 0 .. Len(s) /\ i + 1 \in 0 .. Len(s) /\ (i + 1) - 1 = i
  BY <1>1
<1> QED BY <1>1, <1>2 DEF Runs

\* What a byte says is a sequence of words.
LEMMA SpokeTyped ==
  ASSUME NEW D, NEW s, Reading(D, s), NEW k \in 1 .. Len(s)
  PROVE  Spoke(D, s, k) \in Seq(Seq(Byte))
<1>1. k - 1 \in Nat /\ k - 1 < Len(s) /\ (k - 1) + 1 = k
  BY DEF Reading
<1>2. D[k - 1] \in Machines /\ s[k] \in Byte
  BY <1>1, ReadingStep
<1>3. D[k - 1].decoder.verb \in Byte
  BY <1>2, MachineParts
<1>4. <<D[k - 1].decoder.verb, s[k]>> \in Seq(Byte)
  BY <1>2, <1>3
<1> QED BY <1>4, Singles DEF Spoke

\* What has been said so far, and what the next byte adds to it.
LEMMA SpokenNext ==
  ASSUME NEW D, NEW s, Reading(D, s), NEW i \in Nat, i < Len(s)
  PROVE  /\ Spoken(D, s, i) \in Seq(Seq(Byte))
         /\ Spoken(D, s, i + 1) = Spoken(D, s, i) \o Spoke(D, s, i + 1)
<1> DEFINE W == Seq(Byte)
           f == [k \in 1 .. i |-> Spoke(D, s, k)]
           g == [k \in 1 .. (i + 1) |-> Spoke(D, s, k)]
<1>1. Len(s) \in Nat
  BY DEF Reading
<1>2. 1 .. i \subseteq 1 .. (i + 1) /\ i + 1 \in 1 .. (i + 1)
  OBVIOUS
<1>3. IsList(f, i) /\ IsList(g, i + 1)
  BY DEF IsList
<1>4. \A k \in 1 .. i : f[k] = g[k]
  BY <1>2
<1>5. \A k \in 1 .. (i + 1) : g[k] \in Seq(W)
  <2>1. \A k \in 1 .. (i + 1) : k \in 1 .. Len(s)
    BY <1>1
  <2> QED BY <2>1, SpokeTyped
<1>6. g[i + 1] = Spoke(D, s, i + 1)
  BY <1>2
<1> HIDE DEF f, g, W
<1>7. Grows(f, g, i, W)
  BY <1>3, <1>4, <1>5 DEF Grows
<1>8. FlattenSeq(f) \in Seq(W) /\ FlattenSeq(g) = FlattenSeq(f) \o g[i + 1]
  BY <1>7, FlattenNext
<1> QED BY <1>6, <1>8 DEF Spoken, f, g, W

\* Before the first byte nothing has been said.
LEMMA SpokenNone ==
  ASSUME NEW D, NEW s
  PROVE  Spoken(D, s, 0) = << >>
<1>1. [k \in 1 .. 0 |-> Spoke(D, s, k)] = << >>
  OBVIOUS
<1> QED BY <1>1, FlattenNone DEF Spoken

\* What was said is a list of verbs and options.
LEMMA SpokenTyped ==
  ASSUME NEW D, NEW s, Reading(D, s), NEW i \in 0 .. Len(s)
  PROVE  Spoken(D, s, i) \in Seq(Seq(Byte))
<1> DEFINE W == Seq(Byte)
<1>1. Len(s) \in Nat /\ i \in Nat
  BY DEF Reading
<1>2. CASE i = 0
  BY <1>2, SpokenNone, Empty
<1>3. CASE i # 0
  <2>1. i - 1 \in Nat /\ i - 1 < Len(s) /\ (i - 1) + 1 = i /\ i \in 1 .. Len(s)
    BY <1>1, <1>3
  <2>2. Spoken(D, s, i - 1) \in Seq(W) /\ Spoken(D, s, i) = Spoken(D, s, i - 1) \o Spoke(D, s, i)
    BY <2>1, SpokenNext
  <2>3. Spoke(D, s, i) \in Seq(W)
    BY <2>1, SpokeTyped
  <2>4. \A x, y \in Seq(W) : x \o y \in Seq(W)
    <3> HIDE DEF W
    <3> QED OBVIOUS
  <2> QED BY <2>2, <2>3, <2>4
<1> QED BY <1>2, <1>3

\* What the bytes after i, up to j, add to payload, frames and what was said.
Adds(D, s, i, j, payload, frms, said) ==
  /\ payload \in Seq(Byte) /\ frms \in Seq(Seq(Byte)) /\ said \in Seq(Seq(Byte))
  /\ Added(D[j].yield.payload, D[i].yield.payload, payload)
  /\ Added(D[j].yield.frames, D[i].yield.frames, frms)
  /\ Added(Spoken(D, s, j), Spoken(D, s, i), said)

\* One step, as what it adds to the stream's yields.
LEMMA StepAdds ==
  ASSUME NEW D, NEW s, Reading(D, s), NEW i \in Nat, i < Len(s), NEW d, NEW p \in Seq(Byte), NEW r,
         NEW fs \in Seq(Seq(Byte)), D[i + 1] = Steps(D[i], d, p, r, fs), NEW v, Spoke(D, s, i + 1) = v
  PROVE  D[i + 1].decoder = d /\ Adds(D, s, i, i + 1, p, fs, v)
<1>1. i + 1 \in 1 .. Len(s)
  BY DEF Reading
<1>2. Spoke(D, s, i + 1) \in Seq(Seq(Byte))
  BY <1>1, SpokeTyped
<1>3. Added(Spoken(D, s, i + 1), Spoken(D, s, i), Spoke(D, s, i + 1))
  BY SpokenNext DEF Added
<1>4. /\ D[i + 1].decoder = d
      /\ Added(D[i + 1].yield.payload, D[i].yield.payload, p)
      /\ Added(D[i + 1].yield.frames, D[i].yield.frames, fs)
  BY StepsParts
<1> QED BY <1>2, <1>3, <1>4 DEF Adds

\* Adding twice is adding both.
LEMMA AddedMore ==
  ASSUME NEW V, NEW x \in Seq(V), NEW p \in Seq(V), NEW q \in Seq(V), NEW y, NEW z,
         Added(y, x, p), Added(z, y, q)
  PROVE  p \o q \in Seq(V) /\ Added(z, x, p \o q)
  BY DEF Added

\* Adding nothing is no change.
LEMMA AddedNone ==
  ASSUME NEW V, NEW x \in Seq(V)
  PROVE  Added(x, x, << >>)
  BY DEF Added

\* Two stretches of a stream add what both add.
LEMMA AddsMore ==
  ASSUME NEW D, NEW s, Reading(D, s), NEW i \in 0 .. Len(s), NEW j, NEW k,
         NEW p, NEW fs, NEW v, NEW q, NEW gs, NEW w, Adds(D, s, i, j, p, fs, v), Adds(D, s, j, k, q, gs, w)
  PROVE  Adds(D, s, i, k, p \o q, fs \o gs, v \o w)
<1> DEFINE W == Seq(Byte)
<1>1. D[i] \in Machines
  BY DEF Reading, Runs
<1>2. D[i].yield.payload \in W /\ D[i].yield.frames \in Seq(W) /\ Spoken(D, s, i) \in Seq(W)
  BY <1>1, MachineParts, SpokenTyped
<1> HIDE DEF W
<1>3. p \in W /\ q \in W /\ fs \in Seq(W) /\ gs \in Seq(W) /\ v \in Seq(W) /\ w \in Seq(W)
  BY DEF Adds, W
<1>4. p \o q \in Seq(Byte) /\ Added(D[k].yield.payload, D[i].yield.payload, p \o q)
  BY <1>2, <1>3, AddedMore DEF Adds, W
<1>5. fs \o gs \in Seq(W) /\ Added(D[k].yield.frames, D[i].yield.frames, fs \o gs)
  BY <1>2, <1>3, AddedMore DEF Adds
<1>6. v \o w \in Seq(W) /\ Added(Spoken(D, s, k), Spoken(D, s, i), v \o w)
  BY <1>2, <1>3, AddedMore DEF Adds
<1> QED BY <1>4, <1>5, <1>6 DEF Adds, W

\* Bytes that add nothing.
LEMMA AddsNothing ==
  ASSUME NEW D, NEW s, Reading(D, s), NEW i \in 0 .. Len(s), NEW j, NEW k,
         NEW p, NEW fs, NEW v, Adds(D, s, i, j, << >>, << >>, << >>), Adds(D, s, j, k, p, fs, v)
  PROVE  Adds(D, s, i, k, p, fs, v)
<1>1. Adds(D, s, i, k, << >> \o p, << >> \o fs, << >> \o v)
  BY AddsMore
<1> DEFINE W == Seq(Byte)
<1>2. p \in W /\ fs \in Seq(W) /\ v \in Seq(W)
  BY DEF Adds
<1>3. << >> \o p = p
  BY <1>2
<1> HIDE DEF W
<1>4. << >> \o fs = fs /\ << >> \o v = v
  BY <1>2
<1> QED BY <1>1, <1>3, <1>4

\* An empty stretch adds nothing.
LEMMA AddsNone ==
  ASSUME NEW D, NEW s, Reading(D, s), NEW i \in 0 .. Len(s)
  PROVE  Adds(D, s, i, i, << >>, << >>, << >>)
<1> DEFINE W == Seq(Byte)
<1>1. D[i] \in Machines
  BY DEF Reading, Runs
<1>2. D[i].yield.payload \in W /\ D[i].yield.frames \in Seq(W) /\ Spoken(D, s, i) \in Seq(W)
  BY <1>1, MachineParts, SpokenTyped
<1>3. Added(D[i].yield.payload, D[i].yield.payload, << >>)
  BY <1>2, AddedNone
<1> HIDE DEF W
<1>4. Added(D[i].yield.frames, D[i].yield.frames, << >>) /\ Added(Spoken(D, s, i), Spoken(D, s, i), << >>)
  BY <1>2, AddedNone
<1>5. << >> \in W /\ << >> \in Seq(W)
  BY Empty DEF W
<1> QED BY <1>3, <1>4, <1>5 DEF Adds, W

\* One byte of a stream, place by place.
LEMMA NotSpoke ==
  ASSUME NEW D, NEW s, NEW i \in Nat, D[i].decoder.at # "negotiation"
  PROVE  Spoke(D, s, i + 1) = << >>
<1>1. (i + 1) - 1 = i
  OBVIOUS
<1> QED BY <1>1 DEF Spoke

\* Along a run: a byte between tokens.
LEMMA OnData ==
  ASSUME NEW D, NEW s, Reading(D, s), NEW i \in Nat, i < Len(s), D[i].decoder.at = "data"
  PROVE  /\ s[i + 1] = IAC => D[i + 1].decoder.at = "iac" /\ Adds(D, s, i, i + 1, << >>, << >>, << >>)
         /\ s[i + 1] # IAC => D[i + 1].decoder.at = "data" /\ Adds(D, s, i, i + 1, <<s[i + 1]>>, << >>, << >>)
<1> DEFINE b == s[i + 1]
<1>1. D[i] \in Machines /\ b \in Byte /\ D[i + 1] = FeedByte(D[i], b)
  BY ReadingStep
<1>2. Spoke(D, s, i + 1) = << >>
  BY NotSpoke
<1>3. <<b>> \in Seq(Byte) /\ << >> \in Seq(Byte) /\ << >> \in Seq(Seq(Byte))
  BY <1>1, Singles, Empty
<1> HIDE DEF b
<1>4. ASSUME b = IAC
      PROVE  D[i + 1].decoder.at = "iac" /\ Adds(D, s, i, i + 1, << >>, << >>, << >>)
  <2>1. D[i + 1] = Steps(D[i], Moved(D[i].decoder, "iac"), << >>, << >>, << >>)
    BY <1>1, <1>4, ByteOnData
  <2>2. D[i + 1].decoder = Moved(D[i].decoder, "iac") /\ Adds(D, s, i, i + 1, << >>, << >>, << >>)
    BY <1>2, <1>3, <2>1, StepAdds
  <2> QED BY <2>2 DEF Moved
<1>5. ASSUME b # IAC
      PROVE  D[i + 1].decoder.at = "data" /\ Adds(D, s, i, i + 1, <<b>>, << >>, << >>)
  <2>1. D[i + 1] = Steps(D[i], Moved(D[i].decoder, "data"), <<b>>, << >>, << >>)
    BY <1>1, <1>5, ByteOnData
  <2>2. D[i + 1].decoder = Moved(D[i].decoder, "data") /\ Adds(D, s, i, i + 1, <<b>>, << >>, << >>)
    BY <1>2, <1>3, <2>1, StepAdds
  <2> QED BY <2>2 DEF Moved
<1> QED BY <1>4, <1>5 DEF b

\* Along a run: the byte after an IAC.
LEMMA OnIac ==
  ASSUME NEW D, NEW s, Reading(D, s), NEW i \in Nat, i < Len(s), D[i].decoder.at = "iac"
  PROVE  /\ s[i + 1] = IAC => D[i + 1].decoder.at = "data" /\ Adds(D, s, i, i + 1, <<s[i + 1]>>, << >>, << >>)
         /\ s[i + 1] \in Verbs => /\ D[i + 1].decoder.at = "negotiation" /\ D[i + 1].decoder.verb = s[i + 1]
                                  /\ Adds(D, s, i, i + 1, << >>, << >>, << >>)
         /\ s[i + 1] = SB => /\ D[i + 1].decoder.at = "subneg" /\ D[i + 1].decoder.frame = << >>
                             /\ Adds(D, s, i, i + 1, << >>, << >>, << >>)
         /\ s[i + 1] \in Other => D[i + 1].decoder.at = "data" /\ Adds(D, s, i, i + 1, << >>, << >>, << >>)
<1> DEFINE b == s[i + 1]
<1>1. D[i] \in Machines /\ b \in Byte /\ D[i + 1] = FeedByte(D[i], b)
  BY ReadingStep
<1>2. Spoke(D, s, i + 1) = << >>
  BY NotSpoke
<1>3. <<b>> \in Seq(Byte) /\ << >> \in Seq(Byte) /\ << >> \in Seq(Seq(Byte))
  BY <1>1, Singles, Empty
<1> HIDE DEF b
<1>4. ASSUME b = IAC
      PROVE  D[i + 1].decoder.at = "data" /\ Adds(D, s, i, i + 1, <<b>>, << >>, << >>)
  <2>1. D[i + 1] = Steps(D[i], Moved(D[i].decoder, "data"), <<b>>, << >>, << >>)
    BY <1>1, <1>4, ByteOnIac
  <2>2. D[i + 1].decoder = Moved(D[i].decoder, "data") /\ Adds(D, s, i, i + 1, <<b>>, << >>, << >>)
    BY <1>2, <1>3, <2>1, StepAdds
  <2> QED BY <2>2 DEF Moved
<1>5. ASSUME b \in Verbs
      PROVE  /\ D[i + 1].decoder.at = "negotiation" /\ D[i + 1].decoder.verb = b
             /\ Adds(D, s, i, i + 1, << >>, << >>, << >>)
  <2> DEFINE d == [at |-> "negotiation", verb |-> b, frame |-> D[i].decoder.frame]
  <2>1. D[i + 1] = Steps(D[i], d, << >>, << >>, << >>)
    BY <1>1, <1>5, ByteOnIac
  <2>2. d.at = "negotiation" /\ d.verb = b
    OBVIOUS
  <2> HIDE DEF d
  <2>3. D[i + 1].decoder = d /\ Adds(D, s, i, i + 1, << >>, << >>, << >>)
    BY <1>2, <1>3, <2>1, StepAdds
  <2> QED BY <2>2, <2>3
<1>6. ASSUME b = SB
      PROVE  /\ D[i + 1].decoder.at = "subneg" /\ D[i + 1].decoder.frame = << >>
             /\ Adds(D, s, i, i + 1, << >>, << >>, << >>)
  <2> DEFINE d == [at |-> "subneg", verb |-> D[i].decoder.verb, frame |-> << >>]
  <2>1. D[i + 1] = Steps(D[i], d, << >>, << >>, << >>)
    BY <1>1, <1>6, ByteOnIac
  <2>2. d.at = "subneg" /\ d.frame = << >>
    OBVIOUS
  <2> HIDE DEF d
  <2>3. D[i + 1].decoder = d /\ Adds(D, s, i, i + 1, << >>, << >>, << >>)
    BY <1>2, <1>3, <2>1, StepAdds
  <2> QED BY <2>2, <2>3
<1>7. ASSUME b \in Other
      PROVE  D[i + 1].decoder.at = "data" /\ Adds(D, s, i, i + 1, << >>, << >>, << >>)
  <2>1. D[i + 1] = Steps(D[i], Moved(D[i].decoder, "data"), << >>, << >>, << >>)
    BY <1>1, <1>7, ByteOnIac
  <2>2. D[i + 1].decoder = Moved(D[i].decoder, "data") /\ Adds(D, s, i, i + 1, << >>, << >>, << >>)
    BY <1>2, <1>3, <2>1, StepAdds
  <2> QED BY <2>2 DEF Moved
<1> QED BY <1>4, <1>5, <1>6, <1>7 DEF b

\* Along a run: the option after a verb is said with it.
LEMMA OnNegotiation ==
  ASSUME NEW D, NEW s, Reading(D, s), NEW i \in Nat, i < Len(s), D[i].decoder.at = "negotiation"
  PROVE  /\ D[i + 1].decoder.at = "data"
         /\ Adds(D, s, i, i + 1, << >>, << >>, <<<<D[i].decoder.verb, s[i + 1]>>>>)
<1> DEFINE b == s[i + 1]
           v == D[i].decoder.verb
<1>1. D[i] \in Machines /\ b \in Byte /\ D[i + 1] = FeedByte(D[i], b)
  BY ReadingStep
<1>2. Spoke(D, s, i + 1) = <<<<v, b>>>>
  <2>1. (i + 1) - 1 = i
    OBVIOUS
  <2> QED BY <2>1 DEF Spoke
<1>3. << >> \in Seq(Byte) /\ << >> \in Seq(Seq(Byte))
  BY Empty
<1>4. D[i + 1] = Steps(D[i], Moved(D[i].decoder, "data"), << >>, NegotiationReply(v, b), << >>)
  BY <1>1, ByteOnNegotiation
<1> HIDE DEF b, v
<1>5. D[i + 1].decoder = Moved(D[i].decoder, "data") /\ Adds(D, s, i, i + 1, << >>, << >>, Spoke(D, s, i + 1))
  BY <1>3, <1>4, StepAdds
<1> QED BY <1>2, <1>5 DEF Moved, b, v

\* Along a run: a byte of a subnegotiation.
LEMMA OnSubneg ==
  ASSUME NEW D, NEW s, Reading(D, s), NEW i \in Nat, i < Len(s), D[i].decoder.at = "subneg"
  PROVE  /\ Adds(D, s, i, i + 1, << >>, << >>, << >>)
         /\ s[i + 1] = IAC => D[i + 1].decoder.at = "subneg_iac" /\ D[i + 1].decoder.frame = D[i].decoder.frame
         /\ s[i + 1] # IAC => D[i + 1].decoder.at = "subneg" /\ D[i + 1].decoder.frame = Append(D[i].decoder.frame, s[i + 1])
<1> DEFINE b == s[i + 1]
<1>1. D[i] \in Machines /\ b \in Byte /\ D[i + 1] = FeedByte(D[i], b)
  BY ReadingStep
<1>2. Spoke(D, s, i + 1) = << >>
  BY NotSpoke
<1>3. << >> \in Seq(Byte) /\ << >> \in Seq(Seq(Byte))
  BY Empty
<1> DEFINE d == IF b = IAC THEN Moved(D[i].decoder, "subneg_iac") ELSE Kept(D[i].decoder, "subneg", b)
<1>4. D[i + 1] = Steps(D[i], d, << >>, << >>, << >>)
  <2> HIDE DEF b
  <2>1. CASE b = IAC
    BY <1>1, <2>1, ByteOnSubneg
  <2>2. CASE b # IAC
    BY <1>1, <2>2, ByteOnSubneg
  <2> QED BY <2>1, <2>2
<1> HIDE DEF d
<1>5. D[i + 1].decoder = d /\ Adds(D, s, i, i + 1, << >>, << >>, << >>)
  BY <1>2, <1>3, <1>4, StepAdds
<1> HIDE DEF b
<1>6. /\ b = IAC => d.at = "subneg_iac" /\ d.frame = D[i].decoder.frame
      /\ b # IAC => d.at = "subneg" /\ d.frame = Append(D[i].decoder.frame, b)
  BY DEF d, Moved, Kept
<1> QED BY <1>5, <1>6 DEF b

\* Along a run: the byte after an IAC of a subnegotiation.
LEMMA OnSubnegIac ==
  ASSUME NEW D, NEW s, Reading(D, s), NEW i \in Nat, i < Len(s), D[i].decoder.at = "subneg_iac"
  PROVE  /\ s[i + 1] = IAC => /\ D[i + 1].decoder.at = "subneg"
                              /\ D[i + 1].decoder.frame = Append(D[i].decoder.frame, s[i + 1])
                              /\ Adds(D, s, i, i + 1, << >>, << >>, << >>)
         /\ s[i + 1] # IAC =>
              /\ D[i + 1].decoder.at = "data"
              /\ Adds(D, s, i, i + 1, << >>, IF s[i + 1] = SE THEN <<D[i].decoder.frame>> ELSE << >>, << >>)
<1> DEFINE b == s[i + 1]
<1>1. D[i] \in Machines /\ b \in Byte /\ D[i + 1] = FeedByte(D[i], b)
  BY ReadingStep
<1>2. Spoke(D, s, i + 1) = << >>
  BY NotSpoke
<1>3. << >> \in Seq(Byte) /\ << >> \in Seq(Seq(Byte)) /\ <<D[i].decoder.frame>> \in Seq(Seq(Byte))
  <2>1. D[i].decoder.frame \in Seq(Byte)
    BY <1>1, MachineParts
  <2> QED BY <2>1, Empty, Singles
<1> DEFINE fs == IF b = SE THEN <<D[i].decoder.frame>> ELSE << >>
           e == Kept(D[i].decoder, "subneg", b)
<1> HIDE DEF b
<1>4. ASSUME b = IAC
      PROVE  D[i + 1].decoder = e /\ Adds(D, s, i, i + 1, << >>, << >>, << >>)
  <2>1. D[i + 1] = Steps(D[i], e, << >>, << >>, << >>)
    BY <1>1, <1>4, ByteOnSubnegIac
  <2> HIDE DEF e
  <2> QED BY <1>2, <1>3, <2>1, StepAdds
<1>5. ASSUME b # IAC
      PROVE  D[i + 1].decoder = Moved(D[i].decoder, "data") /\ Adds(D, s, i, i + 1, << >>, fs, << >>)
  <2>1. D[i + 1] = Steps(D[i], Moved(D[i].decoder, "data"), << >>, << >>, fs)
    <3>1. CASE b = SE
      BY <1>1, <3>1, ByteOnSubnegIac
    <3>2. CASE b # SE
      BY <1>1, <1>5, <3>2, ByteOnSubnegIac
    <3> QED BY <3>1, <3>2
  <2>2. fs \in Seq(Seq(Byte))
    BY <1>3
  <2> HIDE DEF fs
  <2> QED BY <1>2, <1>3, <2>1, <2>2, StepAdds
<1>6. e.at = "subneg" /\ e.frame = Append(D[i].decoder.frame, b) /\ Moved(D[i].decoder, "data").at = "data"
  BY DEF Moved, Kept
<1> HIDE DEF e
<1> QED BY <1>4, <1>5, <1>6 DEF b

\* Within a subnegotiation whose first byte is that at from.
Inside(D, s, from, j) ==
  /\ D[j].decoder.at = IF EndsPair(s, from, j) THEN "subneg_iac" ELSE "subneg"
  /\ D[j].decoder.frame = Unescaped(s, from, j)
  /\ Adds(D, s, from - 1, j, << >>, << >>, << >>)

\* A byte that does not end the subnegotiation leaves the decoder in it.
LEMMA InsideNext ==
  ASSUME NEW D, NEW s, Reading(D, s), NEW from \in Nat \ {0}, NEW j \in Nat, from <= j + 1, j < Len(s),
         Inside(D, s, from, j), EndsPair(s, from, j) => s[j + 1] = IAC
  PROVE  Inside(D, s, from, j + 1)
<1> DEFINE b == s[j + 1]
           u == Unescaped(s, from, j)
<1>1. s \in Seq(Byte) /\ Len(s) \in Nat /\ b \in Byte
  BY ReadingStep DEF Reading
<1>2. EndsPair(s, from, j + 1) <=> b = IAC /\ ~EndsPair(s, from, j)
  BY PairNext
<1>3. j + 1 <= Len(s)
  BY <1>1
<1>4. u \in Seq(Byte) /\ Unescaped(s, from, j + 1) = u \o (IF EndsPair(s, from, j + 1) THEN << >> ELSE <<b>>)
  BY <1>1, <1>3, UnescapedNext
<1>5. from - 1 \in 0 .. Len(s)
  BY <1>1
<1>6. Adds(D, s, from - 1, j, << >>, << >>, << >>)
  BY DEF Inside
<1>7. D[j].decoder.frame = u
  BY DEF Inside
<1> HIDE DEF b, u
<1>8. u \o << >> = u /\ u \o <<b>> = Append(u, b)
  BY <1>1, <1>4
<1>9. CASE EndsPair(s, from, j)
  <2>1. D[j].decoder.at = "subneg_iac" /\ b = IAC
    BY <1>9 DEF Inside, b
  <2>2. /\ D[j + 1].decoder.at = "subneg" /\ D[j + 1].decoder.frame = Append(u, b)
        /\ Adds(D, s, j, j + 1, << >>, << >>, << >>)
    BY <1>7, <2>1, OnSubnegIac DEF b
  <2>3. Adds(D, s, from - 1, j + 1, << >>, << >>, << >>)
    BY <1>5, <1>6, <2>2, AddsNothing
  <2>4. ~EndsPair(s, from, j + 1) /\ Unescaped(s, from, j + 1) = Append(u, b)
    BY <1>2, <1>4, <1>8, <1>9
  <2> QED BY <2>2, <2>3, <2>4 DEF Inside
<1>10. CASE ~EndsPair(s, from, j)
  <2>1. D[j].decoder.at = "subneg"
    BY <1>10 DEF Inside
  <2>2. /\ Adds(D, s, j, j + 1, << >>, << >>, << >>)
        /\ b = IAC => D[j + 1].decoder.at = "subneg_iac" /\ D[j + 1].decoder.frame = u
        /\ b # IAC => D[j + 1].decoder.at = "subneg" /\ D[j + 1].decoder.frame = Append(u, b)
    BY <1>7, <2>1, OnSubneg DEF b
  <2>3. Adds(D, s, from - 1, j + 1, << >>, << >>, << >>)
    BY <1>5, <1>6, <2>2, AddsNothing
  <2>4. CASE b = IAC
    <3>1. EndsPair(s, from, j + 1) /\ Unescaped(s, from, j + 1) = u
      BY <1>2, <1>4, <1>8, <1>10, <2>4
    <3> QED BY <2>2, <2>3, <2>4, <3>1 DEF Inside
  <2>5. CASE b # IAC
    <3>1. ~EndsPair(s, from, j + 1) /\ Unescaped(s, from, j + 1) = Append(u, b)
      BY <1>2, <1>4, <1>8, <2>5
    <3> QED BY <2>2, <2>3, <2>5, <3>1 DEF Inside
  <2> QED BY <2>4, <2>5
<1> QED BY <1>9, <1>10

\* Up to the first closing the decoder is in the subnegotiation, with its bytes unescaped.
LEMMA StaysInside ==
  ASSUME NEW D, NEW s, Reading(D, s), NEW from \in Nat \ {0}, from - 1 <= Len(s),
         D[from - 1].decoder.at = "subneg", D[from - 1].decoder.frame = << >>,
         NEW n \in (from - 1) .. Len(s), \A k \in Closings(s, from) : n <= k
  PROVE  Inside(D, s, from, n)
<1> DEFINE first == from - 1
           T == {j \in first .. n : Inside(D, s, from, j)}
<1>1. first \in Nat /\ n \in Nat /\ first \in first .. n /\ first \in 0 .. Len(s) /\ Len(s) \in Nat
  BY DEF Reading
<1>2. first \in T
  <2>1. ~EndsPair(s, from, first)
    BY <1>1, PairNone
  <2>2. Unescaped(s, from, first) = << >>
    BY UnescapedNone
  <2>3. Adds(D, s, first, first, << >>, << >>, << >>)
    BY <1>1, AddsNone
  <2> QED BY <1>1, <2>1, <2>2, <2>3 DEF Inside
<1>3. ASSUME NEW j \in first .. n, j < n, j \in T
      PROVE  j + 1 \in T
  <2>1. j \in Nat /\ from <= j + 1 /\ j < Len(s) /\ j + 1 \in first .. n
    BY <1>1, <1>3
  <2>2. ASSUME EndsPair(s, from, j), s[j + 1] # IAC
        PROVE  FALSE
    <3>1. from <= j
      BY <2>1, <2>2, PairNone
    <3>2. j \in from .. (Len(s) - 1)
      BY <1>1, <2>1, <3>1
    <3>3. j \in Closings(s, from)
      BY <2>2, <3>2 DEF Closings
    <3>4. n <= j
      BY <3>3
    <3> QED BY <1>3, <2>1, <3>4, <1>1
  <2>3. Inside(D, s, from, j)
    BY <1>3
  <2>4. Inside(D, s, from, j + 1)
    BY <2>1, <2>2, <2>3, InsideNext
  <2> QED BY <2>1, <2>4
<1> HIDE DEF T, first
<1>4. \A j \in first .. n : j \in T
  BY <1>1, <1>2, <1>3, UpFrom
<1>5. n \in first .. n
  BY DEF first
<1> QED BY <1>4, <1>5 DEF T

-----------------------------------------------------------------------------
(* Tokens                                                                  *)

\* What a token contributes.
Plain(t)   == IF t.kind = "data" THEN t.body ELSE << >>
Part(t, k) == IF t.kind = k THEN <<t.body>> ELSE << >>

\* The decoder is back where it takes data after a whole token, and has got what it says.
TokenDone(D, s, i, t) ==
  /\ t.length \in 1 .. Len(s) /\ t.body \in Seq(Byte)
  /\ \E e \in i .. Len(s) :
       /\ i + t.length <= Len(s) => e = (i + t.length) - 1 /\ D[e].decoder.at = "data"
       /\ i + t.length > Len(s) => e = Len(s)
       /\ Adds(D, s, i - 1, e, Plain(t), Part(t, "frame"), Part(t, "verb"))

\* The start of a token.
Begins(D, s, i) == Reading(D, s) /\ i \in 1 .. Len(s) /\ D[i - 1].decoder.at = "data"

\* What holds where a token begins.
LEMMA BeginsFacts ==
  ASSUME NEW D, NEW s, NEW i, Begins(D, s, i)
  PROVE  /\ Reading(D, s) /\ Len(s) \in Nat /\ i \in Nat /\ i >= 1 /\ i <= Len(s) /\ s[i] \in Byte
         /\ i - 1 \in Nat /\ i - 1 \in 0 .. Len(s) /\ i - 1 < Len(s) /\ (i - 1) + 1 = i
         /\ D[i - 1].decoder.at = "data"
         /\ i + 1 <= Len(s) => s[i + 1] \in Byte
         /\ i + 2 <= Len(s) => s[i + 2] \in Byte
<1>1. Reading(D, s) /\ s \in Seq(Byte) /\ i \in 1 .. Len(s) /\ D[i - 1].decoder.at = "data"
  BY DEF Begins, Reading
<1>2. \A k \in 1 .. Len(s) : s[k] \in Byte
  BY <1>1
<1>3. (i + 1 <= Len(s) => i + 1 \in 1 .. Len(s)) /\ (i + 2 <= Len(s) => i + 2 \in 1 .. Len(s))
  BY <1>1
<1> QED BY <1>1, <1>2, <1>3

\* A byte of data.
LEMMA ReadPlain ==
  ASSUME NEW D, NEW s, NEW i, Begins(D, s, i), s[i] # IAC
  PROVE  TokenDone(D, s, i, TokenAt(s, i))
<1> DEFINE t == [kind |-> "data", body |-> <<s[i]>>, length |-> 1]
<1>1. TokenAt(s, i) = t
  BY DEF TokenAt
<1>2. D[i].decoder.at = "data" /\ Adds(D, s, i - 1, i, <<s[i]>>, << >>, << >>)
  BY BeginsFacts, OnData
<1>3. t.length = 1 /\ t.body = <<s[i]>> /\ Plain(t) = <<s[i]>> /\ Part(t, "frame") = << >> /\ Part(t, "verb") = << >>
  BY DEF Plain, Part
<1>4. <<s[i]>> \in Seq(Byte)
  BY BeginsFacts, Singles
<1> HIDE DEF t
<1>5. /\ t.length \in 1 .. Len(s) /\ i \in i .. Len(s)
      /\ i + t.length <= Len(s) => i = (i + t.length) - 1
      /\ i + t.length > Len(s) => i = Len(s)
  BY <1>3, BeginsFacts
<1> QED BY <1>1, <1>2, <1>3, <1>4, <1>5 DEF TokenDone

\* An IAC, and the byte after it.
LEMMA AfterIac ==
  ASSUME NEW D, NEW s, NEW i, Begins(D, s, i), s[i] = IAC
  PROVE  /\ D[i].decoder.at = "iac" /\ Adds(D, s, i - 1, i, << >>, << >>, << >>)
         /\ \A e, p, fs, v : Adds(D, s, i, e, p, fs, v) => Adds(D, s, i - 1, e, p, fs, v)
<1>1. D[i].decoder.at = "iac" /\ Adds(D, s, i - 1, i, << >>, << >>, << >>)
  <2> DEFINE j == i - 1
  <2>1. Reading(D, s) /\ j \in Nat /\ j < Len(s) /\ D[j].decoder.at = "data" /\ j + 1 = i
    BY BeginsFacts
  <2> HIDE DEF j
  <2>2. D[j + 1].decoder.at = "iac" /\ Adds(D, s, j, j + 1, << >>, << >>, << >>)
    BY <2>1, OnData
  <2> QED BY <2>1, <2>2 DEF j
<1>2. Reading(D, s) /\ i - 1 \in 0 .. Len(s)
  BY BeginsFacts
<1>3. ASSUME NEW e, NEW p, NEW fs, NEW v, Adds(D, s, i, e, p, fs, v)
      PROVE  Adds(D, s, i - 1, e, p, fs, v)
  BY <1>1, <1>2, <1>3, AddsNothing
<1> QED BY <1>1, <1>3

\* One that ends the stream.
LEMMA ReadCut ==
  ASSUME NEW D, NEW s, NEW i, Begins(D, s, i), s[i] = IAC, i = Len(s)
  PROVE  TokenDone(D, s, i, TokenAt(s, i))
<1> DEFINE t == [NoToken EXCEPT !.length = 1]
<1>1. TokenAt(s, i) = t
  <2>1. ~(i + 1 <= Len(s))
    BY BeginsFacts
  <2> QED BY <2>1 DEF TokenAt
<1>2. Adds(D, s, i - 1, i, << >>, << >>, << >>)
  BY AfterIac
<1>3. t.length = 1 /\ t.body = << >> /\ Plain(t) = << >> /\ Part(t, "frame") = << >> /\ Part(t, "verb") = << >>
  BY DEF Plain, Part, NoToken
<1>4. << >> \in Seq(Byte)
  BY Empty
<1> HIDE DEF t
<1>5. /\ t.length \in 1 .. Len(s) /\ i \in i .. Len(s)
      /\ ~(i + t.length <= Len(s))
      /\ i + t.length > Len(s) => i = Len(s)
  BY <1>3, BeginsFacts
<1> QED BY <1>1, <1>2, <1>3, <1>4, <1>5 DEF TokenDone

\* IAC IAC is an IAC of the data.
LEMMA ReadEscaped ==
  ASSUME NEW D, NEW s, NEW i, Begins(D, s, i), s[i] = IAC, i < Len(s), s[i + 1] = IAC
  PROVE  TokenDone(D, s, i, TokenAt(s, i))
<1> DEFINE t == [kind |-> "data", body |-> <<IAC>>, length |-> 2]
<1>0. i + 1 <= Len(s)
  BY BeginsFacts
<1>1. TokenAt(s, i) = t
  BY <1>0, Codes DEF TokenAt
<1>2. D[i].decoder.at = "iac" /\ Reading(D, s) /\ i \in Nat
  BY AfterIac, BeginsFacts
<1>3. D[i + 1].decoder.at = "data" /\ Adds(D, s, i, i + 1, <<IAC>>, << >>, << >>)
  BY <1>2, OnIac
<1>4. Adds(D, s, i - 1, i + 1, <<IAC>>, << >>, << >>)
  BY <1>3, AfterIac
<1>5. t.length = 2 /\ t.body = <<IAC>> /\ Plain(t) = <<IAC>> /\ Part(t, "frame") = << >> /\ Part(t, "verb") = << >>
  BY DEF Plain, Part
<1>6. <<IAC>> \in Seq(Byte)
  BY Codes, Singles
<1> HIDE DEF t
<1>7. /\ t.length \in 1 .. Len(s) /\ i + 1 \in i .. Len(s)
      /\ i + t.length <= Len(s) => i + 1 = (i + t.length) - 1
      /\ i + t.length > Len(s) => i + 1 = Len(s)
  BY <1>0, <1>5, BeginsFacts
<1> QED BY <1>1, <1>3, <1>4, <1>5, <1>6, <1>7 DEF TokenDone

\* IAC and a byte that means nothing.
LEMMA ReadOther ==
  ASSUME NEW D, NEW s, NEW i, Begins(D, s, i), s[i] = IAC, i < Len(s), s[i + 1] \in Other
  PROVE  TokenDone(D, s, i, TokenAt(s, i))
<1> DEFINE t == [NoToken EXCEPT !.length = 2]
<1>0. i + 1 <= Len(s)
  BY BeginsFacts
<1>1. TokenAt(s, i) = t
  <2>1. s[i + 1] \notin Verbs \cup {IAC, SB}
    BY DEF Other
  <2> QED BY <1>0, <2>1 DEF TokenAt
<1>2. D[i].decoder.at = "iac" /\ Reading(D, s) /\ i \in Nat
  BY AfterIac, BeginsFacts
<1>3. D[i + 1].decoder.at = "data" /\ Adds(D, s, i, i + 1, << >>, << >>, << >>)
  BY <1>2, OnIac
<1>4. Adds(D, s, i - 1, i + 1, << >>, << >>, << >>)
  BY <1>3, AfterIac
<1>5. t.length = 2 /\ t.body = << >> /\ Plain(t) = << >> /\ Part(t, "frame") = << >> /\ Part(t, "verb") = << >>
  BY DEF Plain, Part, NoToken
<1>6. << >> \in Seq(Byte)
  BY Empty
<1> HIDE DEF t
<1>7. /\ t.length \in 1 .. Len(s) /\ i + 1 \in i .. Len(s)
      /\ i + t.length <= Len(s) => i + 1 = (i + t.length) - 1
      /\ i + t.length > Len(s) => i + 1 = Len(s)
  BY <1>0, <1>5, BeginsFacts
<1> QED BY <1>1, <1>3, <1>4, <1>5, <1>6, <1>7 DEF TokenDone

\* IAC, a verb and, unless the stream ends there, an option.
LEMMA ReadVerb ==
  ASSUME NEW D, NEW s, NEW i, Begins(D, s, i), s[i] = IAC, i < Len(s), s[i + 1] \in Verbs
  PROVE  TokenDone(D, s, i, TokenAt(s, i))
<1>0. i + 1 <= Len(s)
  BY BeginsFacts
<1>1. s[i + 1] # IAC /\ s[i + 1] # SB
  BY Codes
<1>2. D[i].decoder.at = "iac" /\ Reading(D, s) /\ i \in Nat
  BY AfterIac, BeginsFacts
<1>3. /\ D[i + 1].decoder.at = "negotiation" /\ D[i + 1].decoder.verb = s[i + 1]
      /\ Adds(D, s, i, i + 1, << >>, << >>, << >>)
  BY <1>2, OnIac
<1>4. Adds(D, s, i - 1, i + 1, << >>, << >>, << >>)
  BY <1>3, AfterIac
<1>5. CASE i + 1 = Len(s)
  <2> DEFINE t == [NoToken EXCEPT !.length = 2]
  <2>1. TokenAt(s, i) = t
    <3>1. ~(i + 2 <= Len(s))
      BY <1>5, BeginsFacts
    <3> QED BY <1>0, <1>1, <3>1 DEF TokenAt
  <2>2. t.length = 2 /\ t.body = << >> /\ Plain(t) = << >> /\ Part(t, "frame") = << >> /\ Part(t, "verb") = << >>
    BY DEF Plain, Part, NoToken
  <2>3. << >> \in Seq(Byte)
    BY Empty
  <2> HIDE DEF t
  <2>4. /\ t.length \in 1 .. Len(s) /\ i + 1 \in i .. Len(s) /\ ~(i + t.length <= Len(s))
        /\ i + t.length > Len(s) => i + 1 = Len(s)
    BY <1>0, <1>5, <2>2, BeginsFacts
  <2> QED BY <1>4, <2>1, <2>2, <2>3, <2>4 DEF TokenDone
<1>6. CASE i + 1 # Len(s)
  <2> DEFINE said == <<s[i + 1], s[i + 2]>>
             t == [kind |-> "verb", body |-> said, length |-> 3]
  <2>0. i + 2 <= Len(s) /\ i + 1 \in Nat /\ i + 1 < Len(s) /\ (i + 1) + 1 = i + 2
    BY <1>0, <1>6, BeginsFacts
  <2>1. TokenAt(s, i) = t
    BY <1>0, <1>1, <2>0 DEF TokenAt
  <2>2. D[i + 2].decoder.at = "data" /\ Adds(D, s, i + 1, i + 2, << >>, << >>, <<said>>)
    BY <1>2, <1>3, <2>0, OnNegotiation
  <2>3. said \in Seq(Byte)
    BY <1>0, <2>0, BeginsFacts
  <2> HIDE DEF said
  <2>4. Adds(D, s, i - 1, i + 2, << >>, << >>, <<said>>)
    BY <1>4, <2>2, BeginsFacts, AddsNothing
  <2>5. t.length = 3 /\ t.body = said /\ Plain(t) = << >> /\ Part(t, "frame") = << >> /\ Part(t, "verb") = <<said>>
    BY DEF Plain, Part
  <2> HIDE DEF t
  <2>6. /\ t.length \in 1 .. Len(s) /\ i + 2 \in i .. Len(s)
        /\ i + t.length <= Len(s) => i + 2 = (i + t.length) - 1
        /\ i + t.length > Len(s) => i + 2 = Len(s)
    BY <2>0, <2>5, BeginsFacts
  <2> QED BY <2>1, <2>2, <2>3, <2>4, <2>5, <2>6 DEF TokenDone
<1> QED BY <1>5, <1>6

\* IAC SB, up to the first IAC that is no escape and the byte after it.
LEMMA ReadSubneg ==
  ASSUME NEW D, NEW s, NEW i, Begins(D, s, i), s[i] = IAC, i < Len(s), s[i + 1] = SB
  PROVE  TokenDone(D, s, i, TokenAt(s, i))
<1> DEFINE from == i + 2
           over == Closings(s, from)
<1>0. /\ i + 1 <= Len(s) /\ i + 1 \in Nat /\ i + 1 \in 0 .. Len(s) /\ from \in Nat \ {0}
      /\ from - 1 = i + 1 /\ from - 1 <= Len(s) /\ i \in Nat /\ Len(s) \in Nat /\ i - 1 \in 0 .. Len(s)
  BY BeginsFacts
<1>1. s[i + 1] # IAC /\ s[i + 1] \notin Verbs
  BY Codes
<1>2. D[i].decoder.at = "iac" /\ Reading(D, s)
  BY AfterIac, BeginsFacts
<1>3. /\ D[i + 1].decoder.at = "subneg" /\ D[i + 1].decoder.frame = << >>
      /\ Adds(D, s, i, i + 1, << >>, << >>, << >>)
  BY <1>0, <1>2, OnIac
<1>4. Adds(D, s, i - 1, i + 1, << >>, << >>, << >>)
  BY <1>3, AfterIac
<1>7. TokenAt(s, i) = SubnegAt(s, i)
  BY <1>0, <1>1 DEF TokenAt
<1>5. CASE over = {}
  <2> DEFINE t == [NoToken EXCEPT !.length = Len(s)]
             n == Len(s)
  <2>1. TokenAt(s, i) = t
    BY <1>5, <1>7 DEF SubnegAt
  <2>2. n \in (from - 1) .. n
    BY <1>0
  <2>3. \A k \in over : n <= k
    BY <1>5
  <2> HIDE DEF over, from
  <2>4. Inside(D, s, from, n)
    BY <1>0, <1>2, <1>3, <2>2, <2>3, StaysInside DEF over
  <2>5. Adds(D, s, i + 1, n, << >>, << >>, << >>)
    BY <1>0, <2>4 DEF Inside
  <2>6. Adds(D, s, i - 1, n, << >>, << >>, << >>)
    BY <1>0, <1>2, <1>4, <2>5, AddsNothing
  <2>7. t.length = n /\ t.body = << >> /\ Plain(t) = << >> /\ Part(t, "frame") = << >> /\ Part(t, "verb") = << >>
    BY DEF Plain, Part, NoToken
  <2>8. << >> \in Seq(Byte)
    BY Empty
  <2> HIDE DEF t
  <2>9. t.length \in 1 .. n /\ n \in i .. n /\ ~(i + t.length <= n)
    BY <2>7, BeginsFacts
  <2> QED BY <2>1, <2>6, <2>7, <2>8, <2>9 DEF TokenDone
<1>6. CASE over # {}
  <2> DEFINE last == Min(over)
             body == Unescaped(s, from, last - 1)
             t == [kind |-> IF s[last + 1] = SE THEN "frame" ELSE "none", body |-> body, length |-> last + 2 - i]
  <2>1. TokenAt(s, i) = t
    <3>1. SubnegAt(s, i) = t
      BY <1>6, ZenonT(30) DEF SubnegAt
    <3> QED BY <1>7, <3>1
  <2>2. over \in SUBSET Nat
    BY <1>0 DEF Closings
  <2> HIDE DEF t, body
  <2>3. last \in over /\ \A k \in over : last <= k
    <3>1. \E k \in over : \A other \in over : k <= other
      <4> HIDE DEF over, last
      <4> QED BY <1>6, <2>2, Least
    <3> HIDE DEF over
    <3> QED BY <3>1 DEF Min
  <2>4. last \in from .. (Len(s) - 1) /\ EndsPair(s, from, last) /\ s[last + 1] # IAC
    BY <2>3 DEF Closings
  <2> HIDE DEF last
  <2>5. /\ last \in Nat /\ last < Len(s) /\ last \in (from - 1) .. Len(s) /\ last - 1 \in Nat
        /\ (last - 1) + 1 = last /\ from <= (last - 1) + 1 /\ last <= Len(s)
    BY <1>0, <2>4
  <2> HIDE DEF over, from
  <2>6. Inside(D, s, from, last)
    BY <1>0, <1>2, <1>3, <2>3, <2>5, StaysInside DEF over
  <2>7. D[last].decoder.at = "subneg_iac" /\ D[last].decoder.frame = Unescaped(s, from, last)
    BY <2>4, <2>6 DEF Inside
  <2>8. body \in Seq(Byte) /\ Unescaped(s, from, last) = body
    <3>1. s \in Seq(Byte)
      BY <1>2 DEF Reading
    <3>2. body \in Seq(Byte) /\ Unescaped(s, from, last) = body \o << >>
      BY <1>0, <2>4, <2>5, <3>1, UnescapedNext DEF body
    <3>3. body \o << >> = body
      BY <3>2
    <3> QED BY <3>2, <3>3
  <2> DEFINE fs == IF s[last + 1] = SE THEN <<body>> ELSE << >>
  <2>9. D[last + 1].decoder.at = "data" /\ Adds(D, s, last, last + 1, << >>, fs, << >>)
    BY <1>2, <2>4, <2>5, <2>7, <2>8, OnSubnegIac
  <2>10. t.length = last + 2 - i /\ t.body = body /\ Plain(t) = << >> /\ Part(t, "frame") = fs /\ Part(t, "verb") = << >>
    BY DEF Plain, Part, t
  <2> HIDE DEF fs
  <2>11. Adds(D, s, i + 1, last, << >>, << >>, << >>)
    BY <1>0, <2>6 DEF Inside
  <2>12. Adds(D, s, i - 1, last, << >>, << >>, << >>)
    BY <1>0, <1>2, <1>4, <2>11, AddsNothing
  <2>13. Adds(D, s, i - 1, last + 1, << >>, fs, << >>)
    BY <1>0, <1>2, <2>9, <2>12, AddsNothing
  <2>14. /\ t.length \in 1 .. Len(s) /\ last + 1 \in i .. Len(s)
         /\ i + t.length <= Len(s) => last + 1 = (i + t.length) - 1
         /\ i + t.length > Len(s) => last + 1 = Len(s)
    <3> DEFINE n == Len(s)
               l == t.length
    <3>1. n \in Nat /\ i \in Nat /\ i >= 1 /\ last \in (i + 2) .. (n - 1)
      BY <1>0, <2>4, BeginsFacts DEF from
    <3>2. l = last + 2 - i
      BY <2>10
    <3> HIDE DEF n, l
    <3>3. l \in 1 .. n /\ last + 1 \in i .. n
      BY <3>1, <3>2
    <3>4. (i + l <= n => last + 1 = (i + l) - 1) /\ (i + l > n => last + 1 = n)
      BY <3>1, <3>2
    <3> QED BY <3>3, <3>4 DEF n, l
  <2>15. Adds(D, s, i - 1, last + 1, Plain(t), Part(t, "frame"), Part(t, "verb"))
    BY <2>10, <2>13
  <2>16. t.body \in Seq(Byte) /\ D[last + 1].decoder.at = "data"
    BY <2>8, <2>9, <2>10
  <2>17. TokenDone(D, s, i, t)
    BY <2>14, <2>15, <2>16 DEF TokenDone
  <2> QED BY <2>1, <2>17
<1> QED BY <1>5, <1>6

\* Every token.
LEMMA ReadToken ==
  ASSUME NEW D, NEW s, NEW i, Begins(D, s, i)
  PROVE  TokenDone(D, s, i, TokenAt(s, i))
<1>1. i = Len(s) \/ i < Len(s)
  BY BeginsFacts
<1>2. i < Len(s) => s[i + 1] \in Byte
  BY BeginsFacts
<1>3. s[i] # IAC \/ i = Len(s)
      \/ (i < Len(s) /\ (s[i + 1] = IAC \/ s[i + 1] \in Verbs \/ s[i + 1] = SB \/ s[i + 1] \in Other))
  BY <1>1, <1>2 DEF Other
<1>4. CASE s[i] # IAC
  BY <1>4, ReadPlain
<1>5. CASE s[i] = IAC /\ i = Len(s)
  BY <1>5, ReadCut
<1>6. CASE s[i] = IAC /\ i < Len(s) /\ s[i + 1] = IAC
  BY <1>6, ReadEscaped
<1>7. CASE s[i] = IAC /\ i < Len(s) /\ s[i + 1] \in Verbs
  BY <1>7, ReadVerb
<1>8. CASE s[i] = IAC /\ i < Len(s) /\ s[i + 1] = SB
  BY <1>8, ReadSubneg
<1>9. CASE s[i] = IAC /\ i < Len(s) /\ s[i + 1] \in Other
  BY <1>9, ReadOther
<1> QED BY <1>3, <1>4, <1>5, <1>6, <1>7, <1>8, <1>9

-----------------------------------------------------------------------------
(* Induction over sequences                                                *)

\* A set that has the empty sequence, and each sequence with every one that is one
\* longer, has them all.
LEMMA Longer ==
  ASSUME NEW W, NEW T, << >> \in T, \A x \in Seq(W) : \A w \in W : x \in T => Append(x, w) \in T
  PROVE  \A x \in Seq(W) : x \in T
<1> SUFFICES ASSUME NEW x \in Seq(W)
             PROVE  x \in T
  OBVIOUS
<1> DEFINE n == Len(x)
           U == {k \in 0 .. n : SubSeq(x, 1, k) \in T}
<1>1. n \in Nat
  OBVIOUS
<1>2. 0 \in U
  <2> DEFINE e == SubSeq(x, 1, 0)
  <2>1. e \in Seq(W) /\ Len(e) = 0
    OBVIOUS
  <2> HIDE DEF e
  <2>2. e = << >> /\ 0 \in 0 .. n
    BY <1>1, <2>1
  <2> QED BY <2>2 DEF e
<1>3. ASSUME NEW k \in 0 .. n, k < n, k \in U
      PROVE  k + 1 \in U
  <2> DEFINE y == SubSeq(x, 1, k)
             z == SubSeq(x, 1, k + 1)
             w == x[k + 1]
  <2>1. y \in Seq(W) /\ Len(y) = k /\ w \in W /\ \A i \in 1 .. k : y[i] = x[i]
    BY <1>3
  <2>2. z \in Seq(W) /\ Len(z) = k + 1 /\ z[k + 1] = w /\ \A i \in 1 .. k : z[i] = x[i]
    BY <1>3
  <2> HIDE DEF y, z, w
  <2>3. z = Append(y, w)
    BY <2>1, <2>2, ListedNext
  <2>4. z \in T
    BY <1>3, <2>1, <2>3 DEF y
  <2>5. k + 1 \in 0 .. n
    BY <1>3
  <2> QED BY <2>4, <2>5 DEF z
<1> HIDE DEF U, n
<1>4. n \in U
  <2>1. \A k \in 0 .. n : k \in U
    BY <1>1, <1>2, <1>3, UpFrom
  <2> QED BY <1>1, <2>1
<1>5. SubSeq(x, 1, n) = x
  BY DEF n
<1> QED BY <1>4, <1>5 DEF U

\* Appending to the right part is appending to the whole.
LEMMA ConcatAppend ==
  ASSUME NEW V, NEW a \in Seq(V), NEW x \in Seq(V), NEW w \in V
  PROVE  a \o Append(x, w) = Append(a \o x, w) /\ a \o x \in Seq(V) /\ Append(x, w) \in Seq(V)
  OBVIOUS

\* Concatenation is associative, and the empty sequence is neutral.
LEMMA Concat ==
  ASSUME NEW V, NEW x \in Seq(V), NEW y \in Seq(V), NEW z \in Seq(V)
  PROVE  x \o y \in Seq(V) /\ (x \o y) \o z = x \o (y \o z) /\ x \o << >> = x /\ << >> \o x = x
  OBVIOUS

\* Putting together what is put together.
LEMMA FlattenConcat ==
  ASSUME NEW V, NEW a \in Seq(Seq(V)), NEW b \in Seq(Seq(V))
  PROVE  /\ FlattenSeq(a) \in Seq(V) /\ FlattenSeq(b) \in Seq(V)
         /\ FlattenSeq(a \o b) = FlattenSeq(a) \o FlattenSeq(b)
<1> DEFINE W == Seq(V)
           T == {x \in Seq(W) : FlattenSeq(a \o x) = FlattenSeq(a) \o FlattenSeq(x)}
<1>1. \A x \in Seq(W) : FlattenSeq(x) \in W
  <2> SUFFICES ASSUME NEW x \in Seq(W)
               PROVE  FlattenSeq(x) \in W
    OBVIOUS
  <2>1. << >> \in W
    BY Empty
  <2> QED BY <2>1, FlattenAppend
<1>2. << >> \in T
  <2>1. << >> \in Seq(W) /\ a \o << >> = a
    <3> HIDE DEF W
    <3> QED BY Empty DEF W
  <2>2. FlattenSeq(a) \o << >> = FlattenSeq(a)
    BY <1>1
  <2> QED BY <2>1, <2>2, FlattenNone
<1>3. ASSUME NEW x \in Seq(W), NEW w \in W, x \in T
      PROVE  Append(x, w) \in T
  <2>1. a \o Append(x, w) = Append(a \o x, w) /\ a \o x \in Seq(W) /\ Append(x, w) \in Seq(W)
    <3> HIDE DEF W
    <3>1. a \in Seq(W)
      BY DEF W
    <3> QED BY <3>1, ConcatAppend
  <2>2. FlattenSeq(Append(a \o x, w)) = FlattenSeq(a \o x) \o w
    BY <2>1, FlattenAppend
  <2>3. FlattenSeq(Append(x, w)) = FlattenSeq(x) \o w
    BY FlattenAppend
  <2>4. FlattenSeq(a \o x) = FlattenSeq(a) \o FlattenSeq(x)
    BY <1>3
  <2> DEFINE p == FlattenSeq(a)
             q == FlattenSeq(x)
  <2>5. p \in W /\ q \in W
    BY <1>1
  <2>6. (p \o q) \o w = p \o (q \o w)
    <3> HIDE DEF p, q
    <3> QED BY <2>5
  <2>7. FlattenSeq(a \o Append(x, w)) = p \o FlattenSeq(Append(x, w))
    BY <2>1, <2>2, <2>3, <2>4, <2>6
  <2> QED BY <2>1, <2>7
<1> HIDE DEF T
<1>4. \A x \in Seq(W) : x \in T
  BY <1>2, <1>3, Longer
<1>5. b \in T
  BY <1>4
<1> QED BY <1>1, <1>5 DEF T

-----------------------------------------------------------------------------
(* The tokens of a stream                                                  *)

\* Wherever it starts, a token has a length that keeps within twice the stream.
LEMMA TokenLength ==
  ASSUME NEW s \in Seq(Byte), NEW i \in 1 .. Len(s)
  PROVE  TokenAt(s, i).length \in 1 .. Len(s)
<1> DEFINE n == Len(s)
           over == Closings(s, i + 2)
<1>1. n \in Nat /\ i \in Nat /\ i >= 1 /\ i <= n
  OBVIOUS
<1>2. CASE s[i] # IAC \/ i = n
  <2>1. TokenAt(s, i).length = 1
    <3>1. CASE s[i] # IAC
      BY <3>1 DEF TokenAt
    <3>2. CASE s[i] = IAC /\ i = n
      <4>1. ~(i + 1 <= Len(s))
        BY <1>1, <3>2
      <4> QED BY <3>2, <4>1 DEF TokenAt, NoToken
    <3> QED BY <1>2, <3>1, <3>2
  <2> QED BY <1>1, <2>1
<1>3. CASE s[i] = IAC /\ i < n
  <2>1. i + 1 <= n /\ i + 1 <= Len(s) /\ n >= 2
    BY <1>1, <1>3
  <2>2. CASE s[i + 1] = SB
    <3>1. TokenAt(s, i) = SubnegAt(s, i)
      <4>1. s[i + 1] # IAC /\ s[i + 1] \notin Verbs
        BY <2>2, Codes
      <4> QED BY <1>3, <2>1, <2>2, <4>1 DEF TokenAt
    <3>2. CASE over = {}
      <4>1. SubnegAt(s, i).length = n
        BY <3>2 DEF SubnegAt, NoToken
      <4> QED BY <1>1, <3>1, <4>1
    <3>3. CASE over # {}
      <4> DEFINE last == Min(over)
      <4>1. SubnegAt(s, i) = [kind   |-> IF s[last + 1] = SE THEN "frame" ELSE "none",
                              body   |-> Unescaped(s, i + 2, last - 1),
                              length |-> last + 2 - i]
        BY <3>3, ZenonT(30) DEF SubnegAt
      <4>2. over \in SUBSET Nat /\ \A k \in over : k \in (i + 2) .. (n - 1)
        BY <1>1 DEF Closings
      <4> HIDE DEF over, n
      <4>3. \E k \in over : \A other \in over : k <= other
        BY <3>3, <4>2, Least
      <4>4. last \in over
        BY <4>3 DEF Min
      <4> HIDE DEF last
      <4>5. last \in (i + 2) .. (n - 1)
        BY <4>2, <4>4
      <4>6. TokenAt(s, i).length = last + 2 - i
        BY <3>1, <4>1
      <4>7. last + 2 - i \in 1 .. n
        BY <1>1, <4>5
      <4> QED BY <4>6, <4>7 DEF n
    <3> QED BY <3>2, <3>3
  <2>3. CASE s[i + 1] # SB
    <3>1. CASE s[i + 1] \in Verbs /\ i + 2 <= Len(s)
      <4>1. s[i + 1] # IAC
        BY <3>1, Codes
      <4>2. TokenAt(s, i).length = 3
        BY <1>3, <2>1, <2>3, <3>1, <4>1 DEF TokenAt
      <4> QED BY <1>1, <3>1, <4>2
    <3>2. CASE s[i + 1] \in Verbs /\ ~(i + 2 <= Len(s))
      <4>1. s[i + 1] # IAC
        BY <3>2, Codes
      <4>2. TokenAt(s, i).length = 2
        BY <1>3, <2>1, <2>3, <3>2, <4>1 DEF TokenAt, NoToken
      <4> QED BY <2>1, <4>2
    <3>3. CASE s[i + 1] = IAC
      <4>1. TokenAt(s, i).length = 2
        BY <1>3, <2>1, <2>3, <3>3, Codes DEF TokenAt
      <4> QED BY <2>1, <4>1
    <3>4. CASE s[i + 1] \notin Verbs \cup {IAC, SB}
      <4>1. TokenAt(s, i).length = 2
        BY <1>3, <2>1, <3>4 DEF TokenAt, NoToken
      <4> QED BY <2>1, <4>1
    <3> QED BY <2>3, <3>1, <3>2, <3>3, <3>4
  <2> QED BY <2>2, <2>3
<1> QED BY <1>1, <1>2, <1>3

\* Bodies, as the function whose first value it is.
Body(s, kind, i) == IF TokenAt(s, i).kind = kind THEN <<TokenAt(s, i).body>> ELSE << >>

Gathers(f, s, kind, first) ==
  f = [i \in first .. (2 * Len(s) + 3) |->
         IF i > Len(s) THEN << >> ELSE Body(s, kind, i) \o f[i + TokenAt(s, i).length]]
Gathered(s, kind) == CHOOSE f : Gathers(f, s, kind, 1)

\* Bodies is what is gathered from the first position on.
LEMMA BodiesGathered ==
  ASSUME NEW s, NEW kind
  PROVE  Bodies(s, kind) = Gathered(s, kind)[1]
  BY ZenonT(30) DEF Bodies, Gathered, Gathers, Body

\* The gathering that Bodies defines exists, for any stream.
LEMMA CanBeGathered ==
  ASSUME NEW s \in Seq(Byte), NEW kind
  PROVE  \E f : Gathers(f, s, kind, 1)
<1> DEFINE N == 2 * Len(s) + 3
           n == Len(s)
           M == N - 1
           T == {k \in 0 .. M : \E f : Gathers(f, s, kind, N - k)}
<1>1. n \in Nat /\ N \in Nat /\ M \in Nat /\ N = 2 * n + 3 /\ N > n
  OBVIOUS
<1>2. 0 \in T
  <2> DEFINE f == [i \in (N - 0) .. N |-> << >>]
  <2>1. \A i \in (N - 0) .. N : i > Len(s)
    BY <1>1
  <2>2. f = [i \in (N - 0) .. N |->
               IF i > Len(s) THEN << >> ELSE Body(s, kind, i) \o f[i + TokenAt(s, i).length]]
    BY <2>1
  <2> HIDE DEF f
  <2>3. Gathers(f, s, kind, N - 0)
    BY <2>2 DEF Gathers
  <2> HIDE DEF N, M
  <2> QED BY <1>1, <2>3
<1>3. ASSUME NEW k \in 0 .. M, k < M, k \in T
      PROVE  k + 1 \in T
  <2> DEFINE p == N - k
             q == N - (k + 1)
  <2>1. PICK f : Gathers(f, s, kind, p)
    BY <1>3
  <2>2. q \in Nat /\ p \in Nat /\ q >= 1 /\ p = q + 1 /\ k + 1 \in 0 .. M /\ q <= N
    BY <1>1, <1>3
  <2> HIDE DEF T, M, p, q, N
  <2> DEFINE val(g, i) == IF i > n THEN << >> ELSE Body(s, kind, i) \o g[i + TokenAt(s, i).length]
  <2>3. \A i \in p .. N : f[i] = val(f, i)
    BY <2>1 DEF Gathers, N
  <2> DEFINE own == val(f, q)
             g == [i \in q .. N |-> IF i = q THEN own ELSE f[i]]
  <2>4. DOMAIN g = q .. N /\ g[q] = own /\ (\A i \in p .. N : g[i] = f[i]) /\ g = [i \in q .. N |-> g[i]]
    <3>1. q \in q .. N /\ \A i \in p .. N : i \in q .. N /\ i # q
      BY <1>1, <2>2
    <3> HIDE DEF own
    <3> QED BY <3>1
  <2>5. \A i \in q .. N : i <= n => i + TokenAt(s, i).length \in p .. N
    <3> SUFFICES ASSUME NEW i \in q .. N, i <= n
                 PROVE  i + TokenAt(s, i).length \in p .. N
      OBVIOUS
    <3> DEFINE l == TokenAt(s, i).length
    <3>1. i \in 1 .. n
      BY <1>1, <2>2
    <3>2. l \in 1 .. n
      BY <3>1, TokenLength
    <3> HIDE DEF l, n
    <3>3. i + l \in p .. N
      BY <1>1, <2>2, <3>1, <3>2
    <3> QED BY <3>3 DEF l
  <2> HIDE DEF own
  <2>6. \A i \in q .. N : g[i] = val(g, i)
    <3> SUFFICES ASSUME NEW i \in q .. N
                 PROVE  g[i] = val(g, i)
      OBVIOUS
    <3>0. i = q \/ i \in p .. N
      BY <2>2
    <3>1. g[i] = val(f, i)
      BY <2>3, <2>4, <3>0 DEF own
    <3> HIDE DEF g
    <3>2. val(f, i) = val(g, i)
      <4>1. CASE i > n
        BY <4>1
      <4>2. CASE ~(i > n)
        <5>1. i <= n
          BY <1>1, <2>2, <4>2
        <5>2. g[i + TokenAt(s, i).length] = f[i + TokenAt(s, i).length]
          BY <2>4, <2>5, <5>1
        <5> QED BY <5>2
      <4> QED BY <4>1, <4>2
    <3> QED BY <3>1, <3>2
  <2> HIDE DEF g
  <2>7. g = [i \in q .. N |-> val(g, i)]
    BY <2>4, <2>6
  <2>8. Gathers(g, s, kind, q)
    BY <2>7 DEF Gathers, N
  <2> QED BY <2>2, <2>8 DEF T, q
<1> HIDE DEF T
<1>4. \A k \in 0 .. M : k \in T
  <2> HIDE DEF M
  <2> QED BY <1>1, <1>2, <1>3, UpFrom
<1>5. M \in 0 .. M /\ N - M = 1
  BY <1>1
<1>6. \E f : Gathers(f, s, kind, N - M)
  BY <1>4, <1>5 DEF T
<1> QED BY <1>5, <1>6

\* What is gathered from one place on.
LEMMA GatheredAt ==
  ASSUME NEW s \in Seq(Byte), NEW kind, NEW i \in Nat, i >= 1, i <= 2 * Len(s) + 3
  PROVE  /\ i > Len(s) => Gathered(s, kind)[i] = << >>
         /\ i <= Len(s) => Gathered(s, kind)[i] = Body(s, kind, i) \o Gathered(s, kind)[i + TokenAt(s, i).length]
<1> DEFINE f == Gathered(s, kind)
<1>1. Gathers(f, s, kind, 1)
  BY CanBeGathered DEF Gathered
<1> HIDE DEF f
<1>2. i \in 1 .. (2 * Len(s) + 3)
  OBVIOUS
<1>3. f[i] = IF i > Len(s) THEN << >> ELSE Body(s, kind, i) \o f[i + TokenAt(s, i).length]
  BY <1>1, <1>2 DEF Gathers
<1>4. i <= Len(s) => ~(i > Len(s))
  OBVIOUS
<1> QED BY <1>3, <1>4 DEF f

\* What is left to read from one token on.
Rest(D, s, i) ==
  /\ Gathered(s, "data")[i] \in Seq(Seq(Byte))
  /\ Adds(D, s, i - 1, Len(s), FlattenSeq(Gathered(s, "data")[i]), Gathered(s, "frame")[i], Gathered(s, "verb")[i])

\* What a position contributes is the token's part.
LEMMA BodyIsPart ==
  ASSUME NEW s, NEW kind, NEW i
  PROVE  Body(s, kind, i) = Part(TokenAt(s, i), kind)
  BY DEF Body, Part

\* A token's part is a sequence of bodies, and a data token's is its bytes.
LEMMA PartTyped ==
  ASSUME NEW t, t.body \in Seq(Byte)
  PROVE  /\ \A kind : Part(t, kind) \in Seq(Seq(Byte))
         /\ Plain(t) \in Seq(Byte)
         /\ FlattenSeq(Part(t, "data")) = Plain(t)
<1> DEFINE W == Seq(Byte)
           b == t.body
<1>1. b \in W
  OBVIOUS
<1>2. <<b>> \in Seq(W) /\ << >> \in Seq(W) /\ << >> \in W
  BY <1>1, Singles, Empty DEF W
<1>3. FlattenSeq(<<b>>) = b
  <2>1. << >> \in Seq(W) /\ FlattenSeq(Append(<< >>, b)) = FlattenSeq(<< >>) \o b
    BY <1>1, <1>2, FlattenAppend
  <2> HIDE DEF b, W
  <2>2. Append(<< >>, b) = <<b>>
    OBVIOUS
  <2>3. << >> \o b = b
    BY <1>1 DEF W
  <2> QED BY <2>1, <2>2, <2>3, FlattenNone
<1> HIDE DEF W
<1>4. \A kind : Part(t, kind) \in Seq(W)
  BY <1>2 DEF Part
<1>5. Plain(t) \in W
  BY <1>1, <1>2 DEF Plain
<1>6. FlattenSeq(Part(t, "data")) = Plain(t)
  <2>1. CASE t.kind = "data"
    BY <1>3, <2>1 DEF Part, Plain
  <2>2. CASE t.kind # "data"
    BY <2>2, FlattenNone DEF Part, Plain
  <2> QED BY <2>1, <2>2
<1> QED BY <1>4, <1>5, <1>6 DEF W

\* If the tokens after this one agree with the decoder, so do this one and those after it.
LEMMA RestFrom ==
  ASSUME NEW D, NEW s, NEW i, Begins(D, s, i),
         \A j \in (i + 1) .. Len(s) : Begins(D, s, j) => Rest(D, s, j)
  PROVE  Rest(D, s, i)
<1> DEFINE W == Seq(Byte)
           t == TokenAt(s, i)
           n == Len(s)
           next == i + t.length
           G(kind) == Gathered(s, kind)
<1>1. TokenDone(D, s, i, t) /\ Reading(D, s) /\ s \in Seq(Byte)
  BY ReadToken, BeginsFacts DEF Reading
<1>2. n \in Nat /\ i \in Nat /\ i >= 1 /\ i <= n /\ i - 1 \in 0 .. n
  BY BeginsFacts
<1>3. t.length \in 1 .. n /\ t.body \in Seq(Byte)
  BY <1>1 DEF TokenDone
<1>4. next \in Nat /\ next >= 1 /\ next <= 2 * n + 3 /\ next \in (i + 1) .. (2 * n + 3) /\ i <= 2 * n + 3
  <2> DEFINE l == t.length
  <2>1. l \in 1 .. n
    BY <1>3
  <2> HIDE DEF l, n
  <2>2. i + l \in Nat /\ i + l >= 1 /\ i + l <= 2 * n + 3 /\ i + l \in (i + 1) .. (2 * n + 3) /\ i <= 2 * n + 3
    BY <1>2, <2>1
  <2> QED BY <2>2 DEF l
<1>5. \A kind : G(kind)[i] = Part(t, kind) \o G(kind)[next]
  <2> SUFFICES ASSUME NEW kind
               PROVE  G(kind)[i] = Part(t, kind) \o G(kind)[next]
    OBVIOUS
  <2>1. G(kind)[i] = Body(s, kind, i) \o G(kind)[next]
    BY <1>1, <1>2, <1>4, GatheredAt
  <2> QED BY <2>1, BodyIsPart
<1>6. /\ \A kind : Part(t, kind) \in Seq(W)
      /\ Plain(t) \in W /\ FlattenSeq(Part(t, "data")) = Plain(t)
  BY <1>3, PartTyped
<1>7. PICK e \in i .. n :
        /\ next <= n => e = next - 1 /\ D[e].decoder.at = "data"
        /\ next > n => e = n
        /\ Adds(D, s, i - 1, e, Plain(t), Part(t, "frame"), Part(t, "verb"))
  BY <1>1 DEF TokenDone
<1>8. CASE next > n
  <2>1. \A kind : G(kind)[next] = << >>
    BY <1>1, <1>4, <1>8, GatheredAt
  <2> HIDE DEF G, W, t, n, next
  <2>2. \A kind : G(kind)[i] = Part(t, kind)
    <3> SUFFICES ASSUME NEW kind
                 PROVE  G(kind)[i] = Part(t, kind)
      OBVIOUS
    <3>1. G(kind)[i] = Part(t, kind) \o << >> /\ Part(t, kind) \in Seq(W)
      BY <1>5, <1>6, <2>1
    <3>2. Part(t, kind) \o << >> = Part(t, kind)
      BY <3>1
    <3> QED BY <3>1, <3>2
  <2>3. e = n
    BY <1>7, <1>8
  <2>4. Adds(D, s, i - 1, n, FlattenSeq(G("data")[i]), G("frame")[i], G("verb")[i])
    BY <1>6, <1>7, <2>2, <2>3
  <2>5. G("data")[i] \in Seq(W)
    BY <1>6, <2>2
  <2> QED BY <2>4, <2>5 DEF Rest, G, W, n
<1>9. CASE ~(next > n)
  <2>1. next <= n /\ next \in (i + 1) .. n /\ next \in 1 .. n
    <3> HIDE DEF next, n
    <3> QED BY <1>2, <1>4, <1>9
  <2>2. e = next - 1 /\ D[next - 1].decoder.at = "data"
    BY <1>7, <2>1
  <2>3. Begins(D, s, next)
    BY <1>1, <2>1, <2>2 DEF Begins
  <2>4. Rest(D, s, next)
    BY <2>1, <2>3
  <2> DEFINE a == G("data")[next]
  <2>5. a \in Seq(W) /\ Adds(D, s, e, n, FlattenSeq(a), G("frame")[next], G("verb")[next])
    BY <2>2, <2>4 DEF Rest
  <2> HIDE DEF G, W, t, next, a
  <2>6. Adds(D, s, i - 1, n, Plain(t) \o FlattenSeq(a), Part(t, "frame") \o G("frame")[next], Part(t, "verb") \o G("verb")[next])
    BY <1>1, <1>2, <1>7, <2>5, AddsMore
  <2>7. G("data")[i] = Part(t, "data") \o a /\ Part(t, "data") \in Seq(W)
    BY <1>5, <1>6 DEF a
  <2>8. FlattenSeq(G("data")[i]) = Plain(t) \o FlattenSeq(a)
    BY <1>6, <2>5, <2>7, FlattenConcat DEF W
  <2>9. G("data")[i] \in Seq(W)
    <3> DEFINE p == Part(t, "data")
    <3>1. p \in Seq(W) /\ G("data")[i] = p \o a
      BY <2>7
    <3> HIDE DEF p
    <3> QED BY <2>5, <3>1, Concat
  <2>10. Adds(D, s, i - 1, n, FlattenSeq(G("data")[i]), G("frame")[i], G("verb")[i])
    BY <1>5, <2>6, <2>8
  <2> QED BY <2>9, <2>10 DEF Rest, G, W
<1> QED BY <1>8, <1>9

\* The decoder, byte by byte, finds what the reference finds in the whole stream.
LEMMA Decodes ==
  ASSUME NEW D, NEW s, Reading(D, s)
  PROVE  /\ D[Len(s)].yield.payload = Data(s) /\ Data(s) \in Seq(Byte)
         /\ D[Len(s)].yield.frames = Bodies(s, "frame") /\ Bodies(s, "frame") \in Seq(Seq(Byte))
         /\ Spoken(D, s, Len(s)) = Said(s) /\ Said(s) \in Seq(Seq(Byte))
<1> DEFINE n == Len(s)
           T == {i \in 1 .. n : Begins(D, s, i) => Rest(D, s, i)}
<1>1. s \in Seq(Byte) /\ n \in Nat /\ D[0] = Fresh /\ Fresh.decoder = TelnetDecoder /\ Fresh.yield = Nothing
  BY FreshTyped, FromTyped DEF Reading, Runs, Fresh
<1>2. ASSUME NEW i \in 1 .. n, \A j \in (i + 1) .. n : j \in T
      PROVE  i \in T
  BY <1>2, RestFrom
<1> HIDE DEF T
<1>3. \A i \in 1 .. n : i \in T
  BY <1>1, <1>2, DownFrom
<1>4. /\ Data(s) = FlattenSeq(Gathered(s, "data")[1]) /\ Bodies(s, "frame") = Gathered(s, "frame")[1]
      /\ Said(s) = Gathered(s, "verb")[1]
  BY BodiesGathered DEF Data, Said
<1>5. Adds(D, s, 0, n, Data(s), Bodies(s, "frame"), Said(s))
  <2>1. CASE n = 0
    <3>0. 1 \in Nat /\ 1 >= 1 /\ 1 <= 2 * Len(s) + 3 /\ 1 > Len(s)
      BY <1>1, <2>1
    <3>1. \A kind : Gathered(s, kind)[1] = << >>
      <4> SUFFICES ASSUME NEW kind
                   PROVE  Gathered(s, kind)[1] = << >>
        OBVIOUS
      <4> QED BY <1>1, <3>0, GatheredAt
    <3>2. Adds(D, s, 0, 0, << >>, << >>, << >>)
      BY <1>1, AddsNone
    <3> QED BY <1>4, <2>1, <3>1, <3>2, FlattenNone
  <2>2. CASE n # 0
    <3>1. 1 \in 1 .. n /\ 1 - 1 = 0
      BY <1>1, <2>2
    <3>2. D[0].decoder.at = "data"
      BY <1>1 DEF TelnetDecoder
    <3>3. Begins(D, s, 1)
      BY <3>1, <3>2 DEF Begins
    <3>4. Rest(D, s, 1)
      BY <1>3, <3>1, <3>3 DEF T
    <3> QED BY <1>4, <3>1, <3>4 DEF Rest
  <2> QED BY <2>1, <2>2
<1>6. D[0].yield.payload = << >> /\ D[0].yield.frames = << >> /\ Spoken(D, s, 0) = << >>
  BY <1>1, SpokenNone DEF Nothing
<1> DEFINE W == Seq(Byte)
           p == Data(s)
           f == Bodies(s, "frame")
           v == Said(s)
<1>7. /\ p \in W /\ f \in Seq(W) /\ v \in Seq(W)
      /\ D[n].yield.payload = << >> \o p /\ D[n].yield.frames = << >> \o f /\ Spoken(D, s, n) = << >> \o v
  BY <1>5, <1>6 DEF Adds, Added
<1> HIDE DEF p, f, v
<1>8. << >> \o p = p
  BY <1>7
<1> HIDE DEF W
<1>9. << >> \o f = f /\ << >> \o v = v
  BY <1>7
<1> QED BY <1>7, <1>8, <1>9 DEF p, f, v, W

-----------------------------------------------------------------------------
(* A decoder after a stream, and what more bytes add                       *)

\* A verb and an option.
Words == Verbs \X Byte

\* d is what a new decoder becomes along s.
After(s, d) ==
  /\ s \in Seq(Byte) /\ d \in Decoders /\ d = FeedAll(Fresh, s).decoder
  /\ Data(s) \in Seq(Byte) /\ Said(s) \in Seq(Words) /\ Bodies(s, "frame") \in Seq(Seq(Byte))

\* The stream t says what s says, and then payload, words and frames.
Adding(s, t, payload, words, frms) ==
  /\ payload \in Seq(Byte) /\ words \in Seq(Words) /\ frms \in Seq(Seq(Byte))
  /\ Added(Data(t), Data(s), payload)
  /\ Added(Said(t), Said(s), words)
  /\ Added(Bodies(t, "frame"), Bodies(s, "frame"), frms)

\* Before the first byte there is nothing.
LEMMA AfterNone ==
  After(<< >>, TelnetDecoder) /\ Data(<< >>) = << >> /\ Said(<< >>) = << >> /\ Bodies(<< >>, "frame") = << >>
<1> DEFINE s == << >>
           D == Run(Fresh, s)
<1>1. s \in Seq(Byte) /\ Len(s) = 0
  BY Empty
<1>2. Runs(D, Fresh, s) /\ FeedAll(Fresh, s) = D[Len(s)]
  BY <1>1, FreshTyped, RunRuns
<1>3. Reading(D, s)
  BY <1>1, <1>2 DEF Reading
<1>4. D[0] = Fresh
  BY <1>2 DEF Runs
<1> HIDE DEF D
<1>5. /\ D[Len(s)].yield.payload = Data(s) /\ D[Len(s)].yield.frames = Bodies(s, "frame")
      /\ Spoken(D, s, Len(s)) = Said(s)
  BY <1>3, Decodes
<1>6. Fresh.yield.payload = << >> /\ Fresh.yield.frames = << >> /\ Fresh.decoder = TelnetDecoder
  BY DEF Fresh, From, Nothing
<1>7. Data(s) = << >> /\ Said(s) = << >> /\ Bodies(s, "frame") = << >>
  BY <1>1, <1>4, <1>5, <1>6, SpokenNone
<1> HIDE DEF s
<1>8. << >> \in Seq(Byte) /\ << >> \in Seq(Words) /\ << >> \in Seq(Seq(Byte))
  BY Empty
<1>9. After(s, TelnetDecoder)
  BY <1>1, <1>2, <1>4, <1>6, <1>7, <1>8, FreshTyped DEF After
<1> QED BY <1>7, <1>9 DEF s

\* x is a step of m that leads to d and yields the rest.
IsStep(x, m, d, p, r, fs) ==
  /\ p \in Seq(Byte) /\ r \in Seq(Byte) /\ fs \in Seq(Seq(Byte))
  /\ x = Steps(m, d, p, r, fs)

\* What a step yields can be read off it.
LEMMA SameSteps ==
  ASSUME NEW m, m.yield = Nothing, NEW x, NEW d, NEW p, NEW r, NEW fs, NEW e, NEW q, NEW t, NEW gs,
         IsStep(x, m, d, p, r, fs), IsStep(x, m, e, q, t, gs)
  PROVE  d = e /\ p = q /\ r = t /\ fs = gs
<1> DEFINE W == Seq(Byte)
<1>0. p \in W /\ q \in W /\ r \in W /\ t \in W /\ fs \in Seq(W) /\ gs \in Seq(W)
  BY DEF IsStep
<1>1. << >> \o p = p /\ << >> \o q = q /\ << >> \o r = r /\ << >> \o t = t
  BY <1>0
<1> HIDE DEF W
<1>3. << >> \o fs = fs /\ << >> \o gs = gs
  BY <1>0
<1>4. x.decoder = d /\ x.yield.payload = p /\ x.yield.replies = r /\ x.yield.frames = fs
  BY <1>1, <1>3 DEF IsStep, Steps, Nothing
<1>5. x.decoder = e /\ x.yield.payload = q /\ x.yield.replies = t /\ x.yield.frames = gs
  BY <1>1, <1>3 DEF IsStep, Steps, Nothing
<1> QED BY <1>4, <1>5

\* The verb and option that a byte completes.
Word(d, b) == IF d.at = "negotiation" THEN <<<<d.verb, b>>>> ELSE << >>

\* What a byte says is words.
LEMMA WordTyped ==
  ASSUME NEW d \in Decoders, NEW b \in Byte
  PROVE  Word(d, b) \in Seq(Words)
<1>1. d.at = "negotiation" => d.verb \in Verbs
  BY DEF Decoders
<1>2. d.at = "negotiation" => <<d.verb, b>> \in Words
  BY <1>1 DEF Words
<1> HIDE DEF Words
<1> QED BY <1>2, Singles, Empty DEF Word

\* One byte more.
LEMMA AfterByte ==
  ASSUME NEW s, NEW d, After(s, d), NEW b \in Byte, NEW e \in Decoders, NEW p \in Seq(Byte), NEW r \in Seq(Byte),
         NEW fs \in Seq(Seq(Byte)), FeedByte(From(d), b) = Steps(From(d), e, p, r, fs)
  PROVE  After(Append(s, b), e) /\ Adding(s, Append(s, b), p, Word(d, b), fs)
<1> DEFINE n == Len(s)
           t == Append(s, b)
           D == Run(Fresh, s)
           E == Run(Fresh, t)
<1>1. s \in Seq(Byte) /\ d \in Decoders /\ d = FeedAll(Fresh, s).decoder /\ Fresh \in Machines
  BY FreshTyped DEF After
<1>2. n \in Nat /\ t \in Seq(Byte) /\ Len(t) = n + 1 /\ (\A i \in 1 .. n : s[i] = t[i]) /\ t[n + 1] = b
  BY <1>1, AppendProperties
<1> HIDE DEF t
<1>3. Runs(D, Fresh, s) /\ FeedAll(Fresh, s) = D[n] /\ Runs(E, Fresh, t) /\ FeedAll(Fresh, t) = E[n + 1]
  BY <1>1, <1>2, RunRuns
<1> HIDE DEF D, E
<1>4. n <= n + 1 /\ n < n + 1 /\ n \in 0 .. n /\ 1 .. n \subseteq 1 .. (n + 1) /\ 0 .. n \subseteq 0 .. (n + 1)
  BY <1>2
<1>5. D[n] = E[n]
  BY <1>1, <1>2, <1>3, <1>4, RunsAlike
<1>6. Reading(E, t)
  BY <1>2, <1>3 DEF Reading
<1>7. Reading(E, s)
  <2>1. \A i \in 1 .. n : E[i] = FeedByte(E[i - 1], s[i])
    BY <1>2, <1>3, <1>4 DEF Runs
  <2>2. (\A i \in 0 .. n : E[i] \in Machines) /\ E[0] = Fresh
    BY <1>2, <1>3, <1>4 DEF Runs
  <2> QED BY <1>1, <2>1, <2>2 DEF Reading, Runs
<1>8. /\ E[n].yield.payload = Data(s) /\ E[n].yield.frames = Bodies(s, "frame") /\ Spoken(E, s, n) = Said(s)
      /\ Data(t) \in Seq(Byte) /\ Bodies(t, "frame") \in Seq(Seq(Byte))
      /\ E[n + 1].yield.payload = Data(t) /\ E[n + 1].yield.frames = Bodies(t, "frame") /\ Spoken(E, t, n + 1) = Said(t)
  BY <1>2, <1>6, <1>7, Decodes
<1>9. Spoken(E, s, n) = Spoken(E, t, n)
  <2>1. \A k \in 1 .. n : Spoke(E, s, k) = Spoke(E, t, k)
    BY <1>2 DEF Spoke
  <2> QED BY <2>1 DEF Spoken
<1>10. Spoken(E, t, n + 1) = Spoken(E, t, n) \o Spoke(E, t, n + 1)
  BY <1>2, <1>4, <1>6, SpokenNext
<1>11. E[n].decoder = d /\ E[n] \in Machines /\ E[n + 1] = FeedByte(E[n], b)
  BY <1>1, <1>2, <1>3, <1>4, <1>5, <1>6, ReadingStep
<1>12. Spoke(E, t, n + 1) = Word(d, b)
  <2>1. (n + 1) - 1 = n
    BY <1>2
  <2> QED BY <1>2, <1>11, <2>1 DEF Spoke, Word
<1>13. PICK e2 \in Decoders, q \in Seq(Byte), u \in Seq(Byte), gs \in Seq(Seq(Byte)) :
         /\ FeedByte(E[n], b) = Steps(E[n], e2, q, u, gs)
         /\ FeedByte(From(d), b) = Steps(From(d), e2, q, u, gs)
  BY <1>11, ByteAdds
<1>14. e2 = e /\ q = p /\ gs = fs
  <2>1. From(d).yield = Nothing
    BY <1>1, FromTyped
  <2> DEFINE m == From(d)
             x == FeedByte(m, b)
  <2>2. m.yield = Nothing /\ IsStep(x, m, e, p, r, fs) /\ IsStep(x, m, e2, q, u, gs)
    BY <1>13, <2>1 DEF IsStep
  <2> HIDE DEF m, x
  <2> QED BY <2>2, SameSteps
<1>15. /\ E[n + 1].decoder = e
       /\ Added(E[n + 1].yield.payload, E[n].yield.payload, p)
       /\ Added(E[n + 1].yield.frames, E[n].yield.frames, fs)
  BY <1>11, <1>13, <1>14, StepsParts
<1>16. Added(Data(t), Data(s), p) /\ Added(Bodies(t, "frame"), Bodies(s, "frame"), fs)
  BY <1>8, <1>15
<1>17. Added(Said(t), Said(s), Word(d, b))
  BY <1>8, <1>9, <1>10, <1>12 DEF Added
<1> HIDE DEF n
<1>18. Word(d, b) \in Seq(Words) /\ Said(s) \in Seq(Words)
  BY <1>1, WordTyped DEF After
<1>19. Said(t) \in Seq(Words)
  BY <1>17, <1>18 DEF Added
<1>20. Adding(s, t, p, Word(d, b), fs)
  BY <1>16, <1>17, <1>18 DEF Adding
<1>21. After(t, e)
  BY <1>2, <1>3, <1>8, <1>15, <1>19 DEF After
<1> QED BY <1>20, <1>21 DEF t

\* What is added piece by piece.
LEMMA AddingMore ==
  ASSUME NEW s, NEW d, After(s, d), NEW t, NEW u, NEW p, NEW v, NEW f, NEW q, NEW w, NEW g,
         Adding(s, t, p, v, f), Adding(t, u, q, w, g)
  PROVE  Adding(s, u, p \o q, v \o w, f \o g)
<1> DEFINE W == Seq(Byte)
<1>1. /\ Data(s) \in Seq(Byte) /\ Said(s) \in Seq(Words) /\ Bodies(s, "frame") \in Seq(W)
      /\ p \in Seq(Byte) /\ v \in Seq(Words) /\ f \in Seq(W) /\ q \in Seq(Byte) /\ w \in Seq(Words) /\ g \in Seq(W)
  BY DEF After, Adding
<1> HIDE DEF W
<1>2. p \o q \in Seq(Byte) /\ Added(Data(u), Data(s), p \o q)
  BY <1>1, AddedMore DEF Adding
<1>3. v \o w \in Seq(Words) /\ Added(Said(u), Said(s), v \o w)
  BY <1>1, AddedMore DEF Adding
<1>4. f \o g \in Seq(W) /\ Added(Bodies(u, "frame"), Bodies(s, "frame"), f \o g)
  BY <1>1, AddedMore DEF Adding
<1> QED BY <1>2, <1>3, <1>4 DEF Adding, W

\* A stream adds nothing to itself.
LEMMA AddingNone ==
  ASSUME NEW s, NEW d, After(s, d)
  PROVE  Adding(s, s, << >>, << >>, << >>)
<1> DEFINE W == Seq(Byte)
<1>1. Data(s) \in Seq(Byte) /\ Said(s) \in Seq(Words) /\ Bodies(s, "frame") \in Seq(W)
  BY DEF After
<1> HIDE DEF W
<1>2. /\ Added(Data(s), Data(s), << >>) /\ Added(Said(s), Said(s), << >>)
      /\ Added(Bodies(s, "frame"), Bodies(s, "frame"), << >>)
  BY <1>1, AddedNone
<1>3. << >> \in Seq(Byte) /\ << >> \in Seq(Words) /\ << >> \in Seq(W)
  BY Empty
<1> QED BY <1>2, <1>3 DEF Adding, W

\* Bytes that add nothing before or after others.
LEMMA AddingOnly ==
  ASSUME NEW s, NEW d, After(s, d), NEW t, NEW u, NEW p, NEW v, NEW f
  PROVE  /\ Adding(s, t, << >>, << >>, << >>) /\ Adding(t, u, p, v, f) => Adding(s, u, p, v, f)
         /\ Adding(s, t, p, v, f) /\ Adding(t, u, << >>, << >>, << >>) => Adding(s, u, p, v, f)
<1> DEFINE W == Seq(Byte)
<1>1. ASSUME p \in Seq(Byte), v \in Seq(Words), f \in Seq(W)
      PROVE  /\ << >> \o p = p /\ << >> \o v = v /\ << >> \o f = f
             /\ p \o << >> = p /\ v \o << >> = v /\ f \o << >> = f
  <2> HIDE DEF W
  <2>1. << >> \o p = p /\ p \o << >> = p
    BY <1>1
  <2>2. << >> \o v = v /\ v \o << >> = v
    BY <1>1
  <2>3. << >> \o f = f /\ f \o << >> = f
    BY <1>1
  <2> QED BY <2>1, <2>2, <2>3
<1>2. ASSUME Adding(s, t, << >>, << >>, << >>), Adding(t, u, p, v, f)
      PROVE  Adding(s, u, p, v, f)
  <2>1. Adding(s, u, << >> \o p, << >> \o v, << >> \o f)
    BY <1>2, AddingMore
  <2> QED BY <1>1, <1>2, <2>1 DEF Adding
<1>3. ASSUME Adding(s, t, p, v, f), Adding(t, u, << >>, << >>, << >>)
      PROVE  Adding(s, u, p, v, f)
  <2>1. Adding(s, u, p \o << >>, v \o << >>, f \o << >>)
    BY <1>3, AddingMore
  <2> QED BY <1>1, <1>3, <2>1 DEF Adding
<1> QED BY <1>2, <1>3

\* From s to t, where the decoder is e.
Leads(s, t, e, p, v, f) == After(t, e) /\ Adding(s, t, p, v, f)

\* Leading on from one stream to the next.
LEMMA LeadsOn ==
  ASSUME NEW s, NEW d, After(s, d), NEW t, NEW u, NEW e, NEW g, NEW p, NEW v, NEW f, NEW q, NEW w, NEW h,
         Leads(s, t, e, p, v, f), Leads(t, u, g, q, w, h)
  PROVE  Leads(s, u, g, p \o q, v \o w, f \o h)
  BY AddingMore DEF Leads

\* A stretch that yields nothing leaves the yields of the other.
LEMMA LeadsOnly ==
  ASSUME NEW s, NEW d, After(s, d), NEW t, NEW u, NEW e, NEW g, NEW p, NEW v, NEW f
  PROVE  /\ Leads(s, t, e, << >>, << >>, << >>) /\ Leads(t, u, g, p, v, f) => Leads(s, u, g, p, v, f)
         /\ Leads(s, t, e, p, v, f) /\ Leads(t, u, g, << >>, << >>, << >>) => Leads(s, u, g, p, v, f)
  BY AddingOnly DEF Leads

\* One byte, by the place it is read at.
LEMMA LeadsByte ==
  ASSUME NEW s, NEW d, After(s, d), NEW b \in Byte, NEW e \in Decoders, NEW p, NEW r,
         NEW fs, IsStep(FeedByte(From(d), b), From(d), e, p, r, fs), NEW v, v = Word(d, b)
  PROVE  Leads(s, Append(s, b), e, p, v, fs)
  BY AfterByte DEF IsStep, Leads

\* What a stream's next byte adds, between tokens.
LEMMA LeadsFromData ==
  ASSUME NEW s, NEW d, After(s, d), d.at = "data", NEW b \in Byte
  PROVE  /\ b = IAC => Leads(s, Append(s, b), Moved(d, "iac"), << >>, << >>, << >>)
         /\ b # IAC => Leads(s, Append(s, b), Moved(d, "data"), <<b>>, << >>, << >>)
<1>1. d \in Decoders /\ From(d) \in Machines /\ From(d).decoder = d
  BY FromTyped DEF After
<1>2. Moved(d, "iac") \in Decoders /\ Moved(d, "data") \in Decoders
  BY <1>1, MovedTyped DEF Places
<1>3. << >> \in Seq(Byte) /\ << >> \in Seq(Seq(Byte)) /\ <<b>> \in Seq(Byte)
  BY Singles, Empty
<1>4. Word(d, b) = << >>
  BY DEF Word
<1>5. b = IAC => IsStep(FeedByte(From(d), b), From(d), Moved(d, "iac"), << >>, << >>, << >>)
  BY <1>1, <1>3, ByteOnData DEF IsStep
<1>6. b # IAC => IsStep(FeedByte(From(d), b), From(d), Moved(d, "data"), <<b>>, << >>, << >>)
  BY <1>1, <1>3, ByteOnData DEF IsStep
<1> QED BY <1>2, <1>4, <1>5, <1>6, LeadsByte

\* What a stream's next byte adds, after an IAC.
LEMMA LeadsFromIac ==
  ASSUME NEW s, NEW d, After(s, d), d.at = "iac", NEW b \in Byte
  PROVE  /\ b = IAC => Leads(s, Append(s, b), Moved(d, "data"), <<b>>, << >>, << >>)
         /\ b \in Verbs =>
              Leads(s, Append(s, b), [at |-> "negotiation", verb |-> b, frame |-> d.frame], << >>, << >>, << >>)
         /\ b = SB =>
              Leads(s, Append(s, b), [at |-> "subneg", verb |-> d.verb, frame |-> << >>], << >>, << >>, << >>)
<1>1. d \in Decoders /\ From(d) \in Machines /\ From(d).decoder = d
  BY FromTyped DEF After
<1>2. /\ Moved(d, "data") \in Decoders
      /\ b \in Verbs => [at |-> "negotiation", verb |-> b, frame |-> d.frame] \in Decoders
      /\ [at |-> "subneg", verb |-> d.verb, frame |-> << >>] \in Decoders
  BY <1>1, MovedTyped DEF Places
<1>3. << >> \in Seq(Byte) /\ << >> \in Seq(Seq(Byte)) /\ <<b>> \in Seq(Byte)
  BY Singles, Empty
<1>4. Word(d, b) = << >>
  BY DEF Word
<1>5. CASE b = IAC
  <2>1. IsStep(FeedByte(From(d), b), From(d), Moved(d, "data"), <<b>>, << >>, << >>)
    BY <1>1, <1>3, <1>5, ByteOnIac DEF IsStep
  <2>2. Leads(s, Append(s, b), Moved(d, "data"), <<b>>, << >>, << >>)
    BY <1>2, <1>4, <2>1, LeadsByte
  <2> QED BY <1>5, <2>2, Codes
<1>6. CASE b \in Verbs
  <2> DEFINE e == [at |-> "negotiation", verb |-> b, frame |-> d.frame]
  <2>1. IsStep(FeedByte(From(d), b), From(d), e, << >>, << >>, << >>)
    BY <1>1, <1>3, <1>6, ByteOnIac DEF IsStep
  <2>2. e \in Decoders
    BY <1>2, <1>6
  <2> HIDE DEF e
  <2>3. Leads(s, Append(s, b), e, << >>, << >>, << >>)
    BY <1>4, <2>1, <2>2, LeadsByte
  <2> QED BY <1>6, <2>3, Codes DEF e
<1>7. CASE b = SB
  <2> DEFINE e == [at |-> "subneg", verb |-> d.verb, frame |-> << >>]
  <2>1. IsStep(FeedByte(From(d), b), From(d), e, << >>, << >>, << >>)
    BY <1>1, <1>3, <1>7, ByteOnIac DEF IsStep
  <2>2. e \in Decoders
    BY <1>2, <1>7
  <2> HIDE DEF e
  <2>3. Leads(s, Append(s, b), e, << >>, << >>, << >>)
    BY <1>4, <2>1, <2>2, LeadsByte
  <2> QED BY <1>7, <2>3, Codes DEF e
<1> QED BY <1>5, <1>6, <1>7

\* What a stream's next byte adds, after a verb.
LEMMA LeadsFromNegotiation ==
  ASSUME NEW s, NEW d, After(s, d), d.at = "negotiation", NEW b \in Byte
  PROVE  Leads(s, Append(s, b), Moved(d, "data"), << >>, <<<<d.verb, b>>>>, << >>)
<1>1. d \in Decoders /\ From(d) \in Machines /\ From(d).decoder = d
  BY FromTyped DEF After
<1>2. Moved(d, "data") \in Decoders
  BY <1>1, MovedTyped DEF Places
<1>3. << >> \in Seq(Byte) /\ << >> \in Seq(Seq(Byte))
  BY Empty
<1>4. Word(d, b) = <<<<d.verb, b>>>>
  BY DEF Word
<1> DEFINE r == NegotiationReply(d.verb, b)
<1>5. r \in Seq(Byte)
  <2>1. d.verb \in Verbs
    BY <1>1 DEF Decoders
  <2>2. PICK w \in Verbs : r = <<IAC, w, b>>
    BY <2>1, ReplyShape
  <2>3. w \in Byte /\ IAC \in Byte
    BY Codes
  <2> QED BY <2>2, <2>3
<1>6. IsStep(FeedByte(From(d), b), From(d), Moved(d, "data"), << >>, r, << >>)
  <2>1. FeedByte(From(d), b) = Steps(From(d), Moved(d, "data"), << >>, r, << >>)
    BY <1>1, ByteOnNegotiation
  <2> HIDE DEF r
  <2> QED BY <1>3, <1>5, <2>1 DEF IsStep
<1> HIDE DEF r
<1> QED BY <1>2, <1>4, <1>6, LeadsByte

\* What a stream's next byte adds, in a subnegotiation.
LEMMA LeadsFromSubneg ==
  ASSUME NEW s, NEW d, After(s, d), d.at = "subneg", NEW b \in Byte
  PROVE  /\ b = IAC => Leads(s, Append(s, b), Moved(d, "subneg_iac"), << >>, << >>, << >>)
         /\ b # IAC => Leads(s, Append(s, b), Kept(d, "subneg", b), << >>, << >>, << >>)
<1>1. d \in Decoders /\ From(d) \in Machines /\ From(d).decoder = d
  BY FromTyped DEF After
<1>2. Moved(d, "subneg_iac") \in Decoders /\ Kept(d, "subneg", b) \in Decoders
  BY <1>1, MovedTyped DEF Places
<1>3. << >> \in Seq(Byte) /\ << >> \in Seq(Seq(Byte))
  BY Empty
<1>4. Word(d, b) = << >>
  BY DEF Word
<1>5. b = IAC => IsStep(FeedByte(From(d), b), From(d), Moved(d, "subneg_iac"), << >>, << >>, << >>)
  BY <1>1, <1>3, ByteOnSubneg DEF IsStep
<1>6. b # IAC => IsStep(FeedByte(From(d), b), From(d), Kept(d, "subneg", b), << >>, << >>, << >>)
  BY <1>1, <1>3, ByteOnSubneg DEF IsStep
<1> QED BY <1>2, <1>4, <1>5, <1>6, LeadsByte

\* What a stream's next byte adds, after an IAC of a subnegotiation.
LEMMA LeadsFromSubnegIac ==
  ASSUME NEW s, NEW d, After(s, d), d.at = "subneg_iac", NEW b \in Byte
  PROVE  /\ b = IAC => Leads(s, Append(s, b), Kept(d, "subneg", b), << >>, << >>, << >>)
         /\ b = SE => Leads(s, Append(s, b), Moved(d, "data"), << >>, << >>, <<d.frame>>)
<1>1. d \in Decoders /\ From(d) \in Machines /\ From(d).decoder = d
  BY FromTyped DEF After
<1>2. Moved(d, "data") \in Decoders /\ Kept(d, "subneg", b) \in Decoders
  BY <1>1, MovedTyped DEF Places
<1>3. << >> \in Seq(Byte) /\ << >> \in Seq(Seq(Byte))
  BY Empty
<1>4. Word(d, b) = << >>
  BY DEF Word
<1>5. <<d.frame>> \in Seq(Seq(Byte))
  <2>1. d.frame \in Seq(Byte)
    BY <1>1 DEF Decoders
  <2> QED BY <2>1, Singles
<1>6. b = IAC => IsStep(FeedByte(From(d), b), From(d), Kept(d, "subneg", b), << >>, << >>, << >>)
  BY <1>1, <1>3, ByteOnSubnegIac DEF IsStep
<1>7. b = SE => IsStep(FeedByte(From(d), b), From(d), Moved(d, "data"), << >>, << >>, <<d.frame>>)
  BY <1>1, <1>3, <1>5, ByteOnSubnegIac DEF IsStep
<1> QED BY <1>2, <1>4, <1>6, <1>7, LeadsByte

-----------------------------------------------------------------------------
(* A chunk                                                                 *)

\* What is replied to words.
ReplyTo(w)    == NegotiationReply(w[1], w[2])
RepliesTo(ws) == FlattenSeq([i \in DOMAIN ws |-> ReplyTo(ws[i])])

\* The reply to a word is bytes.
LEMMA ReplyTyped ==
  ASSUME NEW w \in Words
  PROVE  ReplyTo(w) \in Seq(Byte)
<1>1. w[1] \in Verbs /\ w[2] \in Byte
  BY DEF Words
<1>2. PICK v \in Verbs : NegotiationReply(w[1], w[2]) = <<IAC, v, w[2]>>
  BY <1>1, ReplyShape
<1>3. v \in Byte /\ IAC \in Byte
  BY Codes
<1> QED BY <1>1, <1>2, <1>3 DEF ReplyTo

\* One word more, one reply more.
LEMMA RepliesAppend ==
  ASSUME NEW ws \in Seq(Words), NEW w \in Words
  PROVE  RepliesTo(ws) \in Seq(Byte) /\ RepliesTo(Append(ws, w)) = RepliesTo(ws) \o ReplyTo(w)
<1> DEFINE n == Len(ws)
           m == n + 1
           longer == Append(ws, w)
           f == [i \in 1 .. n |-> ReplyTo(ws[i])]
           g == [i \in 1 .. m |-> ReplyTo(longer[i])]
<1>1. /\ n \in Nat /\ longer \in Seq(Words) /\ Len(longer) = m
      /\ (\A i \in 1 .. n : longer[i] = ws[i]) /\ longer[m] = w
  BY AppendProperties
<1>2. RepliesTo(ws) = FlattenSeq(f) /\ RepliesTo(longer) = FlattenSeq(g)
  <2>1. DOMAIN ws = 1 .. n /\ DOMAIN longer = 1 .. m
    <3> HIDE DEF longer
    <3> QED BY <1>1
  <2> QED BY <2>1 DEF RepliesTo
<1>3. /\ \A i \in 1 .. n : f[i] = g[i]
      /\ \A i \in 1 .. m : g[i] \in Seq(Byte)
  <2>1. \A i \in 1 .. m : longer[i] \in Words
    <3> HIDE DEF longer
    <3> QED BY <1>1
  <2>2. 1 .. n \subseteq 1 .. m
    BY <1>1
  <2> HIDE DEF longer, n, m
  <2> QED BY <1>1, <2>1, <2>2, ReplyTyped
<1>4. g[m] = ReplyTo(w)
  <2>1. m \in 1 .. m
    BY <1>1
  <2> HIDE DEF longer, n, m
  <2> QED BY <1>1, <2>1
<1>5. Grows(f, g, n, Byte) /\ m = n + 1
  BY <1>3 DEF Grows, IsList
<1> HIDE DEF f, g, longer, n, m
<1>6. FlattenSeq(f) \in Seq(Byte) /\ FlattenSeq(g) = FlattenSeq(f) \o g[m]
  BY <1>1, <1>5, FlattenNext
<1> QED BY <1>2, <1>4, <1>6 DEF longer

\* No words, no replies.
LEMMA RepliesNone == RepliesTo(<< >>) = << >>
<1>1. [i \in DOMAIN << >> |-> ReplyTo(<< >>[i])] = << >>
  OBVIOUS
<1> QED BY <1>1, FlattenNone DEF RepliesTo

\* The replies a step yields are those to the word it completes.
LEMMA RepliesOfStep ==
  ASSUME NEW d \in Decoders, NEW b \in Byte, NEW e, NEW p, NEW r, NEW fs,
         IsStep(FeedByte(From(d), b), From(d), e, p, r, fs)
  PROVE  /\ d.at = "negotiation" => r = NegotiationReply(d.verb, b)
         /\ d.at # "negotiation" => r = << >>
<1> DEFINE m == From(d)
           x == FeedByte(m, b)
<1>1. m \in Machines /\ m.decoder = d /\ m.yield = Nothing
  BY FromTyped
<1>2. << >> \in Seq(Byte) /\ << >> \in Seq(Seq(Byte)) /\ <<b>> \in Seq(Byte)
  BY Singles, Empty
<1>3. d.at \in Places /\ d.frame \in Seq(Byte)
  BY DEF Decoders
<1>4. <<d.frame>> \in Seq(Seq(Byte))
  BY <1>3, Singles
<1> DEFINE Same(t) == \E g, q, gs : IsStep(x, m, g, q, t, gs)
<1>5. ASSUME NEW t, Same(t)
      PROVE  r = t
  <2>1. PICK g, q, gs : IsStep(x, m, g, q, t, gs)
    BY <1>5
  <2> HIDE DEF m, x
  <2>2. IsStep(x, m, e, p, r, fs)
    BY DEF m, x
  <2> QED BY <1>1, <2>1, <2>2, SameSteps
<1> HIDE DEF m
<1>6. CASE d.at = "negotiation"
  <2> DEFINE t == NegotiationReply(d.verb, b)
  <2>1. d.verb \in Verbs
    BY <1>6 DEF Decoders
  <2>2. <<d.verb, b>> \in Words /\ t = ReplyTo(<<d.verb, b>>)
    BY <2>1 DEF Words, ReplyTo
  <2>3. t \in Seq(Byte)
    BY <2>2, ReplyTyped
  <2>4. x = Steps(m, Moved(d, "data"), << >>, t, << >>)
    BY <1>1, <1>6, ByteOnNegotiation
  <2> HIDE DEF t, x
  <2>5. Same(t)
    BY <1>2, <2>3, <2>4 DEF IsStep
  <2> HIDE DEF Same
  <2>6. r = t
    BY <1>5, <2>5
  <2> QED BY <1>6, <2>6 DEF t
<1>7. CASE d.at # "negotiation"
  <2>1. \E g, q, gs : q \in Seq(Byte) /\ gs \in Seq(Seq(Byte)) /\ x = Steps(m, g, q, << >>, gs)
    <3>1. b = IAC \/ b \in Verbs \/ b = SB \/ b \in Other
      BY DEF Other
    <3>2. CASE d.at = "data"
      BY <1>1, <1>2, <3>2, ByteOnData
    <3>3. CASE d.at = "iac"
      BY <1>1, <1>2, <3>1, <3>3, ByteOnIac
    <3>4. CASE d.at = "subneg"
      BY <1>1, <1>2, <3>4, ByteOnSubneg
    <3>5. CASE d.at = "subneg_iac"
      BY <1>1, <1>2, <1>4, <3>5, ByteOnSubnegIac
    <3> QED BY <1>3, <1>7, <3>2, <3>3, <3>4, <3>5 DEF Places
  <2> HIDE DEF x
  <2>2. Same(<< >>)
    BY <1>2, <2>1 DEF IsStep
  <2> HIDE DEF Same
  <2> QED BY <1>5, <1>7, <2>2
<1> QED BY <1>6, <1>7

\* What a read of chunk makes of the decoder and yields, and what it adds to the stream.
Took(s, d, chunk, words) ==
  LET m == Feed(d, chunk)
  IN /\ m \in Machines
     /\ Leads(s, s \o chunk, m.decoder, m.yield.payload, words, m.yield.frames)
     /\ m.yield.replies = RepliesTo(words)

\* What has been taken, and one byte more.
LEMMA TookByte ==
  ASSUME NEW s, NEW d, After(s, d), NEW x \in Seq(Byte), NEW b \in Byte, NEW w, Took(s, d, x, w)
  PROVE  \E v : Took(s, d, Append(x, b), v)
<1> DEFINE m == Feed(d, x)
           n == Feed(d, Append(x, b))
           f == m.decoder
           t == s \o x
           u == s \o Append(x, b)
<1>1. /\ m \in Machines /\ Leads(s, t, f, m.yield.payload, w, m.yield.frames)
      /\ m.yield.replies = RepliesTo(w)
  BY DEF Took
<1>2. n = FeedByte(m, b) /\ n \in Machines
  <2>1. From(d) \in Machines
    BY FromTyped DEF After
  <2>2. FeedAll(From(d), Append(x, b)) = FeedByte(FeedAll(From(d), x), b)
    BY <2>1, FeedAppend
  <2>3. n = FeedByte(m, b)
    BY <2>2 DEF Feed, From
  <2> QED BY <1>1, <2>3, ByteTyped
<1>3. u = Append(t, b)
  BY ConcatAppend DEF After
<1> HIDE DEF m, n, t, u
<1>4. PICK e \in Decoders, p \in Seq(Byte), r \in Seq(Byte), fs \in Seq(Seq(Byte)) :
        n = Steps(m, e, p, r, fs) /\ FeedByte(From(f), b) = Steps(From(f), e, p, r, fs)
  BY <1>1, <1>2, ByteAdds
<1>5. IsStep(FeedByte(From(f), b), From(f), e, p, r, fs)
  BY <1>4 DEF IsStep
<1>6. f \in Decoders /\ After(t, f)
  BY <1>1 DEF Leads, After
<1> DEFINE v == Word(f, b)
<1>7. v \in Seq(Words)
  BY <1>6, WordTyped
<1> HIDE DEF f
<1>8. Leads(t, u, e, p, v, fs)
  BY <1>3, <1>5, <1>6, LeadsByte
<1>9. Leads(s, u, e, m.yield.payload \o p, w \o v, m.yield.frames \o fs)
  BY <1>1, <1>8, LeadsOn
<1>10. /\ n.decoder = e /\ n.yield.payload = m.yield.payload \o p
       /\ n.yield.replies = m.yield.replies \o r /\ n.yield.frames = m.yield.frames \o fs
  <2>1. /\ n.decoder = e /\ Added(n.yield.payload, m.yield.payload, p)
        /\ Added(n.yield.replies, m.yield.replies, r) /\ Added(n.yield.frames, m.yield.frames, fs)
    BY <1>4, StepsParts
  <2> QED BY <2>1 DEF Added
<1>11. w \in Seq(Words)
  BY <1>1 DEF Leads, Adding
<1>12. RepliesTo(w) \o r = RepliesTo(w \o v)
  <2>1. CASE f.at = "negotiation"
    <3> DEFINE y == <<f.verb, b>>
    <3>1. r = ReplyTo(y) /\ v = <<y>> /\ y \in Words
      <4>1. f.verb \in Verbs
        BY <1>6, <2>1 DEF Decoders
      <4> QED BY <1>5, <1>6, <2>1, <4>1, RepliesOfStep DEF ReplyTo, Word, Words
    <3> HIDE DEF y, v
    <3>2. w \o <<y>> = Append(w, y)
      BY <1>11, <3>1
    <3> QED BY <1>11, <3>1, <3>2, RepliesAppend
  <2>2. CASE f.at # "negotiation"
    <3>1. r = << >> /\ v = << >>
      BY <1>5, <1>6, <2>2, RepliesOfStep DEF Word
    <3> HIDE DEF v
    <3>2. w \o << >> = w
      BY <1>11
    <3> DEFINE a == RepliesTo(w)
    <3>3. a \in Seq(Byte)
      BY <1>1, MachineParts
    <3> HIDE DEF a
    <3>4. a \o << >> = a
      BY <3>3
    <3> QED BY <3>1, <3>2, <3>4 DEF a
  <2> QED BY <2>1, <2>2
<1> HIDE DEF v
<1>13. Took(s, d, Append(x, b), w \o v)
  BY <1>1, <1>2, <1>9, <1>10, <1>12 DEF Took, n, u
<1> QED BY <1>13

\* Wherever reads cut the stream.
LEMMA FeedReads ==
  ASSUME NEW s, NEW d, After(s, d), NEW chunk \in Seq(Byte)
  PROVE  \E words : Took(s, d, chunk, words)
<1> DEFINE T == {x \in Seq(Byte) : \E words : Took(s, d, x, words)}
<1>1. << >> \in T
  <2>1. From(d) \in Machines /\ From(d).decoder = d /\ From(d).yield = Nothing
    BY FromTyped DEF After
  <2>2. Feed(d, << >>) = From(d)
    BY <2>1, FeedNone DEF Feed, From
  <2>3. s \o << >> = s
    BY DEF After
  <2>4. Leads(s, s, d, << >>, << >>, << >>)
    BY AddingNone DEF Leads
  <2>5. Took(s, d, << >>, << >>)
    BY <2>1, <2>2, <2>3, <2>4, RepliesNone DEF Took, Nothing
  <2> QED BY <2>5, Empty
<1>2. \A x \in Seq(Byte) : \A b \in Byte : x \in T => Append(x, b) \in T
  <2> SUFFICES ASSUME NEW x \in Seq(Byte), NEW b \in Byte, x \in T
               PROVE  Append(x, b) \in T
    OBVIOUS
  <2>1. Append(x, b) \in Seq(Byte)
    OBVIOUS
  <2> QED BY <2>1, TookByte
<1> HIDE DEF T
<1>3. \A x \in Seq(Byte) : x \in T
  BY <1>1, <1>2, Longer
<1> QED BY <1>3 DEF T

-----------------------------------------------------------------------------
(* What is written, as its reader decodes it                               *)

\* A byte, escaped.
Escaped(b) == IF b = IAC THEN <<IAC, IAC>> ELSE <<b>>

\* A byte escaped is bytes.
LEMMA EscapedTyped ==
  ASSUME NEW b \in Byte
  PROVE  Escaped(b) \in Seq(Byte)
<1>1. IAC \in Byte
  BY Codes
<1> QED BY <1>1 DEF Escaped

\* One byte more, its escape more.
LEMMA EscapeAppend ==
  ASSUME NEW x \in Seq(Byte), NEW b \in Byte
  PROVE  EscapeIac(x) \in Seq(Byte) /\ EscapeIac(Append(x, b)) = EscapeIac(x) \o Escaped(b)
<1> DEFINE n == Len(x)
           m == n + 1
           longer == Append(x, b)
           f == [i \in 1 .. n |-> Escaped(x[i])]
           g == [i \in 1 .. m |-> Escaped(longer[i])]
<1>1. /\ n \in Nat /\ longer \in Seq(Byte) /\ Len(longer) = m
      /\ (\A i \in 1 .. n : longer[i] = x[i]) /\ longer[m] = b
  BY AppendProperties
<1>2. EscapeIac(x) = FlattenSeq(f) /\ EscapeIac(longer) = FlattenSeq(g)
  <2>1. DOMAIN x = 1 .. n /\ DOMAIN longer = 1 .. m
    <3> HIDE DEF longer
    <3> QED BY <1>1
  <2> QED BY <2>1 DEF EscapeIac, Escaped
<1>3. /\ \A i \in 1 .. n : f[i] = g[i]
      /\ \A i \in 1 .. m : g[i] \in Seq(Byte)
  <2>1. \A i \in 1 .. m : longer[i] \in Byte
    <3> HIDE DEF longer
    <3> QED BY <1>1
  <2>2. 1 .. n \subseteq 1 .. m
    BY <1>1
  <2> HIDE DEF longer, n, m
  <2> QED BY <1>1, <2>1, <2>2, EscapedTyped
<1>4. g[m] = Escaped(b)
  <2>1. m \in 1 .. m
    BY <1>1
  <2> HIDE DEF longer, n, m
  <2> QED BY <1>1, <2>1
<1>5. Grows(f, g, n, Byte) /\ m = n + 1
  BY <1>3 DEF Grows, IsList
<1> HIDE DEF f, g, longer, n, m
<1>6. FlattenSeq(f) \in Seq(Byte) /\ FlattenSeq(g) = FlattenSeq(f) \o g[m]
  BY <1>1, <1>5, FlattenNext
<1> QED BY <1>2, <1>4, <1>6 DEF longer

\* Nothing to escape.
LEMMA EscapeNone == EscapeIac(<< >>) = << >>
<1>1. [i \in DOMAIN << >> |-> IF << >>[i] = IAC THEN <<IAC, IAC>> ELSE <<<< >>[i]>>] = << >>
  OBVIOUS
<1> QED BY <1>1, FlattenNone DEF EscapeIac

\* Sequences put together byte by byte.
LEMMA ByByte ==
  ASSUME NEW V, NEW s \in Seq(V), NEW a \in V, NEW b \in V, NEW c \in V
  PROVE  /\ s \o <<a>> = Append(s, a) /\ s \o <<a, b>> = Append(Append(s, a), b)
         /\ s \o <<a, b, c>> = Append(Append(Append(s, a), b), c)
         /\ <<a, b>> \in Seq(V) /\ <<a, b, c>> \in Seq(V)
  OBVIOUS

\* Two bytes.
LEMMA LeadsTwice ==
  ASSUME NEW s, NEW d, After(s, d), NEW a \in Byte, NEW b \in Byte, NEW e, NEW g, NEW p, NEW v, NEW f,
         Leads(s, Append(s, a), e, << >>, << >>, << >>), Leads(Append(s, a), Append(Append(s, a), b), g, p, v, f)
  PROVE  Leads(s, s \o <<a, b>>, g, p, v, f)
<1>1. s \in Seq(Byte)
  BY DEF After
<1>2. s \o <<a, b>> = Append(Append(s, a), b)
  BY <1>1, ByByte
<1>3. Leads(s, Append(Append(s, a), b), g, p, v, f)
  BY LeadsOnly
<1> QED BY <1>2, <1>3

\* An escaped byte is that byte.
LEMMA EscapedByte ==
  ASSUME NEW s, NEW d, After(s, d), NEW b \in Byte
  PROVE  /\ d.at = "data" => \E e : e.at = "data" /\ Leads(s, s \o Escaped(b), e, <<b>>, << >>, << >>)
         /\ d.at = "subneg" =>
              \E e : /\ e.at = "subneg" /\ e.frame = Append(d.frame, b)
                     /\ Leads(s, s \o Escaped(b), e, << >>, << >>, << >>)
<1>1. s \in Seq(Byte) /\ IAC \in Byte
  BY Codes DEF After
<1>2. CASE b # IAC
  <2>1. s \o Escaped(b) = Append(s, b)
    BY <1>1, <1>2, ByByte DEF Escaped
  <2>2. Moved(d, "data").at = "data" /\ Kept(d, "subneg", b).at = "subneg" /\ Kept(d, "subneg", b).frame = Append(d.frame, b)
    BY DEF Moved, Kept
  <2>3. d.at = "data" => Leads(s, Append(s, b), Moved(d, "data"), <<b>>, << >>, << >>)
    BY <1>2, LeadsFromData
  <2>4. d.at = "subneg" => Leads(s, Append(s, b), Kept(d, "subneg", b), << >>, << >>, << >>)
    BY <1>2, LeadsFromSubneg
  <2> QED BY <2>1, <2>2, <2>3, <2>4
<1>3. CASE b = IAC
  <2>1. s \o Escaped(b) = s \o <<b, b>>
    BY <1>3 DEF Escaped
  <2>2. ASSUME d.at = "data"
        PROVE  \E e : e.at = "data" /\ Leads(s, s \o <<b, b>>, e, <<b>>, << >>, << >>)
    <3> DEFINE f == Moved(d, "iac")
               g == Moved(f, "data")
    <3>1. f.at = "iac" /\ g.at = "data"
      BY DEF Moved
    <3>2. Leads(s, Append(s, b), f, << >>, << >>, << >>)
      BY <1>3, <2>2, LeadsFromData
    <3>3. After(Append(s, b), f)
      BY <3>2 DEF Leads
    <3> HIDE DEF f
    <3>4. Leads(Append(s, b), Append(Append(s, b), b), g, <<b>>, << >>, << >>)
      BY <1>3, <3>1, <3>3, LeadsFromIac
    <3> HIDE DEF g
    <3>5. Leads(s, s \o <<b, b>>, g, <<b>>, << >>, << >>)
      BY <3>2, <3>4, LeadsTwice
    <3> QED BY <3>1, <3>5
  <2>3. ASSUME d.at = "subneg"
        PROVE  \E e : /\ e.at = "subneg" /\ e.frame = Append(d.frame, b)
                      /\ Leads(s, s \o <<b, b>>, e, << >>, << >>, << >>)
    <3> DEFINE f == Moved(d, "subneg_iac")
               g == Kept(f, "subneg", b)
    <3>1. f.at = "subneg_iac" /\ f.frame = d.frame /\ g.at = "subneg" /\ g.frame = Append(f.frame, b)
      BY DEF Moved, Kept
    <3>2. Leads(s, Append(s, b), f, << >>, << >>, << >>)
      BY <1>3, <2>3, LeadsFromSubneg
    <3>3. After(Append(s, b), f)
      BY <3>2 DEF Leads
    <3> HIDE DEF f
    <3>4. Leads(Append(s, b), Append(Append(s, b), b), g, << >>, << >>, << >>)
      BY <1>3, <3>1, <3>3, LeadsFromSubnegIac
    <3> HIDE DEF g
    <3>5. Leads(s, s \o <<b, b>>, g, << >>, << >>, << >>)
      BY <3>2, <3>4, LeadsTwice
    <3> QED BY <3>1, <3>5
  <2> QED BY <2>1, <2>2, <2>3
<1> QED BY <1>2, <1>3

\* Escaped bytes are those bytes.
LEMMA EscapedData ==
  ASSUME NEW s, NEW d, After(s, d), d.at = "data", NEW bytes \in Seq(Byte)
  PROVE  \E e : e.at = "data" /\ Leads(s, s \o EscapeIac(bytes), e, bytes, << >>, << >>)
<1> DEFINE T == {x \in Seq(Byte) : \E e : e.at = "data" /\ Leads(s, s \o EscapeIac(x), e, x, << >>, << >>)}
<1>1. << >> \in T
  <2>1. s \o EscapeIac(<< >>) = s
    BY EscapeNone DEF After
  <2>2. Leads(s, s, d, << >>, << >>, << >>)
    BY AddingNone DEF Leads
  <2> QED BY <2>1, <2>2, Empty
<1>2. ASSUME NEW x \in Seq(Byte), NEW b \in Byte, x \in T
      PROVE  Append(x, b) \in T
  <2> DEFINE t == s \o EscapeIac(x)
  <2>1. PICK e : e.at = "data" /\ Leads(s, t, e, x, << >>, << >>)
    BY <1>2
  <2>2. After(t, e)
    BY <2>1 DEF Leads
  <2>3. s \in Seq(Byte) /\ EscapeIac(x) \in Seq(Byte) /\ Escaped(b) \in Seq(Byte)
    BY EscapeAppend, EscapedTyped DEF After
  <2>4. s \o EscapeIac(Append(x, b)) = t \o Escaped(b)
    <3> DEFINE a == EscapeIac(x)
               c == Escaped(b)
    <3>1. EscapeIac(Append(x, b)) = a \o c
      BY EscapeAppend
    <3>2. a \in Seq(Byte) /\ c \in Seq(Byte)
      BY <2>3
    <3> HIDE DEF a, c
    <3>3. (s \o a) \o c = s \o (a \o c)
      BY <2>3, <3>2
    <3> QED BY <3>1, <3>3 DEF a, c
  <2> HIDE DEF t
  <2>5. PICK g : g.at = "data" /\ Leads(t, t \o Escaped(b), g, <<b>>, << >>, << >>)
    BY <2>1, <2>2, EscapedByte
  <2>6. Leads(s, t \o Escaped(b), g, x \o <<b>>, << >> \o << >>, << >> \o << >>)
    BY <2>1, <2>5, LeadsOn
  <2>7. x \o <<b>> = Append(x, b) /\ << >> \o << >> = << >> /\ Append(x, b) \in Seq(Byte)
    OBVIOUS
  <2> QED BY <2>4, <2>5, <2>6, <2>7
<1> HIDE DEF T
<1>3. \A x \in Seq(Byte) : x \in T
  BY <1>1, <1>2, Longer
<1> QED BY <1>3 DEF T

\* Escaped bytes in a subnegotiation are read as the bytes.
LEMMA EscapedInside ==
  ASSUME NEW s, NEW d, After(s, d), d.at = "subneg", NEW bytes \in Seq(Byte)
  PROVE  \E e : /\ e.at = "subneg" /\ e.frame = d.frame \o bytes
                /\ Leads(s, s \o EscapeIac(bytes), e, << >>, << >>, << >>)
<1> DEFINE T == {x \in Seq(Byte) : \E e : /\ e.at = "subneg" /\ e.frame = d.frame \o x
                                          /\ Leads(s, s \o EscapeIac(x), e, << >>, << >>, << >>)}
<1>0. d.frame \in Seq(Byte) /\ s \in Seq(Byte)
  BY DEF After, Decoders
<1>1. << >> \in T
  <2>1. s \o EscapeIac(<< >>) = s /\ d.frame \o << >> = d.frame
    BY <1>0, EscapeNone
  <2>2. Leads(s, s, d, << >>, << >>, << >>)
    BY AddingNone DEF Leads
  <2> QED BY <2>1, <2>2, Empty
<1>2. ASSUME NEW x \in Seq(Byte), NEW b \in Byte, x \in T
      PROVE  Append(x, b) \in T
  <2> DEFINE t == s \o EscapeIac(x)
  <2>1. PICK e : e.at = "subneg" /\ e.frame = d.frame \o x /\ Leads(s, t, e, << >>, << >>, << >>)
    BY <1>2
  <2>2. After(t, e)
    BY <2>1 DEF Leads
  <2>3. s \in Seq(Byte) /\ EscapeIac(x) \in Seq(Byte) /\ Escaped(b) \in Seq(Byte)
    BY EscapeAppend, EscapedTyped DEF After
  <2>4. s \o EscapeIac(Append(x, b)) = t \o Escaped(b)
    <3> DEFINE a == EscapeIac(x)
               c == Escaped(b)
    <3>1. EscapeIac(Append(x, b)) = a \o c
      BY EscapeAppend
    <3>2. a \in Seq(Byte) /\ c \in Seq(Byte)
      BY <2>3
    <3> HIDE DEF a, c
    <3>3. (s \o a) \o c = s \o (a \o c)
      BY <2>3, <3>2
    <3> QED BY <3>1, <3>3 DEF a, c
  <2> HIDE DEF t
  <2>5. PICK g : /\ g.at = "subneg" /\ g.frame = Append(e.frame, b)
                 /\ Leads(t, t \o Escaped(b), g, << >>, << >>, << >>)
    BY <2>1, <2>2, EscapedByte
  <2>6. Leads(s, t \o Escaped(b), g, << >>, << >>, << >>)
    BY <2>1, <2>5, LeadsOnly
  <2>7. d.frame \o Append(x, b) = Append(d.frame \o x, b) /\ Append(x, b) \in Seq(Byte)
    <3> DEFINE a == d.frame
    <3>1. a \in Seq(Byte)
      BY <1>0
    <3> HIDE DEF a
    <3>2. Append(x, b) \in Seq(Byte)
      OBVIOUS
    <3>3. a \o Append(x, b) = Append(a \o x, b)
      BY ONLY <3>1, x \in Seq(Byte), b \in Byte, ConcatAppend
    <3> QED BY <3>2, <3>3 DEF a
  <2>8. g.frame = d.frame \o Append(x, b)
    BY <2>1, <2>5, <2>7
  <2> QED BY <2>4, <2>5, <2>6, <2>7, <2>8
<1> HIDE DEF T
<1>3. \A x \in Seq(Byte) : x \in T
  BY <1>1, <1>2, Longer
<1> QED BY <1>3 DEF T

\* Tuples are put together element by element.
LEMMA Tuples ==
  ASSUME NEW V, NEW a \in V, NEW b \in V, NEW c \in V
  PROVE  /\ <<a>> = Append(<< >>, a) /\ <<a, b>> = Append(<<a>>, b) /\ <<a, b, c>> = Append(<<a, b>>, c)
         /\ <<a>> \in Seq(V) /\ <<a, b>> \in Seq(V) /\ <<a, b, c>> \in Seq(V)
<1> DEFINE one == <<a>>
           two == <<a, b>>
           three == <<a, b, c>>
<1>1. one \in Seq(V) /\ Len(one) = 1 /\ one[1] = a /\ one = Append(<< >>, a)
  OBVIOUS
<1>2. two \in Seq(V) /\ Len(two) = 2 /\ two[1] = a /\ two[2] = b
  OBVIOUS
<1>3. three \in Seq(V) /\ Len(three) = 3 /\ three[1] = a /\ three[2] = b /\ three[3] = c
  OBVIOUS
<1> HIDE DEF one, two, three
<1>4. two = Append(one, b)
  <2>1. 1 \in Nat /\ Len(two) = 1 + 1 /\ \A i \in 1 .. 1 : one[i] = two[i]
    BY <1>1, <1>2
  <2>2. two = Append(one, two[1 + 1])
    BY <1>1, <1>2, <2>1, ListedNext
  <2> QED BY <1>2, <2>2
<1>5. three = Append(two, c)
  <2>1. 2 \in Nat /\ Len(three) = 2 + 1 /\ \A i \in 1 .. 2 : two[i] = three[i]
    BY <1>2, <1>3
  <2>2. three = Append(two, three[2 + 1])
    BY <1>2, <1>3, <2>1, ListedNext
  <2> QED BY <1>3, <2>2
<1> QED BY <1>1, <1>2, <1>3, <1>4, <1>5 DEF one, two, three

\* Two values, appended one by one.
LEMMA Pair ==
  ASSUME NEW V, NEW a \in V, NEW b \in V
  PROVE  <<a, b>> = Append(Append(<< >>, a), b)
<1> DEFINE one == <<a>>
           two == <<a, b>>
<1>1. one = Append(<< >>, a)
  OBVIOUS
<1>2. two = Append(one, b)
  <2>1. one = <<a>> /\ two = <<a, b>>
    OBVIOUS
  <2> HIDE DEF one, two
  <2>2. <<a, b>> = Append(<<a>>, b)
    BY ONLY a \in V, b \in V, Tuples
  <2> QED BY <2>1, <2>2
<1> QED BY <1>1, <1>2

\* One value before two.
LEMMA Prefixed ==
  ASSUME NEW V, NEW a \in V, NEW b \in V, NEW c \in V
  PROVE  <<a>> \o <<b, c>> = <<a, b, c>>
<1> DEFINE s == <<a>>
<1>1. s \in Seq(V) /\ <<a, b>> = Append(s, b) /\ <<a, b, c>> = Append(<<a, b>>, c)
  BY Tuples
<1> HIDE DEF s
<1>2. s \o <<b, c>> = Append(Append(s, b), c)
  BY <1>1, ByByte
<1> QED BY <1>1, <1>2 DEF s

\* A verb and an option are read as such.
LEMMA WordDecoded ==
  ASSUME NEW s, NEW d, After(s, d), d.at = "data", NEW v \in Verbs, NEW o \in Byte
  PROVE  \E e : e.at = "data" /\ Leads(s, s \o <<IAC, v, o>>, e, << >>, <<<<v, o>>>>, << >>)
<1> DEFINE t == Append(s, IAC)
           u == Append(t, v)
           x == Append(u, o)
           f == Moved(d, "iac")
           g == [at |-> "negotiation", verb |-> v, frame |-> f.frame]
           e == Moved(g, "data")
<1>1. s \in Seq(Byte) /\ IAC \in Byte /\ v \in Byte
  BY Codes DEF After
<1>2. s \o <<IAC, v, o>> = x
  BY <1>1, ByByte
<1>3. f.at = "iac" /\ g.at = "negotiation" /\ g.verb = v /\ e.at = "data"
  BY DEF Moved
<1>4. Leads(s, t, f, << >>, << >>, << >>)
  BY <1>1, LeadsFromData
<1>5. After(t, f)
  BY <1>4 DEF Leads
<1> HIDE DEF t, f
<1>6. Leads(t, u, g, << >>, << >>, << >>)
  BY <1>1, <1>3, <1>5, LeadsFromIac
<1>7. After(u, g)
  BY <1>6 DEF Leads
<1> HIDE DEF u, g
<1>8. Leads(u, x, e, << >>, <<<<v, o>>>>, << >>)
  BY <1>3, <1>7, LeadsFromNegotiation
<1> HIDE DEF x, e
<1>9. Leads(t, x, e, << >>, <<<<v, o>>>>, << >>)
  BY <1>5, <1>6, <1>8, LeadsOnly
<1>10. Leads(s, x, e, << >>, <<<<v, o>>>>, << >>)
  BY <1>4, <1>9, LeadsOnly
<1> QED BY <1>2, <1>3, <1>10

\* The answer a word gets, without its IAC.
Answering(answer, word) == <<IAC>> \o answer = ReplyTo(word)

\* answers has an answer to each of the words.
Matches(answers, words) ==
  /\ answers \in Seq(Words) /\ words \in Seq(Words) /\ Len(answers) = Len(words)
  /\ \A i \in 1 .. Len(words) : Answering(answers[i], words[i])

\* A concatenation, index by index.
LEMMA ConcatAt ==
  ASSUME NEW V, NEW a \in Seq(V), NEW b \in Seq(V), NEW n, n = Len(a), NEW m, m = Len(b), NEW c, c = a \o b
  PROVE  /\ c \in Seq(V) /\ Len(c) = n + m /\ n \in Nat /\ m \in Nat
         /\ \A i \in 1 .. (n + m) : c[i] = IF i <= n THEN a[i] ELSE b[i - n]
  OBVIOUS

\* No words have no answers.
LEMMA MatchesNone == Matches(<< >>, << >>)
  BY Empty DEF Matches

\* Answers to two runs of words, one after the other.
LEMMA MatchesConcat ==
  ASSUME NEW a, NEW x, NEW b, NEW y, Matches(a, x), Matches(b, y)
  PROVE  Matches(a \o b, x \o y)
<1> DEFINE n == Len(x)
           m == Len(y)
<1>1. /\ a \in Seq(Words) /\ x \in Seq(Words) /\ b \in Seq(Words) /\ y \in Seq(Words)
      /\ Len(a) = n /\ Len(b) = m /\ n \in Nat /\ m \in Nat
  BY DEF Matches
<1> DEFINE ab == a \o b
           xy == x \o y
<1>2. /\ ab \in Seq(Words) /\ Len(ab) = n + m
      /\ \A i \in 1 .. (n + m) : ab[i] = IF i <= n THEN a[i] ELSE b[i - n]
  <2> DEFINE c == ab
  <2>1. c = a \o b /\ n = Len(a) /\ m = Len(b) /\ a \in Seq(Words) /\ b \in Seq(Words)
    BY <1>1
  <2> HIDE DEF c, n, m
  <2>2. /\ c \in Seq(Words) /\ Len(c) = n + m
        /\ \A i \in 1 .. (n + m) : c[i] = IF i <= n THEN a[i] ELSE b[i - n]
    BY <2>1, ConcatAt
  <2> QED BY <2>2 DEF c
<1>2a. /\ xy \in Seq(Words) /\ Len(xy) = n + m
       /\ \A i \in 1 .. (n + m) : xy[i] = IF i <= n THEN x[i] ELSE y[i - n]
  <2> DEFINE c == xy
  <2>1. c = x \o y /\ n = Len(x) /\ m = Len(y) /\ x \in Seq(Words) /\ y \in Seq(Words)
    BY <1>1
  <2> HIDE DEF c, n, m
  <2>2. /\ c \in Seq(Words) /\ Len(c) = n + m
        /\ \A i \in 1 .. (n + m) : c[i] = IF i <= n THEN x[i] ELSE y[i - n]
    BY <2>1, ConcatAt
  <2> QED BY <2>2 DEF c
<1> HIDE DEF ab, xy
<1>3. ASSUME NEW i \in 1 .. (n + m)
      PROVE  Answering(ab[i], xy[i])
  <2>1. CASE i <= n
    <3>1. i \in 1 .. n /\ ab[i] = a[i] /\ xy[i] = x[i]
      BY <1>1, <1>2, <1>2a, <2>1
    <3> QED BY <3>1 DEF Matches
  <2>2. CASE ~(i <= n)
    <3>1. i - n \in 1 .. m /\ ab[i] = b[i - n] /\ xy[i] = y[i - n]
      BY <1>1, <1>2, <1>2a, <2>2
    <3> QED BY <3>1 DEF Matches
  <2> QED BY <2>1, <2>2
<1> QED BY <1>1, <1>2, <1>2a, <1>3 DEF Matches, ab, xy

\* The reply to a word is read as the answer to it.
LEMMA ReplyDecoded ==
  ASSUME NEW s, NEW d, After(s, d), d.at = "data", NEW w \in Words
  PROVE  \E e, v : /\ e.at = "data" /\ Matches(<<v>>, <<w>>)
                   /\ Leads(s, s \o ReplyTo(w), e, << >>, <<v>>, << >>)
<1>1. w[1] \in Verbs /\ w[2] \in Byte
  BY DEF Words
<1>2. PICK x \in Verbs : NegotiationReply(w[1], w[2]) = <<IAC, x, w[2]>>
  BY <1>1, ReplyShape
<1> DEFINE o == w[2]
           v == <<x, o>>
<1>3. v \in Words /\ <<IAC>> \o v = ReplyTo(w) /\ ReplyTo(w) = <<IAC, x, o>>
  <2>1. v \in Words
    BY <1>1 DEF Words
  <2>2. ReplyTo(w) = <<IAC, x, o>>
    BY <1>2 DEF ReplyTo
  <2> HIDE DEF o
  <2>3. <<IAC>> \o v = <<IAC, x, o>>
    <3>1. IAC \in Byte /\ x \in Byte /\ o \in Byte
      BY <1>1, Codes DEF o
    <3> QED BY <3>1, Prefixed
  <2> QED BY <2>1, <2>2, <2>3
<1>4. PICK e : e.at = "data" /\ Leads(s, s \o <<IAC, x, o>>, e, << >>, <<v>>, << >>)
  BY <1>1, WordDecoded
<1> HIDE DEF v
<1>5. Matches(<<v>>, <<w>>)
  <2> DEFINE a == <<v>>
             b == <<w>>
  <2>1. a \in Seq(Words) /\ b \in Seq(Words) /\ Len(a) = 1 /\ Len(b) = 1 /\ a[1] = v /\ b[1] = w
    BY <1>3
  <2> HIDE DEF a, b
  <2>2. Answering(a[1], b[1])
    BY <1>3, <2>1 DEF Answering
  <2>3. Matches(a, b)
    <3>1. \A i \in 1 .. 1 : Answering(a[i], b[i])
      BY <2>2
    <3> QED BY <2>1, <3>1 DEF Matches
  <2> QED BY <2>3 DEF a, b
<1> QED BY <1>3, <1>4, <1>5

\* Replies to words are read as answers to them.
LEMMA RepliesDecoded ==
  ASSUME NEW s, NEW d, After(s, d), d.at = "data", NEW words \in Seq(Words)
  PROVE  \E e, v : e.at = "data" /\ Matches(v, words) /\ Leads(s, s \o RepliesTo(words), e, << >>, v, << >>)
<1> DEFINE T == {x \in Seq(Words) :
                   \E e, v : e.at = "data" /\ Matches(v, x) /\ Leads(s, s \o RepliesTo(x), e, << >>, v, << >>)}
<1>0. s \in Seq(Byte)
  BY DEF After
<1>1. << >> \in T
  <2>1. s \o RepliesTo(<< >>) = s
    BY <1>0, RepliesNone
  <2>2. Leads(s, s, d, << >>, << >>, << >>)
    BY AddingNone DEF Leads
  <2> QED BY <2>1, <2>2, Empty, MatchesNone
<1>2. ASSUME NEW x \in Seq(Words), NEW w \in Words, x \in T
      PROVE  Append(x, w) \in T
  <2> DEFINE t == s \o RepliesTo(x)
             r == ReplyTo(w)
             a == RepliesTo(x)
  <2>1. PICK e, v : e.at = "data" /\ Matches(v, x) /\ Leads(s, t, e, << >>, v, << >>)
    BY <1>2
  <2>2. After(t, e)
    BY <2>1 DEF Leads
  <2>3. RepliesTo(Append(x, w)) = a \o r /\ a \in Seq(Byte) /\ r \in Seq(Byte)
    BY RepliesAppend, ReplyTyped
  <2>4. s \o RepliesTo(Append(x, w)) = t \o r
    <3>0. t = s \o a
      OBVIOUS
    <3> HIDE DEF a, r, t
    <3>1. (s \o a) \o r = s \o (a \o r)
      BY <1>0, <2>3
    <3> QED BY <2>3, <3>0, <3>1
  <2>5. PICK g, y : g.at = "data" /\ Matches(<<y>>, <<w>>) /\ Leads(t, t \o r, g, << >>, <<y>>, << >>)
    <3> HIDE DEF t
    <3> QED BY <2>1, <2>2, ReplyDecoded
  <2> HIDE DEF t, r
  <2>6. Leads(s, t \o r, g, << >> \o << >>, v \o <<y>>, << >> \o << >>)
    BY <2>1, <2>5, LeadsOn
  <2>7. Matches(v \o <<y>>, x \o <<w>>)
    BY <2>1, <2>5, MatchesConcat
  <2>8. x \o <<w>> = Append(x, w) /\ << >> \o << >> = << >> /\ Append(x, w) \in Seq(Words)
    OBVIOUS
  <2> QED BY <2>4, <2>5, <2>6, <2>7, <2>8
<1> HIDE DEF T
<1>3. \A x \in Seq(Words) : x \in T
  BY <1>1, <1>2, Longer
<1> QED BY <1>3 DEF T

\* The offer is two words.
LEMMA OfferDecoded ==
  \E e : /\ e.at = "data" /\ After(Offer, e) /\ Data(Offer) = << >> /\ Bodies(Offer, "frame") = << >>
         /\ Said(Offer) \in Seq(Words) /\ Len(Said(Offer)) = 2
<1> DEFINE s == << >>
           a == <<IAC, WILL, COM_PORT_OPTION>>
           b == <<IAC, DO, COM_PORT_OPTION>>
           d == TelnetDecoder
           v == <<WILL, COM_PORT_OPTION>>
           w == <<DO, COM_PORT_OPTION>>
<1>1. WILL \in Verbs /\ DO \in Verbs /\ COM_PORT_OPTION \in Byte /\ IAC \in Byte /\ d.at = "data"
  BY Codes DEF Verbs, TelnetDecoder
<1>2. After(s, d) /\ Data(s) = << >> /\ Said(s) = << >> /\ Bodies(s, "frame") = << >>
  BY AfterNone
<1>3. Offer = a \o b /\ s \o a = a /\ v \in Words /\ w \in Words
  BY <1>1 DEF Offer, Words
<1> HIDE DEF s, d
<1>4. PICK f : f.at = "data" /\ Leads(s, a, f, << >>, <<v>>, << >>)
  BY <1>1, <1>2, <1>3, WordDecoded
<1>5. After(a, f)
  BY <1>4 DEF Leads
<1> HIDE DEF a
<1>6. PICK g : g.at = "data" /\ Leads(a, a \o b, g, << >>, <<w>>, << >>)
  BY <1>1, <1>4, <1>5, WordDecoded
<1> HIDE DEF v, w, b
<1>7. Leads(s, Offer, g, << >> \o << >>, <<v>> \o <<w>>, << >> \o << >>)
  BY <1>2, <1>3, <1>4, <1>6, LeadsOn
<1> DEFINE x == <<v>> \o <<w>>
<1>8. << >> \o << >> = << >> /\ x \in Seq(Words) /\ Len(x) = 2 /\ << >> \o x = x
  BY <1>3
<1> HIDE DEF x
<1>9. After(Offer, g) /\ Data(Offer) = << >> /\ Bodies(Offer, "frame") = << >> /\ Said(Offer) = x
  BY <1>2, <1>7, <1>8 DEF Leads, Adding, Added, x
<1> QED BY <1>6, <1>8, <1>9

\* A reply to a request that has a well-formed reply is read as the frame it is.
LEMMA RfcReplyDecoded ==
  ASSUME NEW s, NEW d, After(s, d), d.at = "data", NEW command \in Byte, command < 155, NEW value \in Seq(Byte)
  PROVE  \E e, f : /\ e.at = "data" /\ f = <<COM_PORT_OPTION, command + 100>> \o value /\ f \in Seq(Byte)
                   /\ Leads(s, s \o RfcReply(command, value), e, << >>, << >>, <<f>>)
<1> DEFINE k == command + 100
           t == s \o <<IAC, SB>>
           u == t \o <<COM_PORT_OPTION, k>>
           w == EscapeIac(value)
           x == u \o w
           y == x \o <<IAC, SE>>
           h == <<COM_PORT_OPTION, k>>
<1>1. s \in Seq(Byte) /\ IAC \in Byte /\ SB \in Byte /\ SE \in Byte /\ COM_PORT_OPTION \in Byte
  BY Codes DEF After
<1>2. k \in Byte /\ k # IAC /\ ~(command > 155)
  BY DEF Byte, IAC
<1>3. w \in Seq(Byte)
  BY Codes, EscapeAppend
<1>4. RfcReply(command, value) = (<<IAC, SB, COM_PORT_OPTION, k>> \o w) \o <<IAC, SE>>
  BY <1>2 DEF RfcReply
<1> HIDE DEF k, w
<1>5. s \o RfcReply(command, value) = y
  <2> DEFINE a == <<IAC, SB>>
             b == <<COM_PORT_OPTION, k>>
             ab == <<IAC, SB, COM_PORT_OPTION, k>>
             c == <<IAC, SE>>
  <2>1. a \in Seq(Byte) /\ b \in Seq(Byte) /\ c \in Seq(Byte)
    BY <1>1, <1>2
  <2>2. a \o b = ab
    <3>1. a \o b = Append(Append(a, COM_PORT_OPTION), k)
      <4> HIDE DEF a
      <4> QED BY <1>1, <1>2, <2>1, ByByte
    <3>2. ab = Append(Append(a, COM_PORT_OPTION), k)
      <4> DEFINE z == <<IAC, SB, COM_PORT_OPTION>>
      <4>1. z = Append(a, COM_PORT_OPTION) /\ z \in Seq(Byte) /\ Len(z) = 3
        BY <1>1, Tuples
      <4>2. ab = Append(z, k)
        <5>1. ab \in Seq(Byte) /\ Len(ab) = 3 + 1 /\ ab[3 + 1] = k /\ 3 \in Nat
          BY <1>1, <1>2
        <5>2. \A i \in 1 .. 3 : z[i] = ab[i]
          OBVIOUS
        <5> HIDE DEF z, ab
        <5> QED BY <4>1, <5>1, <5>2, ListedNext
      <4> QED BY <4>1, <4>2
    <3> QED BY <3>1, <3>2
  <2> HIDE DEF a, b, c, ab
  <2>3. s \o ((ab \o w) \o c) = (((s \o a) \o b) \o w) \o c
    <3>1. a \o b \in Seq(Byte)
      BY <2>1
    <3>2. (s \o a) \o b = s \o ab
      <4>1. (s \o a) \o b = s \o (a \o b)
        BY <1>1, <2>1
      <4> QED BY <2>2, <4>1
    <3>3. ab \in Seq(Byte)
      BY <2>2, <3>1
    <3>4. ((s \o ab) \o w) \o c = s \o ((ab \o w) \o c)
      BY <1>1, <1>3, <2>1, <3>3
    <3> QED BY <3>2, <3>4
  <2> QED BY <1>4, <2>3 DEF a, b, c, ab
<1>6. PICK g : g.at = "subneg" /\ g.frame = << >> /\ Leads(s, t, g, << >>, << >>, << >>)
  <2> DEFINE e == Moved(d, "iac")
             g == [at |-> "subneg", verb |-> e.verb, frame |-> << >>]
  <2>1. e.at = "iac" /\ g.at = "subneg" /\ g.frame = << >>
    BY DEF Moved
  <2>2. Leads(s, Append(s, IAC), e, << >>, << >>, << >>)
    BY <1>1, LeadsFromData
  <2>3. After(Append(s, IAC), e)
    BY <2>2 DEF Leads
  <2> HIDE DEF e
  <2>4. Leads(Append(s, IAC), Append(Append(s, IAC), SB), g, << >>, << >>, << >>)
    BY <1>1, <2>1, <2>3, LeadsFromIac
  <2> HIDE DEF g
  <2>5. Leads(s, t, g, << >>, << >>, << >>)
    BY <1>1, <2>2, <2>4, LeadsTwice
  <2> QED BY <2>1, <2>5
<1>7. After(t, g)
  BY <1>6 DEF Leads
<1> HIDE DEF t
<1>8. PICK i : i.at = "subneg" /\ i.frame = h /\ Leads(t, u, i, << >>, << >>, << >>)
  <2> DEFINE e == Kept(g, "subneg", COM_PORT_OPTION)
             i == Kept(e, "subneg", k)
  <2>1. e.at = "subneg" /\ i.at = "subneg" /\ i.frame = Append(Append(g.frame, COM_PORT_OPTION), k)
    BY DEF Kept
  <2>2. COM_PORT_OPTION # IAC
    BY Codes
  <2>3. Leads(t, Append(t, COM_PORT_OPTION), e, << >>, << >>, << >>)
    BY <1>1, <1>6, <1>7, <2>2, LeadsFromSubneg
  <2>4. After(Append(t, COM_PORT_OPTION), e)
    BY <2>3 DEF Leads
  <2> HIDE DEF e
  <2>5. Leads(Append(t, COM_PORT_OPTION), Append(Append(t, COM_PORT_OPTION), k), i, << >>, << >>, << >>)
    BY <1>2, <2>1, <2>4, LeadsFromSubneg
  <2> HIDE DEF i
  <2>6. Leads(t, u, i, << >>, << >>, << >>)
    BY <1>1, <1>2, <1>7, <2>3, <2>5, LeadsTwice
  <2>7. Append(Append(<< >>, COM_PORT_OPTION), k) = h
    BY <1>1, <1>2, Pair
  <2> QED BY <1>6, <2>1, <2>6, <2>7
<1>9. After(u, i)
  BY <1>8 DEF Leads
<1> HIDE DEF u, h
<1>10. PICK j : j.at = "subneg" /\ j.frame = h \o value /\ Leads(u, x, j, << >>, << >>, << >>)
  BY <1>8, <1>9, EscapedInside DEF w
<1>11. After(x, j)
  BY <1>10 DEF Leads
<1> HIDE DEF x
<1>12. PICK e : e.at = "data" /\ Leads(x, y, e, << >>, << >>, <<j.frame>>)
  <2> DEFINE f == Moved(j, "subneg_iac")
             e == Moved(f, "data")
  <2>1. f.at = "subneg_iac" /\ e.at = "data" /\ f.frame = j.frame
    BY DEF Moved
  <2>2. Leads(x, Append(x, IAC), f, << >>, << >>, << >>)
    BY <1>1, <1>10, <1>11, LeadsFromSubneg
  <2>3. After(Append(x, IAC), f)
    BY <2>2 DEF Leads
  <2> HIDE DEF f
  <2>4. Leads(Append(x, IAC), Append(Append(x, IAC), SE), e, << >>, << >>, <<j.frame>>)
    BY <1>1, <2>1, <2>3, LeadsFromSubnegIac
  <2> HIDE DEF e
  <2>5. Leads(x, y, e, << >>, << >>, <<j.frame>>)
    BY <1>1, <1>11, <2>2, <2>4, LeadsTwice
  <2> QED BY <2>1, <2>5
<1> HIDE DEF y
<1>13. Leads(u, y, e, << >>, << >>, <<j.frame>>)
  BY <1>9, <1>10, <1>12, LeadsOnly
<1>14. Leads(t, y, e, << >>, << >>, <<j.frame>>)
  BY <1>7, <1>8, <1>13, LeadsOnly
<1>15. Leads(s, y, e, << >>, << >>, <<j.frame>>)
  BY <1>6, <1>14, LeadsOnly
<1>16. j.frame \in Seq(Byte)
  BY <1>11 DEF After, Decoders
<1> QED BY <1>5, <1>10, <1>12, <1>15, <1>16 DEF h, k

-----------------------------------------------------------------------------
(* The theorems about the wire format                                      *)

\* A new decoder that is fed a whole stream yields the data bytes and the frames the
\* reference finds in it.  (TelnetDecoder::feed)
THEOREM DecodesAsReference ==
  \A s \in Seq(Byte) : /\ FeedAll(Fresh, s).yield.payload = Data(s)
                       /\ FeedAll(Fresh, s).yield.frames = Bodies(s, "frame")
<1> SUFFICES ASSUME NEW s \in Seq(Byte)
             PROVE  /\ FeedAll(Fresh, s).yield.payload = Data(s)
                    /\ FeedAll(Fresh, s).yield.frames = Bodies(s, "frame")
  OBVIOUS
<1> DEFINE D == Run(Fresh, s)
<1>1. Runs(D, Fresh, s) /\ FeedAll(Fresh, s) = D[Len(s)]
  BY FreshTyped, RunRuns
<1>2. Reading(D, s)
  BY <1>1 DEF Reading
<1> HIDE DEF D
<1> QED BY <1>1, <1>2, Decodes

\* A decoder is after every stream it was fed.
LEMMA AfterAny ==
  ASSUME NEW s \in Seq(Byte)
  PROVE  After(s, FeedAll(Fresh, s).decoder)
<1> DEFINE e == Feed(TelnetDecoder, s).decoder
<1>1. After(<< >>, TelnetDecoder)
  BY AfterNone
<1>2. PICK words : Took(<< >>, TelnetDecoder, s, words)
  BY <1>1, FeedReads
<1>3. << >> \o s = s
  OBVIOUS
<1>4. After(<< >> \o s, e)
  BY <1>2 DEF Took, Leads
<1>5. e = FeedAll(Fresh, s).decoder
  BY DEF Feed, Fresh, From
<1> QED BY <1>3, <1>4, <1>5

\* Reads may cut the stream anywhere, in an escape, a negotiation or a subnegotiation: the
\* decoder carried over yields, from the bytes of the read, what these add to the stream.
\* (TelnetDecoder::feed, handle_connection)
THEOREM ReadsMayCutAnywhere ==
  \A s, chunk \in Seq(Byte) :
    LET m == Feed(FeedAll(Fresh, s).decoder, chunk)
    IN /\ m.decoder = FeedAll(Fresh, s \o chunk).decoder
       /\ Data(s \o chunk) = Data(s) \o m.yield.payload
       /\ Bodies(s \o chunk, "frame") = Bodies(s, "frame") \o m.yield.frames
<1> SUFFICES ASSUME NEW s \in Seq(Byte), NEW chunk \in Seq(Byte),
                    NEW m, m = Feed(FeedAll(Fresh, s).decoder, chunk)
             PROVE  /\ m.decoder = FeedAll(Fresh, s \o chunk).decoder
                    /\ Data(s \o chunk) = Data(s) \o m.yield.payload
                    /\ Bodies(s \o chunk, "frame") = Bodies(s, "frame") \o m.yield.frames
  OBVIOUS
<1> DEFINE d == FeedAll(Fresh, s).decoder
<1>1. PICK words : Took(s, d, chunk, words)
  BY AfterAny, FeedReads
<1> HIDE DEF d
<1>2. Leads(s, s \o chunk, m.decoder, m.yield.payload, words, m.yield.frames)
  BY <1>1 DEF Took, d
<1> DEFINE t == s \o chunk
<1> HIDE DEF t
<1>3. After(t, m.decoder) /\ Added(Data(t), Data(s), m.yield.payload)
      /\ Added(Bodies(t, "frame"), Bodies(s, "frame"), m.yield.frames)
  BY <1>2 DEF t, Leads, Adding
<1> QED BY <1>3 DEF t, After, Added

\* What goes out is bytes.
LEMMA EscapedBytes ==
  ASSUME NEW bytes \in Seq(Byte)
  PROVE  EscapeIac(bytes) \in Seq(Byte)
  BY Codes, EscapeAppend

\* A reply is bytes.
LEMMA ReplyBytes ==
  ASSUME NEW command \in Byte, command < 155, NEW value \in Seq(Byte)
  PROVE  << >> \o RfcReply(command, value) = RfcReply(command, value)
<1> DEFINE k == command + 100
           h == <<IAC, SB, COM_PORT_OPTION, k>>
           w == EscapeIac(value)
           z == <<IAC, SE>>
           V == Seq(Byte)
<1>1. k \in Byte /\ ~(command > 155)
  BY DEF Byte
<1>2. h \in V /\ z \in V
  BY <1>1, Codes
<1>3. w \in V
  BY EscapedBytes
<1>4. RfcReply(command, value) = (h \o w) \o z
  BY <1>1 DEF RfcReply
<1> HIDE DEF h, w, z
<1>5. (h \o w) \o z \in V
  BY <1>2, <1>3
<1>6. \A s \in V : << >> \o s = s
  OBVIOUS
<1> QED BY <1>4, <1>5, <1>6

\* Escaped bytes are read as those bytes, and as nothing else, whatever they are.
\* (escape_iac)
THEOREM EscapedIsRead ==
  \A bytes \in Seq(Byte) : /\ Data(EscapeIac(bytes)) = bytes
                           /\ Said(EscapeIac(bytes)) = << >>
                           /\ Bodies(EscapeIac(bytes), "frame") = << >>
<1> SUFFICES ASSUME NEW bytes \in Seq(Byte)
             PROVE  /\ Data(EscapeIac(bytes)) = bytes
                    /\ Said(EscapeIac(bytes)) = << >>
                    /\ Bodies(EscapeIac(bytes), "frame") = << >>
  OBVIOUS
<1> DEFINE t == EscapeIac(bytes)
<1>1. After(<< >>, TelnetDecoder) /\ TelnetDecoder.at = "data"
  BY AfterNone DEF TelnetDecoder
<1>2. PICK e : Leads(<< >>, << >> \o t, e, bytes, << >>, << >>)
  BY <1>1, EscapedData
<1>3. t \in Seq(Byte) /\ << >> \in Seq(Byte)
  BY EscapedBytes, Empty
<1> HIDE DEF t
<1>4. << >> \o t = t /\ << >> \o bytes = bytes
  BY <1>3
<1>5. /\ Added(Data(t), << >>, bytes) /\ Added(Said(t), << >>, << >>)
      /\ Added(Bodies(t, "frame"), << >>, << >>)
  BY <1>2, <1>4, AfterNone DEF Leads, Adding
<1>6. << >> \o << >> = << >>
  OBVIOUS
<1> QED BY <1>4, <1>5, <1>6 DEF Added, t

\* The reply to a command below 155 is read as one frame, the command and its value, and
\* as nothing else, whatever bytes the value has.  (rfc_reply)
THEOREM ReplyIsRead ==
  \A command \in Byte, value \in Seq(Byte) : command < 155 =>
    /\ Bodies(RfcReply(command, value), "frame") = <<<<COM_PORT_OPTION, command + 100>> \o value>>
    /\ Data(RfcReply(command, value)) = << >>
    /\ Said(RfcReply(command, value)) = << >>
<1> SUFFICES ASSUME NEW command \in Byte, NEW value \in Seq(Byte), command < 155
             PROVE  /\ Bodies(RfcReply(command, value), "frame") = <<<<COM_PORT_OPTION, command + 100>> \o value>>
                    /\ Data(RfcReply(command, value)) = << >>
                    /\ Said(RfcReply(command, value)) = << >>
  OBVIOUS
<1> DEFINE t == RfcReply(command, value)
           none == << >>
<1>1. After(none, TelnetDecoder) /\ TelnetDecoder.at = "data" /\ Data(none) = none /\ Said(none) = none
      /\ Bodies(none, "frame") = none
  BY AfterNone DEF TelnetDecoder
<1>2. PICK e, f : /\ f = <<COM_PORT_OPTION, command + 100>> \o value
                  /\ Leads(none, none \o t, e, none, none, <<f>>)
  BY <1>1, RfcReplyDecoded
<1>3. none \o t = t
  BY ReplyBytes
<1>4. <<f>> \in Seq(Seq(Byte))
  BY <1>2 DEF Leads, Adding
<1> HIDE DEF t
<1>5. none \o <<f>> = <<f>> /\ none \o none = none
  BY <1>4
<1> HIDE DEF none
<1>6. Added(Data(t), none, none) /\ Added(Said(t), none, none) /\ Added(Bodies(t, "frame"), none, <<f>>)
  BY <1>1, <1>2, <1>3 DEF Leads, Adding
<1> QED BY <1>2, <1>5, <1>6 DEF Added, t, none

=============================================================================
