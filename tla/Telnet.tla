------------------------------- MODULE Telnet -------------------------------
(***************************************************************************)
(* The wire format of the RFC 2217 endpoint (src/client/rfc2217.rs): the   *)
(* decoder, one byte at a time as the code runs it, the escaping of what   *)
(* goes out, and a reference that reads a whole stream at once, by tokens. *)
(* FrameAssembler (src/policy.rs), the other byte-by-byte machine of the   *)
(* transmit path, is here too.                                             *)
(***************************************************************************)
EXTENDS Naturals, Sequences, SequencesExt

Byte == 0..255

IAC  == 255
DONT == 254
DO   == 253
WONT == 252
WILL == 251
SB   == 250
SE   == 240
Verbs == {WILL, WONT, DO, DONT}

COM_PORT_OPTION == 44

-----------------------------------------------------------------------------
(* The decoder                                                             *)

\* What it carries from one read to the next, and what one read yields.
TelnetDecoder == [at |-> "data", verb |-> 0, frame |-> << >>]
Nothing       == [payload |-> << >>, replies |-> << >>, frames |-> << >>]

NegotiationReply(verb, option) ==
  CASE verb = WILL /\ option = COM_PORT_OPTION -> <<IAC, DO, option>>
    [] verb = DO /\ option = COM_PORT_OPTION   -> <<IAC, WILL, option>>
    [] verb \in {WONT, DONT} \/ option # COM_PORT_OPTION ->
         <<IAC, IF verb \in {WILL, WONT} THEN DONT ELSE WONT, option>>

\* One iteration of feed: m is the decoder and what this read has yielded so far.
FeedByte(m, byte) ==
  LET d == m.decoder
      Goes(at)    == [m EXCEPT !.decoder.at = at]
      Yields(k, s) == [m EXCEPT !.decoder.at = "data", !.yield[k] = @ \o s]
      Keeps(at)   == [m EXCEPT !.decoder.at = at, !.decoder.frame = Append(@, byte)]
  IN CASE d.at = "data" /\ byte = IAC    -> Goes("iac")
       [] d.at = "data" /\ byte # IAC    -> Yields("payload", <<byte>>)
       [] d.at = "iac" /\ byte = IAC     -> Yields("payload", <<byte>>)
       [] d.at = "iac" /\ byte \in Verbs -> [m EXCEPT !.decoder.at = "negotiation", !.decoder.verb = byte]
       [] d.at = "iac" /\ byte = SB      -> [m EXCEPT !.decoder.at = "subneg", !.decoder.frame = << >>]
       [] d.at = "iac" /\ byte \notin Verbs \cup {IAC, SB} -> Goes("data")
       [] d.at = "negotiation"           -> Yields("replies", NegotiationReply(d.verb, byte))
       [] d.at = "subneg" /\ byte = IAC  -> Goes("subneg_iac")
       [] d.at = "subneg" /\ byte # IAC  -> Keeps("subneg")
       [] d.at = "subneg_iac" /\ byte = IAC -> Keeps("subneg")
       [] d.at = "subneg_iac" /\ byte = SE  -> Yields("frames", <<d.frame>>)
       [] d.at = "subneg_iac" /\ byte \notin {IAC, SE} -> Goes("data")

FeedAll(m, bytes) ==
  LET after[i \in 0..Len(bytes)] == IF i = 0 THEN m ELSE FeedByte(after[i - 1], bytes[i])
  IN after[Len(bytes)]

\* A mutant that starts every read afresh.
FeedAfresh(decoder, bytes) == FeedAll([decoder |-> TelnetDecoder, yield |-> Nothing], bytes)

Feed(decoder, bytes) == FeedAll([decoder |-> decoder, yield |-> Nothing], bytes)

-----------------------------------------------------------------------------
(* What goes out                                                           *)

EscapeIac(bytes) == FlattenSeq([i \in DOMAIN bytes |-> IF bytes[i] = IAC THEN <<IAC, IAC>> ELSE <<bytes[i]>>])

\* A mutant that does not escape the value of a reply.
RfcReplyRaw(command, value) ==
  <<IAC, SB, COM_PORT_OPTION, command + 100>> \o value \o <<IAC, SE>>

\* command.saturating_add(100), and only the value is escaped.
RfcReply(command, value) ==
  <<IAC, SB, COM_PORT_OPTION, IF command > 155 THEN 255 ELSE command + 100>>
    \o EscapeIac(value) \o <<IAC, SE>>

Offer == <<IAC, WILL, COM_PORT_OPTION, IAC, DO, COM_PORT_OPTION>>

-----------------------------------------------------------------------------
(* Frames of a stream                                                      *)

Assembler(buf) == [buf |-> buf, frames |-> << >>, overflow |-> FALSE]

Full(buf, max) == Len(buf) >= max

\* One iteration of push.  A frame that is full before its delimiter forgets itself, the
\* frames completed before it in this chunk and the rest of the chunk.
PushByte(a, byte, delim, max) ==
  CASE a.overflow                        -> a
    [] ~a.overflow /\ Full(a.buf, max)   -> [Assembler(<< >>) EXCEPT !.overflow = TRUE]
    [] ~a.overflow /\ ~Full(a.buf, max)  ->
         IF byte = delim THEN [a EXCEPT !.buf = << >>, !.frames = Append(@, Append(a.buf, byte))]
                         ELSE [a EXCEPT !.buf = Append(@, byte)]

Push(buf, bytes, delim, max) ==
  LET after[i \in 0..Len(bytes)] ==
        IF i = 0 THEN Assembler(buf) ELSE PushByte(after[i - 1], bytes[i], delim, max)
  IN after[Len(bytes)]

-----------------------------------------------------------------------------
(* The reference: tokens of a whole stream                                 *)

\* The IACs in a row that end at i, from the first byte of a subnegotiation on.
EndsPair(s, from, i) ==
  \E j \in from..i : /\ \A x \in j..i : s[x] = IAC
                     /\ j = from \/ s[j - 1] # IAC
                     /\ (i - j) % 2 = 0

\* Where the subnegotiation that starts after from - 1 is over: at the first IAC that
\* escapes no other one and is escaped by none, and the byte after it.
Closings(s, from) ==
  {i \in from..(Len(s) - 1) : EndsPair(s, from, i) /\ s[i + 1] # IAC}

\* IAC IAC stands for one IAC.
Unescaped(s, from, to) ==
  FlattenSeq([k \in 1..(to - from + 1) |->
                IF EndsPair(s, from, from + k - 1) THEN << >> ELSE <<s[from + k - 1]>>])

NoToken == [kind |-> "none", body |-> << >>, length |-> 1]

\* The subnegotiation whose IAC SB is at i.
SubnegAt(s, i) ==
  LET over == Closings(s, i + 2)
      last == Min(over)
  IN IF over = {} THEN [NoToken EXCEPT !.length = Len(s)]
     ELSE [kind   |-> IF s[last + 1] = SE THEN "frame" ELSE "none",
           body   |-> Unescaped(s, i + 2, last - 1),
           length |-> last + 2 - i]

\* The token that starts at i; one that is cut off by the end of s is no token.
TokenAt(s, i) ==
  LET has(n) == i + n <= Len(s)
  IN CASE s[i] # IAC -> [kind |-> "data", body |-> <<s[i]>>, length |-> 1]
       [] s[i] = IAC /\ ~has(1) -> [NoToken EXCEPT !.length = 1]
       [] s[i] = IAC /\ has(1) /\ s[i + 1] = IAC ->
            [kind |-> "data", body |-> <<IAC>>, length |-> 2]
       [] s[i] = IAC /\ has(1) /\ s[i + 1] \in Verbs ->
            IF has(2) THEN [kind |-> "verb", body |-> <<s[i + 1], s[i + 2]>>, length |-> 3]
                      ELSE [NoToken EXCEPT !.length = 2]
       [] s[i] = IAC /\ has(1) /\ s[i + 1] = SB -> SubnegAt(s, i)
       [] s[i] = IAC /\ has(1) /\ s[i + 1] \notin Verbs \cup {IAC, SB} ->
            [NoToken EXCEPT !.length = 2]

\* The bodies of the tokens of one kind, in order.
Bodies(s, kind) ==
  LET from[i \in 1..(2 * Len(s) + 3)] ==
        IF i > Len(s) THEN << >>
        ELSE (IF TokenAt(s, i).kind = kind THEN <<TokenAt(s, i).body>> ELSE << >>)
               \o from[i + TokenAt(s, i).length]
  IN from[1]

Data(s) == FlattenSeq(Bodies(s, "data"))
Said(s) == Bodies(s, "verb")

=============================================================================
