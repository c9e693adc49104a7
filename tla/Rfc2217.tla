------------------------------ MODULE Rfc2217 -------------------------------
(***************************************************************************)
(* The RFC 2217 endpoint (src/client/rfc2217.rs) on top of the broker: each *)
(* connection decodes what its peer sends, hands payload to client_tx,     *)
(* where FrameAssembler cuts it into frames, and carries out the line      *)
(* settings and control lines its peer asks for, one after the other, each *)
(* under a lease of its own and through the owner thread.                  *)
(*                                                                         *)
(* Reads cut the stream anywhere, the port comes and goes, other clients   *)
(* take the lease, and the owner may be slow enough for a request to be    *)
(* given up while it is still in the control channel.                      *)
(***************************************************************************)
EXTENDS Telnet, FiniteSets

CONSTANTS
  Conns,       \* connections of the endpoint
  Scenarios,   \* what the peers send, where reads may cut it, what is allowed and what goes wrong
  Initial,     \* initial_settings of the listener: baud, data bits, parity, stop bits
  Baud,        \* baud rates (the four bytes of the request) that are valid
  Delim,       \* frame_delim
  MaxFrame,    \* max_frame_bytes
  Signature,   \* the text that names the server
  ControlCap   \* capacity of the serial_control channel

\* The commands that need the owner; the line settings are 1..4, in the order in which
\* apply_serial_settings sets them.
Line == 1..4
SET_BAUDRATE == 1
SET_DATASIZE == 2
SET_PARITY   == 3
SET_STOPSIZE == 4
SET_CONTROL  == 5
SIGNATURE    == 0

ASSUME EndpointAssumption ==
  ControlCap \in Nat \ {0} /\ Initial = [field \in Line |-> Initial[field]]

\* What is read, forwarded and said consists of bytes.
ASSUME StreamAssumption ==
  /\ \A s \in Scenarios :
       s.streams \in [Conns -> Seq(Byte)] /\ s.chunk \in Seq(Byte) /\ s.cuts \subseteq Nat
  /\ Signature \in Seq(Byte) /\ MaxFrame \in Nat

\* Flow control of the client's own stream, masks, purge: acknowledged and ignored.
Ignored == 8..12

VARIABLES
  scenario,   \* the scenario, chosen once
  read,       \* how many bytes of its peer's stream a connection has read
  conn,       \* handle_connection: its place, decoder, settings and the request it makes
  given,      \* payload given to client_tx
  admitted,   \* what client_tx admitted of it, since the last overflow
  frames,     \* frames completed for the device queue, since the last overflow
  out,        \* what was written to the peer
  heard,      \* device bytes a connection has forwarded
  lease,      \* token of the live write lease, 0 when there is none
  leases,     \* leases granted so far
  control,    \* the serial_control channel
  port,       \* "open", "closed" or, between drop_pending_controls and open_port, "opening"
  epoch,      \* connection_epoch
  line,       \* the settings of the open handle
  config,     \* the owner's RealPortConfig
  done        \* token of the last settings applied, whether a later try failed halfway, and
              \* the epochs a request was checked in and carried out in, where they differ

peerVars == <<scenario, read, given, admitted, frames, out, heard>>
hubVars  == <<lease, leases, control, port, epoch, line, config, done>>
vars == <<peerVars, conn, hubVars>>

NewConn == [pc |-> "new", decoder |-> TelnetDecoder, yield |-> Nothing, settings |-> Initial,
            buf |-> << >>, token |-> 0, epoch |-> 0, ack |-> "none", confirmed |-> 0]

Init ==
  /\ scenario \in Scenarios
  /\ read = [c \in Conns |-> 0]
  /\ conn = [c \in Conns |-> NewConn]
  /\ given = [c \in Conns |-> << >>]
  /\ admitted = [c \in Conns |-> << >>]
  /\ frames = [c \in Conns |-> << >>]
  /\ out = [c \in Conns |-> << >>]
  /\ heard = [c \in Conns |-> << >>]
  /\ lease = 0 /\ leases = 0
  /\ control = << >>
  /\ port = "open" /\ epoch = 1
  /\ line = Initial /\ config = Initial
  /\ done = [applied |-> 0, torn |-> FALSE, crossed |-> {}]

Stream(c) == scenario.streams[c]
Taken(c)  == SubSeq(Stream(c), 1, read[c])

Goes(c, pc) == conn' = [conn EXCEPT ![c].pc = pc]

-----------------------------------------------------------------------------
(* The select of handle_connection                                         *)

\* A connection is accepted and offers the option.
Accept(c) ==
  /\ conn[c].pc = "new" /\ Stream(c) # << >>
  /\ Goes(c, "select")
  /\ out' = [out EXCEPT ![c] = Offer]
  /\ UNCHANGED <<scenario, read, given, admitted, frames, heard, hubVars>>

\* from_broker.recv() yields a chunk of the device.
Forward(c) ==
  /\ conn[c].pc = "select" /\ heard[c] = << >> /\ scenario.chunk # << >>
  /\ heard' = [heard EXCEPT ![c] = scenario.chunk]
  /\ out' = [out EXCEPT ![c] = @ \o EscapeIac(scenario.chunk)]
  /\ UNCHANGED <<scenario, read, conn, given, admitted, frames, hubVars>>

\* reader.read() yields what is there up to one of the places where the stream is cut.
Receive(c) ==
  /\ conn[c].pc = "select"
  /\ \E upTo \in scenario.cuts :
       /\ read[c] < upTo /\ upTo <= Len(Stream(c))
       /\ read' = [read EXCEPT ![c] = upTo]
       /\ LET m == Feed(conn[c].decoder, SubSeq(Stream(c), read[c] + 1, upTo))
          IN conn' = [conn EXCEPT ![c].pc = "replies", ![c].decoder = m.decoder, ![c].yield = m.yield]
  /\ UNCHANGED <<scenario, given, admitted, frames, out, heard, hubVars>>

\* The peer closes, or a write to it fails: the future ends where it is.
Closes(c) ==
  /\ conn[c].pc \in {"select", "replies", "answer"}
  /\ Goes(c, "closed")
  /\ UNCHANGED <<peerVars, hubVars>>

Replies(c) ==
  /\ conn[c].pc = "replies"
  /\ out' = [out EXCEPT ![c] = @ \o conn[c].yield.replies]
  /\ Goes(c, "payload")
  /\ UNCHANGED <<scenario, read, given, admitted, frames, heard, hubVars>>

-----------------------------------------------------------------------------
(* Payload                                                                 *)

\* The endpoint writes without a lease token, so a live lease keeps it out (admit_write).
MayWrite == "write" \in scenario.can /\ port = "open" /\ lease = 0

\* client_tx refuses: no permission, no port, or a live lease.
\* The bytes are gone, the partial frame of earlier ones stays.
Denied(c) ==
  /\ conn[c].pc = "payload" /\ conn[c].yield.payload # << >>
  /\ ~MayWrite
  /\ Goes(c, "frames")
  /\ given' = [given EXCEPT ![c] = @ \o conn[c].yield.payload]
  /\ UNCHANGED <<scenario, read, admitted, frames, out, heard, hubVars>>

\* client_tx admits them and the assembler cuts them into frames.  Nothing but a push
\* touches the partial frame that stays, the loss of the port least of all.
Admit(c) ==
  LET bytes == conn[c].yield.payload
      a     == Push(conn[c].buf, bytes, Delim, MaxFrame)
  IN /\ conn[c].pc = "payload"
     /\ bytes # << >> => MayWrite
     /\ given' = [given EXCEPT ![c] = @ \o bytes]
     /\ admitted' = [admitted EXCEPT ![c] = IF a.overflow THEN << >> ELSE @ \o bytes]
     /\ frames' = [frames EXCEPT ![c] = IF a.overflow THEN << >> ELSE @ \o a.frames]
     /\ conn' = [conn EXCEPT ![c].pc = "frames", ![c].buf = a.buf]
     /\ UNCHANGED <<scenario, read, out, heard, hubVars>>

-----------------------------------------------------------------------------
(* Subnegotiations                                                         *)

Frame(c)   == Head(conn[c].yield.frames)
Command(f) == f[2]
Value(f)   == SubSeq(f, 3, Len(f))
ForUs(f)   == Len(f) >= 2 /\ f[1] = COM_PORT_OPTION

\* How a parity byte is read; mark and space are refused before anything is asked.
Parity(v) == IF v \in {1, 2} THEN v ELSE 0

\* The requests handle_subnegotiation takes to the owner thread.
AsksOwner(f) ==
  /\ ForUs(f)
  /\ \/ Command(f) = SET_BAUDRATE /\ Len(Value(f)) = 4
     \/ Len(Value(f)) = 1 /\ \/ Command(f) = SET_DATASIZE
                             \/ Command(f) = SET_PARITY   /\ Value(f)[1] \notin {3, 4}
                             \/ Command(f) = SET_STOPSIZE /\ Value(f)[1] \in {1, 2}
                             \/ Command(f) = SET_CONTROL  /\ Value(f)[1] \in 1..4

\* What it answers itself: its name, requests it ignores or refuses by repeating them
\* (rfc_error_reply), and an empty value for what it does not know.
OwnAnswer(f) ==
  CASE Command(f) = SIGNATURE -> Signature
    [] Command(f) \in Ignored -> Value(f)
    [] Command(f) \in {SET_PARITY, SET_STOPSIZE, SET_CONTROL} /\ Len(Value(f)) = 1 -> Value(f)
    [] Command(f) \notin {SIGNATURE, SET_PARITY, SET_STOPSIZE, SET_CONTROL} \cup Ignored
       \/ (Command(f) \in {SET_PARITY, SET_STOPSIZE, SET_CONTROL} /\ Len(Value(f)) # 1) -> << >>

\* Settings with the one field changed that the command names.
Wanted(settings, f) ==
  LET v == Value(f)
  IN [settings EXCEPT ![Command(f)] =
        CASE Command(f) = SET_BAUDRATE -> v
          [] Command(f) = SET_PARITY   -> Parity(v[1])
          [] Command(f) \in {SET_DATASIZE, SET_STOPSIZE} -> v[1]]

\* SerialSettings::validate.
Valid(s) == s[SET_BAUDRATE] \in Baud /\ s[SET_DATASIZE] \in 5..8

Answers(c, value) ==
  /\ out' = [out EXCEPT ![c] = IF ForUs(Frame(c)) THEN @ \o RfcReply(Command(Frame(c)), value) ELSE @]
  /\ conn' = [conn EXCEPT ![c].pc = "frames", ![c].yield.frames = Tail(@), ![c].ack = "none"]
  /\ UNCHANGED <<scenario, read, given, admitted, frames, heard, hubVars>>

AnswersItself(c) ==
  /\ conn[c].pc = "frames" /\ conn[c].yield.frames # << >>
  /\ ~AsksOwner(Frame(c))
  /\ Answers(c, IF ForUs(Frame(c)) THEN OwnAnswer(Frame(c)) ELSE << >>)

\* configure_with_lease and control_with_lease: not allowed, or somebody has the lease.
Unleased(c) ==
  /\ conn[c].pc = "frames" /\ conn[c].yield.frames # << >>
  /\ AsksOwner(Frame(c))
  /\ "control" \notin scenario.can \/ lease # 0
  /\ conn' = [conn EXCEPT ![c].pc = "answer", ![c].ack = "err"]
  /\ UNCHANGED <<peerVars, hubVars>>

AcquireLock(c) ==
  /\ conn[c].pc = "frames" /\ conn[c].yield.frames # << >>
  /\ AsksOwner(Frame(c))
  /\ "control" \in scenario.can /\ lease = 0
  /\ lease' = leases + 1 /\ leases' = leases + 1
  /\ conn' = [conn EXCEPT ![c].pc = "request", ![c].token = leases + 1]
  /\ UNCHANGED <<peerVars, control, port, epoch, line, config, done>>

\* The whole batch of this read has been dealt with.
ReadDone(c) ==
  /\ conn[c].pc = "frames" /\ conn[c].yield.frames = << >>
  /\ conn' = [conn EXCEPT ![c].pc = "select", ![c].yield = Nothing]
  /\ UNCHANGED <<peerVars, hubVars>>

\* The first critical section of serial_configure and serial_control; the epoch it saw
\* is only for the record.
Allowed(c) ==
  /\ Command(Frame(c)) \in Line => Valid(Wanted(conn[c].settings, Frame(c)))
  /\ port = "open" /\ lease = conn[c].token

Request(c) ==
  /\ conn[c].pc = "request"
  /\ conn' = [conn EXCEPT ![c].pc = IF Allowed(c) THEN "send" ELSE "release",
                          ![c].ack = IF Allowed(c) THEN "none" ELSE "err",
                          ![c].epoch = epoch]
  /\ UNCHANGED <<peerVars, hubVars>>

\* The settings go with the request; a control line is just its command.
SendControl(c) ==
  /\ conn[c].pc = "send" /\ Len(control) < ControlCap
  /\ control' = Append(control, [conn |-> c, token |-> conn[c].token, epoch |-> conn[c].epoch,
       command |-> Command(Frame(c)),
       settings |-> IF Command(Frame(c)) \in Line THEN Wanted(conn[c].settings, Frame(c)) ELSE config])
  /\ Goes(c, "wait")
  /\ UNCHANGED <<peerVars, lease, leases, port, epoch, line, config, done>>

\* Either deadline of the call passes; what is in the channel stays there.
TimesOut(c) ==
  /\ conn[c].pc \in {"send", "wait"} /\ conn[c].ack = "none"
  /\ conn' = [conn EXCEPT ![c].pc = "release", ![c].ack = "err"]
  /\ UNCHANGED <<peerVars, hubVars>>

Answered(c) ==
  /\ conn[c].pc = "wait" /\ conn[c].ack # "none"
  /\ Goes(c, "release")
  /\ UNCHANGED <<peerVars, hubVars>>

\* A mutant that remembers the settings whatever came of them.
ReleaseOptimistic(c) ==
  /\ conn[c].pc = "release"
  /\ lease' = IF lease = conn[c].token THEN 0 ELSE lease
  /\ conn' = [conn EXCEPT
       ![c].pc = "answer",
       ![c].settings = IF Command(Frame(c)) \in Line THEN Wanted(conn[c].settings, Frame(c)) ELSE @,
       ![c].confirmed = IF conn[c].ack = "ok" /\ Command(Frame(c)) \in Line THEN conn[c].token ELSE @]
  /\ UNCHANGED <<peerVars, leases, control, port, epoch, line, config, done>>

\* A mutant that returns early with an error.
ReleaseUnlessRefused(c) ==
  /\ conn[c].pc = "release"
  /\ lease' = IF lease = conn[c].token /\ conn[c].ack = "ok" THEN 0 ELSE lease
  /\ conn' = [conn EXCEPT ![c].pc = "answer"]
  /\ UNCHANGED <<peerVars, leases, control, port, epoch, line, config, done>>

\* release_lock (which only removes this lease) and, after success, the new settings.
ReleaseLock(c) ==
  LET kept == conn[c].ack = "ok" /\ Command(Frame(c)) \in Line
  IN /\ conn[c].pc = "release"
     /\ lease' = IF lease = conn[c].token THEN 0 ELSE lease
     /\ conn' = [conn EXCEPT ![c].pc = "answer",
                             ![c].settings = IF kept THEN Wanted(conn[c].settings, Frame(c)) ELSE @,
                             ![c].confirmed = IF kept THEN conn[c].token ELSE @]
     /\ UNCHANGED <<peerVars, leases, control, port, epoch, line, config, done>>

\* The reply repeats the request, or is empty when it failed.
Answer(c) ==
  /\ conn[c].pc = "answer"
  /\ Answers(c, IF conn[c].ack = "ok" THEN Value(Frame(c)) ELSE << >>)

-----------------------------------------------------------------------------
(* The owner thread, and everybody else                                    *)

Crosses(e) == IF e.epoch = epoch THEN done.crossed ELSE done.crossed \cup {<<e.epoch, epoch>>}

Acknowledge(e, ack) ==
  conn' = IF conn[e.conn].pc = "wait" /\ conn[e.conn].token = e.token
          THEN [conn EXCEPT ![e.conn].ack = ack] ELSE conn

\* io_loop takes a Configure: the settings are set one by one, any of which may fail
\* (n is how many took); only if all did does the owner keep them for the next open.
ApplySettings ==
  LET e == Head(control) IN
  /\ port = "open" /\ control # << >> /\ e.command \in Line
  /\ \E n \in 0..4, ok \in BOOLEAN :
       /\ ok => n = 4
       /\ ok \/ scenario.faults > 0
       /\ line' = [i \in Line |-> IF i <= n THEN e.settings[i] ELSE line[i]]
       /\ config' = IF ok THEN e.settings ELSE config
       /\ done' = [applied |-> IF ok THEN e.token ELSE done.applied, torn |-> ~ok, crossed |-> Crosses(e)]
       /\ Acknowledge(e, IF ok THEN "ok" ELSE "err")
  /\ control' = Tail(control)
  /\ UNCHANGED <<peerVars, lease, leases, port, epoch>>

\* apply_control: one physical line.
ApplyControl ==
  LET e == Head(control) IN
  /\ port = "open" /\ control # << >> /\ e.command = SET_CONTROL
  /\ \E ok \in BOOLEAN :
       /\ ok \/ scenario.faults > 0
       /\ Acknowledge(e, IF ok THEN "ok" ELSE "err")
  /\ done' = [done EXCEPT !.crossed = Crosses(e)]
  /\ control' = Tail(control)
  /\ UNCHANGED <<peerVars, lease, leases, port, epoch, line, config>>

\* The connection is lost; requests stay in the channel.
PortLost ==
  /\ port = "open" /\ epoch <= scenario.faults
  /\ port' = "closed"
  /\ UNCHANGED <<peerVars, conn, lease, leases, control, epoch, line, config, done>>

\* drop_pending_controls, before every try to open the port.
Drain ==
  /\ port \in {"closed", "opening"}
  /\ port' = "opening"
  /\ control' = << >>
  /\ conn' = [c \in Conns |->
       IF conn[c].pc = "wait" /\ \E e \in ToSet(control) : e.conn = c /\ e.token = conn[c].token
       THEN [conn[c] EXCEPT !.ack = "err"] ELSE conn[c]]
  /\ UNCHANGED <<peerVars, lease, leases, epoch, line, config, done>>

\* open_port succeeds, with what the owner was last told to use.
Reopen ==
  /\ port = "opening"
  /\ port' = "open" /\ epoch' = epoch + 1
  /\ line' = config /\ done' = [done EXCEPT !.torn = FALSE]
  /\ UNCHANGED <<peerVars, conn, lease, leases, control, config>>

\* Another client takes the lease; any lease may run out or be given back.
OtherAcquires ==
  /\ lease = 0 /\ leases < scenario.faults
  /\ lease' = leases + 1 /\ leases' = leases + 1
  /\ UNCHANGED <<peerVars, conn, control, port, epoch, line, config, done>>

LeaseEnds ==
  /\ lease # 0 /\ scenario.faults > 0
  /\ lease' = 0
  /\ UNCHANGED <<peerVars, conn, leases, control, port, epoch, line, config, done>>

-----------------------------------------------------------------------------

\* What a connection does without its peer; its deadlines always come.
Proceeds(c) ==
  \/ Denied(c) \/ Admit(c) \/ Unleased(c) \/ AcquireLock(c) \/ ReadDone(c)
  \/ Request(c) \/ SendControl(c) \/ TimesOut(c) \/ Answered(c) \/ ReleaseLock(c)

\* What needs the peer to send, or to take what is written to it.
WithPeer(c) ==
  \/ Accept(c) \/ Forward(c) \/ Receive(c) \/ Closes(c) \/ Replies(c)
  \/ AnswersItself(c) \/ Answer(c)

Owner == ApplySettings \/ ApplyControl \/ PortLost \/ Drain \/ Reopen

Next ==
  \/ \E c \in Conns : Proceeds(c) \/ WithPeer(c)
  \/ Owner \/ OtherAcquires \/ LeaseEnds

Spec == Init /\ [][Next]_vars

\* Tasks are polled and timers fire; the owner, the port and the peers owe nothing.
FairSpec == Spec /\ \A c \in Conns : WF_vars(Proceeds(c))

-----------------------------------------------------------------------------
(* Properties                                                              *)

Pcs == {"new", "select", "replies", "payload", "frames", "request", "send", "wait",
        "release", "answer", "closed"}

TypeOK ==
  /\ \A c \in Conns : conn[c].pc \in Pcs /\ conn[c].ack \in {"none", "ok", "err"}
                      /\ DOMAIN conn[c].settings = Line
  /\ lease \in {0} \cup 1..leases
  /\ Len(control) <= ControlCap
  /\ port \in {"open", "closed", "opening"} /\ epoch \in Nat
  /\ DOMAIN line = Line /\ DOMAIN config = Line

\* Whatever the peer sends and wherever reads cut it: the payload handed on, and the
\* frames cut from what was admitted, are the bytes of the stream.
\* (TelnetDecoder::feed, FrameAssembler::push)
DecodesExactly ==
  \A c \in Conns :
    /\ conn[c].pc = "select" => given[c] = Data(Taken(c))
    /\ FlattenSeq(frames[c]) \o conn[c].buf = admitted[c]
    /\ \A f \in ToSet(frames[c]) :
         Len(f) <= MaxFrame /\ \A k \in DOMAIN f : f[k] = Delim <=> k = Len(f)

Requests(seq) == FlattenSeq([i \in DOMAIN seq |-> IF ForUs(seq[i]) THEN <<seq[i]>> ELSE << >>])

\* A peer that decodes what it is sent finds the device's bytes, after the offer an
\* answer to each option it named, and, in order, one reply to each of its requests,
\* which repeats it, is empty, or names the server; as long as it asks for no command
\* from 155 on, whose reply is malformed and swallows what follows (README.md).
\* (negotiation_reply, escape_iac, rfc_reply, handle_subnegotiation)
RepliesMatch ==
  \A c \in Conns : conn[c].pc = "select" =>
    LET named == Said(Taken(c))
        asked == Requests(Bodies(Taken(c), "frame"))
        told  == Bodies(out[c], "frame")
    IN (\A i \in DOMAIN asked : Command(asked[i]) < 155) =>
       /\ Data(out[c]) = heard[c]
       /\ Len(Said(out[c])) = Len(named) + 2
       /\ \A i \in DOMAIN named :
            <<IAC>> \o Said(out[c])[i + 2] = NegotiationReply(named[i][1], named[i][2])
       /\ Len(told) = Len(asked)
       /\ \A i \in DOMAIN asked :
            /\ SubSeq(told[i], 1, 2) = <<COM_PORT_OPTION, Command(asked[i]) + 100>>
            /\ Value(told[i]) \in {Value(asked[i]), << >>, Signature}

\* Settings a connection was told are in force are what the owner uses and will open
\* the port with, until it applies another request, however many were given up in
\* between; and the handle has them unless an update failed halfway.
\* (serial_configure, apply_serial_settings, RealPortConfig::apply_serial_settings)
ConfirmedInForce ==
  /\ \A c \in Conns :
       conn[c].confirmed # 0 /\ done.applied = conn[c].confirmed => config = conn[c].settings
  /\ port = "open" /\ ~done.torn => line = config

\* A lease a connection takes for a request is free again, whether the owner answers,
\* refuses or is busy, and even if the peer takes no reply.
\* (configure_with_lease, control_with_lease)
Holds(c) == lease # 0 /\ lease = conn[c].token
LeaseComesBack == \A c \in Conns : Holds(c) ~> ~Holds(c)

\* serial_thread on what it drops before it opens the port: "Commands accepted for a
\* previous connection must never be replayed against a newly opened device."
NoStaleControl == done.crossed = {}

=============================================================================
