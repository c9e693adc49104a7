--------------------------- MODULE Rfc2217Proofs ---------------------------
(***************************************************************************)
(* The RFC 2217 endpoint, for any number of connections, streams and       *)
(* faults and any capacity: settings a connection was told are in force    *)
(* are in force, the bytes of its stream are decoded exactly, and its peer *)
(* can decode what it is answered.                                         *)
(*                                                                         *)
(* The first part follows a request.  A token names it; the argument goes  *)
(* from its lease to the channel, where at most one entry carries it; from *)
(* there to the owner, after which no entry carries it any more, so        *)
(* nothing that was given up in between can pass for it; and back to its   *)
(* connection.  The second part follows the bytes (WireInv): where the     *)
(* stream leaves the decoder, what it has yielded that is still to be      *)
(* dealt with, and what a reader of the answers has found so far.          *)
(***************************************************************************)
EXTENDS Rfc2217, TelnetProofs

IsSettings(s) == s = [field \in Line |-> s[field]]
IsSeq(s)      == \E S : s \in Seq(S)

Fields == {"pc", "decoder", "yield", "settings", "buf", "token", "epoch", "ack", "confirmed"}

\* Places with a request under way, and places before one.
Busy  == {"request", "send", "wait", "release"}
Early == {"new", "select", "replies", "payload", "frames", "request", "send"}

\* The variables are functions, records and sequences of the right shape.
Shape ==
  /\ DOMAIN conn = Conns
  /\ \A c \in Conns : DOMAIN conn[c] = Fields
  /\ DOMAIN done = {"applied", "torn", "crossed"}
  /\ IsSeq(control)

\* The hub's side: tokens are granted in order, the handle is what the owner keeps.
HubInv ==
  /\ leases \in Nat /\ lease \in 0..leases
  /\ Len(control) <= ControlCap
  /\ port \in {"open", "closed", "opening"} /\ epoch \in Nat
  /\ IsSettings(line) /\ IsSettings(config)
  /\ done.applied \in 0..leases /\ done.torn \in BOOLEAN
  /\ port = "open" /\ ~done.torn => line = config

\* What a connection knows of its own request and of the last one it was answered.
Known(c) ==
  /\ conn[c].pc \in Pcs /\ conn[c].ack \in {"none", "ok", "err"}
  /\ conn[c].pc \in Early => conn[c].ack = "none"
  /\ conn[c].token \in 0..leases /\ conn[c].confirmed \in 0..leases
  /\ conn[c].pc \in Busy => conn[c].token # 0
  /\ IsSettings(conn[c].settings)

\* The answer it holds, and the one it remembers, is true until another request is applied.
InForce(c) ==
  /\ conn[c].confirmed # 0 /\ done.applied = conn[c].confirmed => config = conn[c].settings
  /\ /\ conn[c].pc \in {"wait", "release"} /\ conn[c].ack = "ok"
     /\ Command(Frame(c)) \in Line /\ done.applied = conn[c].token
     => config = Wanted(conn[c].settings, Frame(c))

\* No two connections have one token; the one that is remembered is not under way again.
Apart(c, d) ==
  /\ c # d /\ conn[c].token # 0 => conn[c].token # conn[d].token
  /\ conn[c].confirmed # 0 /\ conn[c].confirmed = conn[d].token => c = d /\ conn[d].pc \notin Busy

\* An entry whose token is that of a connection is what that connection asked for, and
\* has not been answered with success.
Mine(e, c) ==
  /\ e.token # conn[c].confirmed
  /\ e.token = conn[c].token =>
       /\ e.conn = c
       /\ conn[c].pc \notin {"request", "send"}
       /\ conn[c].pc \in {"wait", "release"} => conn[c].ack # "ok"
       /\ conn[c].pc = "wait" =>
            /\ e.command = Command(Frame(c))
            /\ e.command \in Line => e.settings = Wanted(conn[c].settings, Frame(c))

EntryOK(e) == e.conn \in Conns /\ e.token \in 1..leases /\ IsSettings(e.settings)

Inv ==
  /\ Shape /\ HubInv
  /\ \A c \in Conns : Known(c) /\ InForce(c)
  /\ \A c, d \in Conns : Apart(c, d)
  /\ \A i \in DOMAIN control : EntryOK(control[i]) /\ \A c \in Conns : Mine(control[i], c)
  /\ \A i, j \in DOMAIN control : i # j => control[i].token # control[j].token

-----------------------------------------------------------------------------
(* Sequences and settings                                                  *)

\* What the channel is after a request is sent.
LEMMA Appended ==
  ASSUME IsSeq(control), NEW e, control' = Append(control, e)
  PROVE  /\ IsSeq(control') /\ Len(control) \in Nat /\ Len(control') = Len(control) + 1
         /\ \A i \in DOMAIN control' :
              \/ i \in DOMAIN control /\ control'[i] = control[i]
              \/ i = Len(control) + 1 /\ control'[i] = e
<1>1. PICK S : control \in Seq(S)
  BY DEF IsSeq
<1>2. control' \in Seq(S \cup {e})
  BY <1>1
<1>3. /\ IsSeq(control') /\ Len(control) \in Nat /\ Len(control') = Len(control) + 1
  BY <1>1, <1>2 DEF IsSeq
<1>4. DOMAIN control' = 1..(Len(control) + 1) /\ DOMAIN control = 1..Len(control)
  BY <1>1, <1>2, <1>3
<1>5. \A i \in 1..Len(control) : control'[i] = control[i]
  BY <1>1
<1>6. control'[Len(control) + 1] = e
  BY <1>1
<1> QED BY <1>3, <1>4, <1>5, <1>6

\* What the channel is after a request is taken out.
LEMMA HeadTaken ==
  ASSUME IsSeq(control), control # << >>, control' = Tail(control)
  PROVE  /\ IsSeq(control') /\ Len(control) \in Nat /\ Len(control') = Len(control) - 1
         /\ 1 \in DOMAIN control /\ Head(control) = control[1]
         /\ \A i \in DOMAIN control' :
              i \in Nat \ {0} /\ i + 1 \in DOMAIN control /\ control'[i] = control[i + 1]
<1>1. PICK S : control \in Seq(S)
  BY DEF IsSeq
<1>2. control' \in Seq(S)
  BY <1>1
<1> QED BY <1>1, <1>2 DEF IsSeq

\* Changing one field of settings leaves settings.
LEMMA WantedSettings ==
  ASSUME NEW s, NEW f, IsSettings(s)
  PROVE  IsSettings(Wanted(s, f))
<1>1. ASSUME NEW v PROVE IsSettings([s EXCEPT ![Command(f)] = v])
  BY DEF IsSettings
<1> QED BY <1>1 DEF Wanted

-----------------------------------------------------------------------------
(* Steps that concern one connection and not its request                   *)

Elsewhere(c) ==
  /\ DOMAIN conn' = Conns /\ \A d \in Conns : DOMAIN conn'[d] = Fields
  /\ \A d \in Conns : d # c => conn'[d] = conn[d]

\* A connection that moves between places without a request disturbs nothing.
LEMMA PeerStep ==
  ASSUME Inv, NEW c \in Conns, Elsewhere(c), UNCHANGED hubVars,
         conn[c].pc \notin Busy, conn'[c].pc \in Pcs \ Busy,
         conn'[c].ack \in {"none", "ok", "err"}, conn'[c].pc \in Early => conn'[c].ack = "none",
         conn'[c].token = conn[c].token, conn'[c].settings = conn[c].settings,
         conn'[c].confirmed = conn[c].confirmed
  PROVE  Inv'
<1>1. Shape' /\ HubInv'
  BY DEF Inv, Shape, HubInv, Elsewhere, hubVars
<1>2. \A d \in Conns : Known(d)' /\ InForce(d)'
  BY DEF Inv, Known, InForce, Elsewhere, hubVars, Busy, Frame
<1>3. \A d1, d2 \in Conns : Apart(d1, d2)'
  BY DEF Inv, Apart, Elsewhere, Busy
<1>4. \A i \in DOMAIN control' : EntryOK(control[i])'
  BY DEF Inv, EntryOK, hubVars
<1>5. \A i \in DOMAIN control' : \A d \in Conns : Mine(control[i], d)'
  BY DEF Inv, Mine, Elsewhere, hubVars, Busy, Frame
<1>6. \A i, j \in DOMAIN control' : i # j => control'[i].token # control'[j].token
  BY DEF Inv, hubVars
<1> QED BY <1>1, <1>2, <1>3, <1>4, <1>5, <1>6 DEF Inv

\* Everything a connection does outside a request is such a step.
LEMMA OutsideRequests ==
  ASSUME Inv, NEW c \in Conns,
         \/ Accept(c) \/ Receive(c) \/ Closes(c) \/ Replies(c) \/ Denied(c) \/ Admit(c)
         \/ AnswersItself(c) \/ Answer(c) \/ Unleased(c) \/ ReadDone(c)
  PROVE  Inv'
<1> USE DEF Shape, Known, Elsewhere, Goes, Pcs, Busy, Early, Fields
<1>0. Shape /\ Known(c)
  BY DEF Inv
<1>1. CASE Accept(c)
  <2>1. UNCHANGED hubVars /\ Elsewhere(c)
    BY <1>0, <1>1 DEF Accept, hubVars
  <2>2. /\ conn[c].pc \notin Busy /\ conn'[c].pc \in Pcs \ Busy
        /\ conn'[c].ack \in {"none", "ok", "err"}
        /\ conn'[c].pc \in Early => conn'[c].ack = "none"
    BY <1>0, <1>1 DEF Accept
  <2>3. /\ conn'[c].token = conn[c].token /\ conn'[c].settings = conn[c].settings
        /\ conn'[c].confirmed = conn[c].confirmed
    BY <1>0, <1>1 DEF Accept
  <2> QED BY <2>1, <2>2, <2>3, PeerStep
<1>2. CASE Receive(c)
  <2>0. /\ conn[c].pc = "select" /\ UNCHANGED hubVars
        /\ \E m : conn' = [conn EXCEPT ![c].pc = "replies", ![c].decoder = m.decoder, ![c].yield = m.yield]
    BY <1>2 DEF Receive
  <2>1. UNCHANGED hubVars /\ Elsewhere(c)
    BY <1>0, <2>0 DEF hubVars
  <2>2. /\ conn[c].pc \notin Busy /\ conn'[c].pc \in Pcs \ Busy
        /\ conn'[c].ack \in {"none", "ok", "err"}
        /\ conn'[c].pc \in Early => conn'[c].ack = "none"
    BY <1>0, <2>0
  <2>3. /\ conn'[c].token = conn[c].token /\ conn'[c].settings = conn[c].settings
        /\ conn'[c].confirmed = conn[c].confirmed
    BY <1>0, <2>0
  <2> QED BY <2>1, <2>2, <2>3, PeerStep
<1>3. CASE Closes(c)
  <2>1. UNCHANGED hubVars /\ Elsewhere(c)
    BY <1>0, <1>3 DEF Closes, hubVars
  <2>2. /\ conn[c].pc \notin Busy /\ conn'[c].pc \in Pcs \ Busy
        /\ conn'[c].ack \in {"none", "ok", "err"}
        /\ conn'[c].pc \in Early => conn'[c].ack = "none"
    BY <1>0, <1>3 DEF Closes
  <2>3. /\ conn'[c].token = conn[c].token /\ conn'[c].settings = conn[c].settings
        /\ conn'[c].confirmed = conn[c].confirmed
    BY <1>0, <1>3 DEF Closes
  <2> QED BY <2>1, <2>2, <2>3, PeerStep
<1>4. CASE Replies(c)
  <2>1. UNCHANGED hubVars /\ Elsewhere(c)
    BY <1>0, <1>4 DEF Replies, hubVars
  <2>2. /\ conn[c].pc \notin Busy /\ conn'[c].pc \in Pcs \ Busy
        /\ conn'[c].ack \in {"none", "ok", "err"}
        /\ conn'[c].pc \in Early => conn'[c].ack = "none"
    BY <1>0, <1>4 DEF Replies
  <2>3. /\ conn'[c].token = conn[c].token /\ conn'[c].settings = conn[c].settings
        /\ conn'[c].confirmed = conn[c].confirmed
    BY <1>0, <1>4 DEF Replies
  <2> QED BY <2>1, <2>2, <2>3, PeerStep
<1>5. CASE Denied(c)
  <2>1. UNCHANGED hubVars /\ Elsewhere(c)
    BY <1>0, <1>5 DEF Denied, hubVars
  <2>2. /\ conn[c].pc \notin Busy /\ conn'[c].pc \in Pcs \ Busy
        /\ conn'[c].ack \in {"none", "ok", "err"}
        /\ conn'[c].pc \in Early => conn'[c].ack = "none"
    BY <1>0, <1>5 DEF Denied
  <2>3. /\ conn'[c].token = conn[c].token /\ conn'[c].settings = conn[c].settings
        /\ conn'[c].confirmed = conn[c].confirmed
    BY <1>0, <1>5 DEF Denied
  <2> QED BY <2>1, <2>2, <2>3, PeerStep
<1>6. CASE Admit(c)
  <2>1. UNCHANGED hubVars /\ Elsewhere(c)
    BY <1>0, <1>6 DEF Admit, hubVars
  <2>2. /\ conn[c].pc \notin Busy /\ conn'[c].pc \in Pcs \ Busy
        /\ conn'[c].ack \in {"none", "ok", "err"}
        /\ conn'[c].pc \in Early => conn'[c].ack = "none"
    BY <1>0, <1>6 DEF Admit
  <2>3. /\ conn'[c].token = conn[c].token /\ conn'[c].settings = conn[c].settings
        /\ conn'[c].confirmed = conn[c].confirmed
    BY <1>0, <1>6 DEF Admit
  <2> QED BY <2>1, <2>2, <2>3, PeerStep
<1>7. CASE AnswersItself(c)
  <2>1. UNCHANGED hubVars /\ Elsewhere(c)
    BY <1>0, <1>7 DEF AnswersItself, Answers, hubVars
  <2>2. /\ conn[c].pc \notin Busy /\ conn'[c].pc \in Pcs \ Busy
        /\ conn'[c].ack \in {"none", "ok", "err"}
        /\ conn'[c].pc \in Early => conn'[c].ack = "none"
    BY <1>0, <1>7 DEF AnswersItself, Answers
  <2>3. /\ conn'[c].token = conn[c].token /\ conn'[c].settings = conn[c].settings
        /\ conn'[c].confirmed = conn[c].confirmed
    BY <1>0, <1>7 DEF AnswersItself, Answers
  <2> QED BY <2>1, <2>2, <2>3, PeerStep
<1>8. CASE Answer(c)
  <2>1. UNCHANGED hubVars /\ Elsewhere(c)
    BY <1>0, <1>8 DEF Answer, Answers, hubVars
  <2>2. /\ conn[c].pc \notin Busy /\ conn'[c].pc \in Pcs \ Busy
        /\ conn'[c].ack \in {"none", "ok", "err"}
        /\ conn'[c].pc \in Early => conn'[c].ack = "none"
    BY <1>0, <1>8 DEF Answer, Answers
  <2>3. /\ conn'[c].token = conn[c].token /\ conn'[c].settings = conn[c].settings
        /\ conn'[c].confirmed = conn[c].confirmed
    BY <1>0, <1>8 DEF Answer, Answers
  <2> QED BY <2>1, <2>2, <2>3, PeerStep
<1>9. CASE Unleased(c)
  <2>1. UNCHANGED hubVars /\ Elsewhere(c)
    BY <1>0, <1>9 DEF Unleased, hubVars
  <2>2. /\ conn[c].pc \notin Busy /\ conn'[c].pc \in Pcs \ Busy
        /\ conn'[c].ack \in {"none", "ok", "err"}
        /\ conn'[c].pc \in Early => conn'[c].ack = "none"
    BY <1>0, <1>9 DEF Unleased
  <2>3. /\ conn'[c].token = conn[c].token /\ conn'[c].settings = conn[c].settings
        /\ conn'[c].confirmed = conn[c].confirmed
    BY <1>0, <1>9 DEF Unleased
  <2> QED BY <2>1, <2>2, <2>3, PeerStep
<1>10. CASE ReadDone(c)
  <2>1. UNCHANGED hubVars /\ Elsewhere(c)
    BY <1>0, <1>10 DEF ReadDone, hubVars
  <2>2. /\ conn[c].pc \notin Busy /\ conn'[c].pc \in Pcs \ Busy
        /\ conn'[c].ack \in {"none", "ok", "err"}
        /\ conn'[c].pc \in Early => conn'[c].ack = "none"
    BY <1>0, <1>10 DEF ReadDone
  <2>3. /\ conn'[c].token = conn[c].token /\ conn'[c].settings = conn[c].settings
        /\ conn'[c].confirmed = conn[c].confirmed
    BY <1>0, <1>10 DEF ReadDone
  <2> QED BY <2>1, <2>2, <2>3, PeerStep
<1> QED BY <1>1, <1>2, <1>3, <1>4, <1>5, <1>6, <1>7, <1>8, <1>9, <1>10

\* A step that leaves the connections, the channel and the settings where they are.
LEMMA Unmoved ==
  ASSUME Inv, UNCHANGED <<conn, control, config, line, done>>,
         leases' \in Nat, leases' >= leases, lease' \in 0..leases',
         epoch' \in Nat, port' \in {"open", "closed", "opening"}, port' = "open" => port = "open"
  PROVE  Inv'
<1>1. Shape'
  BY DEF Inv, Shape
<1>2. HubInv'
  BY DEF Inv, HubInv
<1>3. \A d \in Conns : Known(d)' /\ InForce(d)'
  BY DEF Inv, HubInv, Known, InForce, Frame
<1>4. \A d1, d2 \in Conns : Apart(d1, d2)'
  BY DEF Inv, Apart
<1>5. \A i \in DOMAIN control' : EntryOK(control[i])'
  BY DEF Inv, HubInv, EntryOK
<1>6. \A i \in DOMAIN control' : \A d \in Conns : Mine(control[i], d)'
  BY DEF Inv, Mine, Frame
<1>7. \A i, j \in DOMAIN control' : i # j => control'[i].token # control'[j].token
  BY DEF Inv
<1> QED BY <1>1, <1>2, <1>3, <1>4, <1>5, <1>6, <1>7 DEF Inv

\* Forwarding, other clients' leases and the loss of the port are steps of that kind.
LEMMA OthersStep ==
  ASSUME Inv, (\E c \in Conns : Forward(c)) \/ PortLost \/ OtherAcquires \/ LeaseEnds \/ UNCHANGED vars
  PROVE  Inv'
<1>0. HubInv
  BY DEF Inv
<1>1. CASE \E c \in Conns : Forward(c)
  BY <1>0, <1>1, Unmoved DEF Forward, HubInv, hubVars
<1>2. CASE PortLost
  BY <1>0, <1>2, Unmoved DEF PortLost, HubInv
<1>3. CASE OtherAcquires
  BY <1>0, <1>3, Unmoved DEF OtherAcquires, HubInv
<1>4. CASE LeaseEnds
  BY <1>0, <1>4, Unmoved DEF LeaseEnds, HubInv
<1>5. CASE UNCHANGED vars
  BY <1>0, <1>5, Unmoved DEF vars, hubVars, HubInv
<1> QED BY <1>1, <1>2, <1>3, <1>4, <1>5

-----------------------------------------------------------------------------
(* The steps of a request                                                  *)

\* A fresh token is nobody else's, in the channel, under way or remembered.
LEMMA AcquireStep ==
  ASSUME Inv, NEW c \in Conns, AcquireLock(c)
  PROVE  Inv'
<1>1. /\ Shape /\ HubInv /\ \A d \in Conns : Known(d)
      /\ leases \in Nat /\ leases' = leases + 1
  BY DEF Inv, HubInv, AcquireLock
<1>2. /\ Elsewhere(c) /\ conn[c].pc = "frames" /\ conn'[c].pc = "request"
      /\ conn'[c].token = leases + 1 /\ conn'[c].ack = conn[c].ack
      /\ conn'[c].settings = conn[c].settings /\ conn'[c].confirmed = conn[c].confirmed
  BY <1>1 DEF AcquireLock, Shape, Elsewhere, Fields
<1>3. Shape' /\ HubInv'
  BY <1>1, <1>2 DEF AcquireLock, Shape, HubInv, Elsewhere
<1>4. \A d \in Conns : Known(d)'
  BY <1>1, <1>2 DEF Known, Elsewhere, Pcs, Busy, Early
<1>5. \A d \in Conns : InForce(d)'
  BY <1>2 DEF Inv, InForce, Elsewhere, AcquireLock, Frame
<1>6. \A d1, d2 \in Conns : Apart(d1, d2)'
  BY <1>1, <1>2 DEF Inv, Apart, Known, Elsewhere, Busy
<1>7. \A i \in DOMAIN control' : EntryOK(control[i])'
  BY <1>1 DEF Inv, EntryOK, AcquireLock
<1>8. \A i \in DOMAIN control' : \A d \in Conns : Mine(control[i], d)'
  BY <1>1, <1>2 DEF Inv, Mine, EntryOK, Elsewhere, AcquireLock, Frame
<1>9. \A i, j \in DOMAIN control' : i # j => control'[i].token # control'[j].token
  BY DEF Inv, AcquireLock
<1> QED BY <1>3, <1>4, <1>5, <1>6, <1>7, <1>8, <1>9 DEF Inv

\* Checking a request, giving it up and taking its answer only move the connection on.
LEMMA MovesOn ==
  ASSUME Inv, NEW c \in Conns, Request(c) \/ TimesOut(c) \/ Answered(c)
  PROVE  Inv'
<1>0. Shape /\ Known(c)
  BY DEF Inv
<1>1. UNCHANGED hubVars /\ Elsewhere(c)
  BY <1>0 DEF Request, TimesOut, Answered, Elsewhere, Shape, Goes, Fields
<1>2. /\ conn'[c].token = conn[c].token /\ conn'[c].settings = conn[c].settings
      /\ conn'[c].confirmed = conn[c].confirmed /\ conn'[c].yield = conn[c].yield
  BY <1>0 DEF Request, TimesOut, Answered, Shape, Goes, Fields
<1>3. /\ conn[c].pc \in Busy
      /\ \/ conn'[c].pc = "send" /\ conn'[c].ack = "none" /\ conn[c].pc = "request"
         \/ conn'[c].pc = "release" /\ conn'[c].ack = "err"
         \/ conn'[c].pc = "release" /\ conn'[c].ack = conn[c].ack /\ conn[c].pc = "wait"
  BY <1>0 DEF Request, TimesOut, Answered, Shape, Goes, Fields, Busy
<1>4. Shape' /\ HubInv'
  BY <1>1 DEF Inv, Shape, HubInv, Elsewhere, hubVars
<1>5. \A d \in Conns : Known(d)'
  BY <1>1, <1>2, <1>3 DEF Inv, Known, Elsewhere, hubVars, Busy, Early, Pcs
<1>6. \A d \in Conns : InForce(d)'
  BY <1>1, <1>2, <1>3 DEF Inv, InForce, Elsewhere, hubVars, Frame
<1>7. \A d1, d2 \in Conns : Apart(d1, d2)'
  BY <1>1, <1>2, <1>3 DEF Inv, Apart, Elsewhere, Busy
<1>8. \A i \in DOMAIN control' : EntryOK(control[i])'
  BY <1>1 DEF Inv, EntryOK, hubVars
<1>9. \A i \in DOMAIN control' : \A d \in Conns : Mine(control[i], d)'
  BY <1>1, <1>2, <1>3 DEF Inv, Mine, Elsewhere, hubVars, Frame
<1>10. \A i, j \in DOMAIN control' : i # j => control'[i].token # control'[j].token
  BY <1>1 DEF Inv, hubVars
<1> QED BY <1>4, <1>5, <1>6, <1>7, <1>8, <1>9, <1>10 DEF Inv

\* A request enters the channel once, as its connection wants it.
LEMMA SendStep ==
  ASSUME Inv, NEW c \in Conns, SendControl(c)
  PROVE  Inv'
<1> DEFINE f == Frame(c)
           e == [conn |-> c, token |-> conn[c].token, epoch |-> conn[c].epoch, command |-> Command(f),
                 settings |-> IF Command(f) \in Line THEN Wanted(conn[c].settings, f) ELSE config]
           last == Len(control) + 1
<1>0. /\ Shape /\ HubInv /\ \A d \in Conns : Known(d)
      /\ control' = Append(control, e)
      /\ UNCHANGED <<lease, leases, port, epoch, line, config, done>>
  BY DEF Inv, SendControl
<1>1. /\ IsSeq(control') /\ Len(control) \in Nat /\ Len(control') = last
      /\ \A i \in DOMAIN control' :
           \/ i \in DOMAIN control /\ control'[i] = control[i]
           \/ i = last /\ control'[i] = e
  BY <1>0, Appended DEF Shape
<1>2. /\ Elsewhere(c) /\ conn[c].pc = "send" /\ conn'[c].pc = "wait" /\ Len(control) < ControlCap
      /\ conn'[c].token = conn[c].token /\ conn'[c].settings = conn[c].settings
      /\ conn'[c].confirmed = conn[c].confirmed /\ conn'[c].yield = conn[c].yield
      /\ conn'[c].ack = conn[c].ack
  BY <1>0 DEF SendControl, Goes, Shape, Elsewhere, Fields
<1>3. conn[c].ack = "none" /\ conn[c].token \in 1..leases /\ IsSettings(conn[c].settings)
  BY <1>0, <1>2 DEF Known, Early, Busy, HubInv
<1>4. e.conn = c /\ e.token = conn[c].token /\ e.command = Command(f) /\ IsSettings(e.settings)
      /\ (e.command \in Line => e.settings = Wanted(conn[c].settings, f))
  BY <1>0, <1>3, WantedSettings DEF HubInv
<1>5. \A i \in DOMAIN control : control[i].token # conn[c].token
  BY <1>2 DEF Inv, Mine
<1> HIDE DEF e
<1>6. Shape' /\ HubInv'
  BY <1>0, <1>1, <1>2, EndpointAssumption DEF Shape, HubInv, Elsewhere
<1>7. \A d \in Conns : Known(d)'
  BY <1>0, <1>2, <1>3 DEF Known, Elsewhere, Pcs, Busy, Early
<1>8. \A d \in Conns : InForce(d)'
  BY <1>0, <1>2, <1>3 DEF Inv, InForce, Elsewhere, Frame
<1>9. \A d1, d2 \in Conns : Apart(d1, d2)'
  BY <1>2 DEF Inv, Apart, Elsewhere, Busy
<1>10. ASSUME NEW i \in DOMAIN control'
       PROVE  EntryOK(control[i])' /\ \A d \in Conns : Mine(control[i], d)'
  <2>1. CASE i \in DOMAIN control /\ control'[i] = control[i]
    <3>1. EntryOK(control[i])'
      BY <1>0, <2>1 DEF Inv, EntryOK
    <3>2. \A d \in Conns : Mine(control[i], d)'
      BY <1>2, <1>5, <2>1 DEF Inv, Mine, Elsewhere, Frame
    <3> QED BY <3>1, <3>2
  <2>2. CASE control'[i] = e
    <3>1. EntryOK(control[i])'
      BY <1>0, <1>3, <1>4, <2>2 DEF EntryOK
    <3>2. ASSUME NEW d \in Conns PROVE Mine(control[i], d)'
      <4>1. conn[c].token # conn[d].confirmed /\ conn'[d].confirmed = conn[d].confirmed
        BY <1>2, <1>3 DEF Inv, Apart, Elsewhere, Busy
      <4>2. conn[c].token = conn'[d].token => d = c
        BY <1>2, <1>3 DEF Inv, Apart, Elsewhere
      <4>3. Frame(c)' = f
        BY <1>2 DEF Frame
      <4> HIDE DEF f
      <4> QED BY <1>2, <1>3, <1>4, <2>2, <4>1, <4>2, <4>3 DEF Mine
    <3> QED BY <3>1, <3>2
  <2> QED BY <1>1, <2>1, <2>2
<1>11. \A i, j \in DOMAIN control' : i # j => control'[i].token # control'[j].token
  BY <1>1, <1>4, <1>5 DEF Inv
<1> QED BY <1>6, <1>7, <1>8, <1>9, <1>10, <1>11 DEF Inv

\* The lease is given back and, after success, the settings are remembered: no entry of
\* the channel carries this token any more, and what was applied is what was asked for.
LEMMA ReleaseStep ==
  ASSUME Inv, NEW c \in Conns, ReleaseLock(c)
  PROVE  Inv'
<1> DEFINE kept == conn[c].ack = "ok" /\ Command(Frame(c)) \in Line
<1>0. /\ Shape /\ HubInv /\ Known(c) /\ InForce(c)
      /\ UNCHANGED <<leases, control, port, epoch, line, config, done>>
      /\ lease' \in {0, lease} /\ conn[c].pc = "release"
  BY DEF Inv, ReleaseLock
<1>1. /\ Elsewhere(c) /\ conn'[c].pc = "answer" /\ conn'[c].ack = conn[c].ack
      /\ conn'[c].token = conn[c].token
      /\ conn'[c].settings = IF kept THEN Wanted(conn[c].settings, Frame(c)) ELSE conn[c].settings
      /\ conn'[c].confirmed = IF kept THEN conn[c].token ELSE conn[c].confirmed
  BY <1>0 DEF ReleaseLock, Shape, Elsewhere, Fields
<1>2. IsSettings(conn'[c].settings)
  BY <1>0, <1>1, WantedSettings DEF Known
<1>3. conn[c].token \in 1..leases
  BY <1>0 DEF Known, HubInv, Busy
<1>4. kept => \A i \in DOMAIN control : control[i].token # conn[c].token
  BY <1>0 DEF Inv, Mine
<1>5. Shape' /\ HubInv'
  BY <1>0, <1>1 DEF Shape, HubInv, Elsewhere
<1>6. \A d \in Conns : Known(d)'
  BY <1>0, <1>1, <1>2, <1>3 DEF Inv, Known, Elsewhere, Pcs, Busy, Early
<1>7. \A d \in Conns : InForce(d)'
  <2>1. InForce(c)'
    BY <1>0, <1>1 DEF InForce
  <2>2. \A d \in Conns : d # c => InForce(d)'
    BY <1>0, <1>1 DEF Inv, InForce, Elsewhere, Frame
  <2> QED BY <2>1, <2>2
<1>8. \A d1, d2 \in Conns : Apart(d1, d2)'
  BY <1>0, <1>1, <1>3 DEF Inv, Apart, Elsewhere, Busy
<1>9. \A i \in DOMAIN control' : EntryOK(control[i])'
  BY <1>0 DEF Inv, EntryOK
<1>10. \A i \in DOMAIN control' : \A d \in Conns : Mine(control[i], d)'
  BY <1>0, <1>1, <1>4 DEF Inv, Mine, Elsewhere, Frame
<1>11. \A i, j \in DOMAIN control' : i # j => control'[i].token # control'[j].token
  BY <1>0 DEF Inv
<1> QED BY <1>5, <1>6, <1>7, <1>8, <1>9, <1>10, <1>11 DEF Inv

-----------------------------------------------------------------------------
(* The owner                                                               *)

\* Taking a request out and answering it: with success only if it was applied.
LEMMA OwnerAnswers ==
  ASSUME Inv, NEW e, e = Head(control), control # << >>, control' = Tail(control),
         NEW ack \in {"ok", "err"}, Acknowledge(e, ack),
         HubInv', UNCHANGED <<leases>>, DOMAIN done' = DOMAIN done,
         \/ done'.applied = done.applied /\ config' = config
         \/ done'.applied = e.token /\ config' = e.settings /\ e.command \in Line,
         ack = "ok" /\ e.command \in Line => done'.applied = e.token /\ config' = e.settings
  PROVE  Inv'
<1>1. /\ IsSeq(control') /\ Len(control) \in Nat /\ Len(control') = Len(control) - 1
      /\ 1 \in DOMAIN control /\ e = control[1]
      /\ \A i \in DOMAIN control' :
           i \in Nat \ {0} /\ i + 1 \in DOMAIN control /\ control'[i] = control[i + 1]
  BY HeadTaken DEF Inv, Shape
<1>2. /\ EntryOK(e) /\ \A d \in Conns : Mine(e, d)
      /\ \A i \in DOMAIN control' : control'[i].token # e.token
  BY <1>1 DEF Inv
<1>3. /\ DOMAIN conn' = Conns /\ \A d \in Conns : DOMAIN conn'[d] = Fields
      /\ \A d \in Conns : /\ conn'[d].pc = conn[d].pc /\ conn'[d].token = conn[d].token
                          /\ conn'[d].settings = conn[d].settings /\ conn'[d].yield = conn[d].yield
                          /\ conn'[d].confirmed = conn[d].confirmed
      /\ \A d \in Conns : \/ conn'[d].ack = conn[d].ack
                          \/ conn'[d].ack = ack /\ conn[d].pc = "wait" /\ conn[d].token = e.token
  BY <1>2 DEF Inv, Shape, EntryOK, Acknowledge, Fields
<1>4. Shape'
  BY <1>1, <1>3 DEF Inv, Shape
<1>5. \A d \in Conns : Known(d)'
  BY <1>3 DEF Inv, Known, Early
<1>6. ASSUME NEW d \in Conns PROVE InForce(d)'
  <2>1. Frame(d)' = Frame(d)
    BY <1>3 DEF Frame
  <2>2. conn'[d].confirmed # 0 /\ done'.applied = conn'[d].confirmed => config' = conn'[d].settings
    BY <1>2, <1>3 DEF Inv, InForce, Mine
  <2>3. ASSUME conn[d].pc \in {"wait", "release"}, conn'[d].ack = "ok",
               Command(Frame(d)) \in Line, done'.applied = conn[d].token
        PROVE  config' = Wanted(conn[d].settings, Frame(d))
    <3>1. CASE conn[d].token = e.token
      <4>1. Mine(e, d) /\ InForce(d)
        BY <1>2 DEF Inv
      <4>2. conn[d].ack # "ok"
        BY <2>3, <3>1, <4>1 DEF Mine
      <4>3. ack = "ok" /\ conn[d].pc = "wait"
        BY <1>3, <2>3, <4>2
      <4> QED BY <2>3, <3>1, <4>1, <4>3 DEF Mine
    <3>2. CASE conn[d].token # e.token
      <4>1. conn[d].ack = "ok" /\ done'.applied = done.applied /\ config' = config
        BY <1>3, <2>3, <3>2
      <4> QED BY <2>3, <4>1 DEF Inv, InForce
    <3> QED BY <3>1, <3>2
  <2> QED BY <1>3, <2>1, <2>2, <2>3 DEF InForce
<1>7. \A d1, d2 \in Conns : Apart(d1, d2)'
  BY <1>3 DEF Inv, Apart
<1>8. \A i \in DOMAIN control' : EntryOK(control[i])'
  BY <1>1 DEF Inv, EntryOK
<1>9. ASSUME NEW i \in DOMAIN control', NEW d \in Conns PROVE Mine(control[i], d)'
  <2>1. Mine(control'[i], d) /\ control'[i].token # e.token
    BY <1>1, <1>2 DEF Inv
  <2>2. Frame(d)' = Frame(d)
    BY <1>3 DEF Frame
  <2> QED BY <1>3, <2>1, <2>2 DEF Mine
<1>10. \A i, j \in DOMAIN control' : i # j => control'[i].token # control'[j].token
  BY <1>1 DEF Inv
<1> QED BY <1>4, <1>5, <1>6, <1>7, <1>8, <1>9, <1>10 DEF Inv

\* Settings are applied, all of them with success or some of them with an error.
LEMMA ApplyStep ==
  ASSUME Inv, ApplySettings
  PROVE  Inv'
<1> DEFINE e == Head(control)
<1>1. PICK n \in 0..4, ok \in BOOLEAN :
        /\ ok => n = 4
        /\ line' = [i \in Line |-> IF i <= n THEN e.settings[i] ELSE line[i]]
        /\ config' = (IF ok THEN e.settings ELSE config)
        /\ done' = [applied |-> IF ok THEN e.token ELSE done.applied, torn |-> ~ok, crossed |-> Crosses(e)]
        /\ Acknowledge(e, IF ok THEN "ok" ELSE "err")
  BY DEF ApplySettings
<1>2. /\ port = "open" /\ control # << >> /\ e.command \in Line /\ control' = Tail(control)
      /\ UNCHANGED <<lease, leases, port, epoch>>
  BY DEF ApplySettings
<1>3. EntryOK(e) /\ Len(control') <= ControlCap
  BY <1>2, HeadTaken, EndpointAssumption DEF Inv, Shape, HubInv
<1>4. /\ done'.applied = IF ok THEN e.token ELSE done.applied
      /\ done'.torn = ~ok /\ DOMAIN done' = {"applied", "torn", "crossed"}
  BY <1>1
<1>5. IsSettings(line') /\ (ok => line' = e.settings)
  <2>1. IsSettings(line')
    BY <1>1 DEF IsSettings
  <2>2. ASSUME ok PROVE line' = e.settings
    <3>1. \A i \in Line : i <= n
      BY <1>1, <2>2 DEF Line
    <3>2. line' = [i \in Line |-> e.settings[i]]
      BY <1>1, <3>1
    <3> QED BY <1>3, <3>2 DEF EntryOK, IsSettings
  <2> QED BY <2>1, <2>2
<1> HIDE DEF e
<1>6. HubInv'
  <2>1. IsSettings(config') /\ done'.applied \in 0..leases'
    BY <1>1, <1>2, <1>3, <1>4 DEF Inv, HubInv, EntryOK
  <2>2. done'.torn \in BOOLEAN /\ (~done'.torn => line' = config')
    BY <1>1, <1>4, <1>5
  <2> QED BY <1>2, <1>3, <1>5, <2>1, <2>2 DEF Inv, HubInv
<1>7. CASE ok
  BY <1>1, <1>2, <1>4, <1>6, <1>7, OwnerAnswers DEF e, Inv, Shape
<1>8. CASE ~ok
  BY <1>1, <1>2, <1>4, <1>6, <1>8, OwnerAnswers DEF e, Inv, Shape
<1> QED BY <1>7, <1>8

\* A control line leaves the settings alone.
LEMMA ControlStep ==
  ASSUME Inv, ApplyControl
  PROVE  Inv'
<1> DEFINE e == Head(control)
<1>1. PICK ok \in BOOLEAN : Acknowledge(e, IF ok THEN "ok" ELSE "err")
  BY DEF ApplyControl
<1>2. /\ control # << >> /\ e.command \notin Line /\ control' = Tail(control)
      /\ UNCHANGED <<lease, leases, port, epoch, line, config>>
      /\ done' = [done EXCEPT !.crossed = Crosses(e)]
  BY DEF ApplyControl, SET_CONTROL, Line
<1>3. Len(control') <= ControlCap
  BY <1>2, HeadTaken, EndpointAssumption DEF Inv, Shape, HubInv
<1>4. done'.applied = done.applied /\ done'.torn = done.torn /\ DOMAIN done' = DOMAIN done
  BY <1>2 DEF Inv, Shape
<1> HIDE DEF e
<1>5. HubInv'
  BY <1>2, <1>3, <1>4 DEF Inv, HubInv
<1>6. CASE ok
  BY <1>1, <1>2, <1>4, <1>5, <1>6, OwnerAnswers DEF e
<1>7. CASE ~ok
  BY <1>1, <1>2, <1>4, <1>5, <1>7, OwnerAnswers DEF e
<1> QED BY <1>6, <1>7

\* Dropping what is in the channel refuses it.
LEMMA DrainStep ==
  ASSUME Inv, Drain
  PROVE  Inv'
<1>1. /\ control' = << >> /\ port' = "opening"
      /\ UNCHANGED <<lease, leases, epoch, line, config, done>>
  BY DEF Drain
<1>2. /\ DOMAIN conn' = Conns /\ \A d \in Conns : DOMAIN conn'[d] = Fields
      /\ \A d \in Conns : /\ conn'[d].pc = conn[d].pc /\ conn'[d].token = conn[d].token
                          /\ conn'[d].settings = conn[d].settings /\ conn'[d].yield = conn[d].yield
                          /\ conn'[d].confirmed = conn[d].confirmed
      /\ \A d \in Conns : \/ conn'[d].ack = conn[d].ack
                          \/ conn'[d].ack = "err" /\ conn[d].pc = "wait"
  <2>1. \A d \in Conns : \/ conn'[d] = conn[d]
                         \/ conn'[d] = [conn[d] EXCEPT !.ack = "err"] /\ conn[d].pc = "wait"
    BY DEF Drain
  <2>2. DOMAIN conn' = Conns
    BY DEF Drain
  <2> QED BY <2>1, <2>2 DEF Inv, Shape, Fields
<1>3. IsSeq(control') /\ Len(control') = 0 /\ DOMAIN control' = {}
  <2>1. control' \in Seq({})
    BY <1>1
  <2> QED BY <1>1, <2>1 DEF IsSeq
<1>4. Shape' /\ HubInv'
  BY <1>1, <1>2, <1>3, EndpointAssumption DEF Inv, Shape, HubInv
<1>5. \A d \in Conns : Known(d)'
  BY <1>1, <1>2 DEF Inv, Known, Early
<1>6. \A d \in Conns : InForce(d)'
  BY <1>1, <1>2 DEF Inv, InForce, Frame
<1>7. \A d1, d2 \in Conns : Apart(d1, d2)'
  BY <1>2 DEF Inv, Apart
<1> QED BY <1>3, <1>4, <1>5, <1>6, <1>7 DEF Inv

\* The port is opened with what the owner keeps.
LEMMA ReopenStep ==
  ASSUME Inv, Reopen
  PROVE  Inv'
<1>1. /\ port' = "open" /\ epoch' = epoch + 1 /\ line' = config
      /\ done' = [done EXCEPT !.torn = FALSE]
      /\ UNCHANGED <<conn, lease, leases, control, config>>
  BY DEF Reopen
<1>2. done'.applied = done.applied /\ done'.torn = FALSE /\ DOMAIN done' = DOMAIN done
  BY <1>1 DEF Inv, Shape
<1>3. Shape' /\ HubInv'
  BY <1>1, <1>2 DEF Inv, Shape, HubInv
<1>4. \A d \in Conns : Known(d)' /\ InForce(d)'
  BY <1>1, <1>2 DEF Inv, Known, InForce, Frame
<1>5. \A d1, d2 \in Conns : Apart(d1, d2)'
  BY <1>1 DEF Inv, Apart
<1>6. \A i \in DOMAIN control' : EntryOK(control[i])'
  BY <1>1 DEF Inv, EntryOK
<1>7. \A i \in DOMAIN control' : \A d \in Conns : Mine(control[i], d)'
  BY <1>1 DEF Inv, Mine, Frame
<1>8. \A i, j \in DOMAIN control' : i # j => control'[i].token # control'[j].token
  BY <1>1 DEF Inv
<1> QED BY <1>3, <1>4, <1>5, <1>6, <1>7, <1>8 DEF Inv

-----------------------------------------------------------------------------
(* The theorems                                                            *)

\* Nothing has been asked for yet.
LEMMA InvInit ==
  ASSUME Init
  PROVE  Inv
<1>1. control = << >> /\ IsSeq(control) /\ Len(control) = 0 /\ DOMAIN control = {}
  <2>1. control = << >> /\ control \in Seq({})
    BY DEF Init
  <2> QED BY <2>1 DEF IsSeq
<1>2. /\ DOMAIN conn = Conns
      /\ \A c \in Conns : /\ DOMAIN conn[c] = Fields /\ conn[c].pc = "new" /\ conn[c].ack = "none"
                          /\ conn[c].token = 0 /\ conn[c].confirmed = 0 /\ conn[c].settings = Initial
  BY DEF Init, NewConn, Fields
<1>3. IsSettings(Initial)
  BY EndpointAssumption DEF IsSettings
<1>4. Shape /\ HubInv
  BY <1>1, <1>2, <1>3, EndpointAssumption DEF Init, Shape, HubInv
<1>5. \A c \in Conns : Known(c) /\ InForce(c)
  BY <1>2, <1>3, <1>4 DEF Known, InForce, HubInv, Pcs, Busy
<1>6. \A c, d \in Conns : Apart(c, d)
  BY <1>2 DEF Apart
<1> QED BY <1>1, <1>4, <1>5, <1>6 DEF Inv

\* Every step keeps the invariant.
LEMMA InvNext ==
  ASSUME Inv, [Next]_vars
  PROVE  Inv'
<1>1. CASE \E c \in Conns : Proceeds(c)
  BY <1>1, OutsideRequests, AcquireStep, MovesOn, SendStep, ReleaseStep DEF Proceeds
<1>2. CASE \E c \in Conns : WithPeer(c)
  BY <1>2, OutsideRequests, OthersStep DEF WithPeer
<1>3. CASE Owner
  BY <1>3, ApplyStep, ControlStep, DrainStep, ReopenStep, OthersStep DEF Owner
<1>4. CASE OtherAcquires \/ LeaseEnds \/ UNCHANGED vars
  BY <1>4, OthersStep
<1> QED BY <1>1, <1>2, <1>3, <1>4 DEF Next

\* The inductive invariant holds in every reachable state.
\* (configure_with_lease, serial_configure, io_loop)
THEOREM RequestInvariance == Spec => []Inv
<1>1. Init => Inv
  BY InvInit
<1>2. Inv /\ [Next]_vars => Inv'
  BY InvNext
<1> QED BY <1>1, <1>2, PTL DEF Spec

\* Every variable keeps its type, for any connections, streams and capacity.
THEOREM TypeCorrect == Spec => []TypeOK
<1>1. Inv => TypeOK
  <2> SUFFICES ASSUME Inv PROVE TypeOK
    OBVIOUS
  <2>1. \A c \in Conns : DOMAIN conn[c].settings = Line
    BY DEF Inv, Known, IsSettings
  <2>2. lease \in {0} \cup 1..leases
    BY DEF Inv, HubInv
  <2>3. DOMAIN line = Line /\ DOMAIN config = Line
    BY DEF Inv, HubInv, IsSettings
  <2> QED BY <2>1, <2>2, <2>3 DEF Inv, HubInv, Known, TypeOK
<1> QED BY <1>1, RequestInvariance, PTL

\* What a connection was told is in force is what the owner uses and keeps, until it
\* applies another request.  (serial_configure, apply_serial_settings)
THEOREM ConfirmationsHold == Spec => []ConfirmedInForce
<1>1. Inv => ConfirmedInForce
  BY DEF Inv, HubInv, InForce, ConfirmedInForce
<1> QED BY <1>1, RequestInvariance, PTL

-----------------------------------------------------------------------------
(* Requests and the replies to them                                        *)

\* One more to choose from.
LEMMA RequestsAppend ==
  ASSUME NEW W, NEW seq \in Seq(W), NEW x \in W
  PROVE  /\ Requests(seq) \in Seq(W)
         /\ Requests(Append(seq, x)) = IF ForUs(x) THEN Append(Requests(seq), x) ELSE Requests(seq)
<1> DEFINE n == Len(seq)
           m == n + 1
           longer == Append(seq, x)
           f == [i \in 1 .. n |-> IF ForUs(seq[i]) THEN <<seq[i]>> ELSE << >>]
           g == [i \in 1 .. m |-> IF ForUs(longer[i]) THEN <<longer[i]>> ELSE << >>]
           y == IF ForUs(x) THEN <<x>> ELSE << >>
<1>1. /\ n \in Nat /\ longer \in Seq(W) /\ Len(longer) = m
      /\ (\A i \in 1 .. n : longer[i] = seq[i]) /\ longer[m] = x
  BY AppendProperties
<1>2. Requests(seq) = FlattenSeq(f) /\ Requests(longer) = FlattenSeq(g)
  <2>1. DOMAIN seq = 1 .. n /\ DOMAIN longer = 1 .. m
    <3> HIDE DEF longer
    <3> QED BY <1>1
  <2> QED BY <2>1 DEF Requests
<1>3. /\ \A i \in 1 .. n : f[i] = g[i]
      /\ \A i \in 1 .. m : g[i] \in Seq(W)
  <2>1. \A i \in 1 .. m : longer[i] \in W
    <3> HIDE DEF longer
    <3> QED BY <1>1
  <2>2. \A z \in W : <<z>> \in Seq(W)
    OBVIOUS
  <2>3. << >> \in Seq(W)
    OBVIOUS
  <2>4. 1 .. n \subseteq 1 .. m
    BY <1>1
  <2> HIDE DEF longer, n, m
  <2> QED BY <1>1, <2>1, <2>2, <2>3, <2>4
<1>4. g[m] = y
  <2>1. m \in 1 .. m
    BY <1>1
  <2> HIDE DEF longer, n, m
  <2> QED BY <1>1, <2>1
<1>5. Grows(f, g, n, W) /\ m = n + 1
  BY <1>3 DEF Grows, IsList
<1> HIDE DEF f, g, longer, n, m, y
<1>6. FlattenSeq(f) \in Seq(W) /\ FlattenSeq(g) = FlattenSeq(f) \o g[m]
  BY <1>1, <1>5, FlattenNext
<1> DEFINE a == FlattenSeq(f)
<1>7. a \in Seq(W) => a \o <<x>> = Append(a, x) /\ a \o << >> = a
  <2> HIDE DEF a
  <2> QED OBVIOUS
<1> QED BY <1>2, <1>4, <1>6, <1>7 DEF longer, y

\* Nothing to choose from.
LEMMA RequestsNone == Requests(<< >>) = << >>
<1>1. [i \in DOMAIN << >> |-> IF ForUs(<< >>[i]) THEN <<<< >>[i]>> ELSE << >>] = << >>
  OBVIOUS
<1> QED BY <1>1, FlattenNone DEF Requests

\* Requests of one list, and of one that goes on.
LEMMA RequestsConcat ==
  ASSUME NEW W, NEW a \in Seq(W), NEW b \in Seq(W)
  PROVE  /\ Requests(a) \in Seq(W) /\ Requests(b) \in Seq(W)
         /\ Requests(a \o b) = Requests(a) \o Requests(b)
<1> DEFINE T == {x \in Seq(W) : Requests(x) \in Seq(W) /\ Requests(a \o x) = Requests(a) \o Requests(x)}
           U == {x \in Seq(W) : Requests(x) \in Seq(W)}
<1>1. \A x \in Seq(W) : Requests(x) \in Seq(W)
  <2>1. << >> \in U
    BY RequestsNone, Empty
  <2>2. ASSUME NEW x \in Seq(W), NEW w \in W, x \in U
        PROVE  Append(x, w) \in U
    <3>1. Append(x, w) \in Seq(W)
      OBVIOUS
    <3> DEFINE y == Requests(x)
    <3>2. y \in Seq(W) /\ Requests(Append(x, w)) = IF ForUs(w) THEN Append(y, w) ELSE y
      BY RequestsAppend
    <3> HIDE DEF y
    <3>3. Append(y, w) \in Seq(W)
      BY <3>2
    <3> QED BY <3>1, <3>2, <3>3
  <2> HIDE DEF U
  <2>3. \A x \in Seq(W) : x \in U
    BY <2>1, <2>2, Longer
  <2> QED BY <2>3 DEF U
<1>2. << >> \in T
  <2>1. a \o << >> = a /\ Requests(a) \o << >> = Requests(a)
    BY <1>1
  <2> QED BY <2>1, RequestsNone, Empty
<1>3. ASSUME NEW x \in Seq(W), NEW w \in W, x \in T
      PROVE  Append(x, w) \in T
  <2> DEFINE y == Requests(x)
             z == Requests(a)
             ax == a \o x
  <2>1. y \in Seq(W) /\ z \in Seq(W) /\ Requests(ax) = z \o y /\ ax \in Seq(W)
    BY <1>1, <1>3
  <2>2. a \o Append(x, w) = Append(ax, w) /\ Append(x, w) \in Seq(W)
    BY ConcatAppend
  <2>3. Requests(Append(x, w)) = IF ForUs(w) THEN Append(y, w) ELSE y
    BY RequestsAppend
  <2> HIDE DEF ax
  <2>4. Requests(Append(ax, w)) = IF ForUs(w) THEN Append(Requests(ax), w) ELSE Requests(ax)
    BY <2>1, RequestsAppend
  <2> HIDE DEF y, z
  <2>5. z \o Append(y, w) = Append(z \o y, w)
    BY <2>1, ConcatAppend
  <2>6. Requests(a \o Append(x, w)) = z \o Requests(Append(x, w))
    BY <2>1, <2>2, <2>3, <2>4, <2>5
  <2> QED BY <1>1, <2>2, <2>6 DEF z
<1> HIDE DEF T
<1>4. \A x \in Seq(W) : x \in T
  BY <1>2, <1>3, Longer
<1>5. b \in T
  BY <1>4
<1> QED BY <1>1, <1>5 DEF T

\* No request has a command from 155 on.
Polite(requests) == \A i \in DOMAIN requests : Command(requests[i]) < 155

\* What holds for all requests holds for the earlier ones and for the next.
LEMMA PoliteParts ==
  ASSUME NEW W, NEW a \in Seq(W), NEW b \in Seq(W), Polite(Requests(a \o b))
  PROVE  /\ Polite(Requests(a))
         /\ b # << >> /\ ForUs(Head(b)) => Command(Head(b)) < 155
<1> DEFINE x == Requests(a)
           y == Requests(b)
           n == Len(x)
           m == Len(y)
           c == Requests(a \o b)
<1>1. x \in Seq(W) /\ y \in Seq(W) /\ c = x \o y
  BY RequestsConcat
<1>2. n = Len(x) /\ m = Len(y)
  OBVIOUS
<1>2a. Polite(c)
  OBVIOUS
<1> HIDE DEF x, y, c, n, m
<1>3. /\ c \in Seq(W) /\ Len(c) = n + m /\ n \in Nat /\ m \in Nat
      /\ \A i \in 1 .. (n + m) : c[i] = IF i <= n THEN x[i] ELSE y[i - n]
  BY <1>1, <1>2, ConcatAt
<1>4. \A i \in 1 .. (n + m) : Command(c[i]) < 155
  BY <1>2a, <1>3 DEF Polite
<1>5. Polite(x)
  <2>1. \A i \in 1 .. n : i \in 1 .. (n + m) /\ c[i] = x[i]
    BY <1>3
  <2>2. DOMAIN x = 1 .. n
    BY <1>1, <1>2
  <2> QED BY <1>4, <2>1, <2>2 DEF Polite
<1>6. ASSUME b # << >>, ForUs(Head(b))
      PROVE  Command(Head(b)) < 155
  <2> DEFINE f == Head(b)
             t == Tail(b)
             one == Append(<< >>, f)
  <2>1. f \in W /\ t \in Seq(W) /\ one \in Seq(W) /\ b = one \o t /\ << >> \in Seq(W)
    BY <1>6
  <2> HIDE DEF f, t
  <2>2. Requests(one) = Append(<< >>, f)
    <3>1. ForUs(f)
      BY <1>6 DEF f
    <3> QED BY <2>1, <3>1, RequestsAppend, RequestsNone
  <2> DEFINE z == Requests(t)
  <2>3. y = one \o z /\ z \in Seq(W)
    <3> HIDE DEF one, z
    <3>1. Requests(b) = Requests(one) \o Requests(t) /\ Requests(t) \in Seq(W)
      BY <2>1, RequestsConcat
    <3> QED BY <2>2, <3>1 DEF y, z, one
  <2> HIDE DEF z
  <2>4. Len(y) >= 1 /\ y[1] = f
    BY <2>1, <2>3
  <2>5. n + 1 \in 1 .. (n + m) /\ c[n + 1] = y[1]
    <3>1. m >= 1
      BY <1>2, <2>4
    <3>2. n + 1 \in 1 .. (n + m) /\ ~(n + 1 <= n) /\ (n + 1) - n = 1
      BY <1>3, <3>1
    <3> QED BY <1>3, <3>2
  <2> QED BY <1>4, <2>4, <2>5 DEF f
<1> QED BY <1>5, <1>6 DEF x

\* A reply repeats the request, is empty, or names the server.
Replying(reply, request) ==
  /\ SubSeq(reply, 1, 2) = <<COM_PORT_OPTION, Command(request) + 100>>
  /\ Value(reply) \in {Value(request), << >>, Signature}

Told(replies, requests) ==
  /\ replies \in Seq(Seq(Byte)) /\ requests \in Seq(Seq(Byte)) /\ Len(replies) = Len(requests)
  /\ \A i \in 1 .. Len(requests) : Replying(replies[i], requests[i])

\* No requests, no replies.
LEMMA ToldNone == Told(<< >>, << >>)
  BY Empty DEF Told

\* One request more and its reply.
LEMMA ToldNext ==
  ASSUME NEW replies, NEW requests, Told(replies, requests), NEW r \in Seq(Byte), NEW q \in Seq(Byte), Replying(r, q)
  PROVE  Told(replies \o <<r>>, Append(requests, q))
<1> DEFINE W == Seq(Byte)
           n == Len(requests)
           x == Append(replies, r)
           y == Append(requests, q)
<1>0. r \in W /\ q \in W
  OBVIOUS
<1>1. replies \in Seq(W) /\ requests \in Seq(W) /\ Len(replies) = n /\ n \in Nat
  BY DEF Told
<1> HIDE DEF W
<1>2. /\ x \in Seq(W) /\ Len(x) = n + 1 /\ x[n + 1] = r /\ \A i \in 1 .. n : x[i] = replies[i]
      /\ y \in Seq(W) /\ Len(y) = n + 1 /\ y[n + 1] = q /\ \A i \in 1 .. n : y[i] = requests[i]
  BY <1>0, <1>1, AppendProperties
<1>3. replies \o <<r>> = x
  BY <1>0, <1>1
<1> HIDE DEF x, y
<1>4. ASSUME NEW i \in 1 .. (n + 1)
      PROVE  Replying(x[i], y[i])
  <2>1. CASE i = n + 1
    BY <1>2, <2>1
  <2>2. CASE i # n + 1
    <3>1. i \in 1 .. n
      BY <1>1, <2>2
    <3> QED BY <1>2, <3>1 DEF Told
  <2> QED BY <2>1, <2>2
<1> QED BY <1>2, <1>3, <1>4 DEF Told, W, y

\* The parts of a reply.
LEMMA ReplyParts ==
  ASSUME NEW b \in Byte, NEW value \in Seq(Byte), NEW f, f = <<COM_PORT_OPTION, b>> \o value
  PROVE  SubSeq(f, 1, 2) = <<COM_PORT_OPTION, b>> /\ Value(f) = value
<1> DEFINE h == <<COM_PORT_OPTION, b>>
           n == Len(value)
<1>1. h \in Seq(Byte) /\ Len(h) = 2 /\ n \in Nat
  <2>1. COM_PORT_OPTION \in Byte
    BY Codes
  <2> QED BY <2>1
<1>2. f = h \o value
  OBVIOUS
<1> HIDE DEF h
<1>3. f \in Seq(Byte) /\ Len(f) = 2 + n /\ \A i \in 1 .. (2 + n) : f[i] = IF i <= 2 THEN h[i] ELSE value[i - 2]
  BY <1>1, <1>2, ConcatAt
<1> DEFINE p == SubSeq(f, 1, 2)
           q == SubSeq(f, 3, Len(f))
<1>4. p \in Seq(Byte) /\ Len(p) = 2 /\ \A i \in 1 .. 2 : p[i] = f[i]
  BY <1>1, <1>3
<1>5. q \in Seq(Byte) /\ Len(q) = n /\ \A i \in 1 .. n : q[i] = f[i + 2]
  BY <1>1, <1>3
<1> HIDE DEF p, q
<1>6. p = h
  <2>1. \A i \in 1 .. 2 : p[i] = h[i]
    BY <1>1, <1>3, <1>4
  <2> QED BY <1>1, <1>4, <2>1, SeqEqual
<1>7. q = value
  <2>1. \A i \in 1 .. n : i + 2 \in 1 .. (2 + n) /\ ~(i + 2 <= 2) /\ (i + 2) - 2 = i
    BY <1>1
  <2>2. \A i \in 1 .. n : q[i] = value[i]
    BY <1>3, <1>5, <2>1
  <2> QED BY <1>5, <2>2, SeqEqual
<1> QED BY <1>6, <1>7 DEF p, q, h, Value

-----------------------------------------------------------------------------
(* The conversation of a connection                                        *)

\* A reader of what was written is between tokens, and has found the bytes it was to find,
\* the offer, the answers to the words and the replies to the requests handled so far.
Exchange(written, bytes, words, handled) ==
  \E d, offer, answers :
    /\ After(written, d) /\ d.at = "data" /\ Data(written) = bytes
    /\ offer \in Seq(Words) /\ Len(offer) = 2
    /\ Said(written) = offer \o answers /\ Matches(answers, words)
    /\ Told(Bodies(written, "frame"), Requests(handled))

\* The offer alone is an exchange of nothing.
LEMMA ExchangeStarts == Exchange(Offer, << >>, << >>, << >>)
<1>1. PICK e : /\ e.at = "data" /\ After(Offer, e) /\ Data(Offer) = << >> /\ Bodies(Offer, "frame") = << >>
               /\ Said(Offer) \in Seq(Words) /\ Len(Said(Offer)) = 2
  BY OfferDecoded
<1> DEFINE a == Said(Offer)
<1>2. a \in Seq(Words) /\ Len(a) = 2
  BY <1>1
<1> HIDE DEF a
<1>3. a \o << >> = a
  BY <1>2
<1>4. Said(Offer) = a \o << >>
  BY <1>3 DEF a
<1> QED BY <1>1, <1>2, <1>4, MatchesNone, ToldNone, RequestsNone DEF Exchange

\* The device's bytes, escaped, are read as those bytes and as nothing else.
LEMMA ExchangeForwards ==
  ASSUME NEW o, NEW words, NEW handled, Exchange(o, << >>, words, handled), NEW bytes \in Seq(Byte)
  PROVE  Exchange(o \o EscapeIac(bytes), bytes, words, handled)
<1>1. PICK d, offer, answers :
        /\ After(o, d) /\ d.at = "data" /\ Data(o) = << >>
        /\ offer \in Seq(Words) /\ Len(offer) = 2
        /\ Said(o) = offer \o answers /\ Matches(answers, words)
        /\ Told(Bodies(o, "frame"), Requests(handled))
  BY DEF Exchange
<1> DEFINE t == o \o EscapeIac(bytes)
<1>2. PICK e : e.at = "data" /\ Leads(o, t, e, bytes, << >>, << >>)
  BY <1>1, EscapedData
<1> HIDE DEF t
<1>3. /\ After(t, e) /\ Added(Data(t), Data(o), bytes) /\ Added(Said(t), Said(o), << >>)
      /\ Added(Bodies(t, "frame"), Bodies(o, "frame"), << >>)
  BY <1>2 DEF Leads, Adding
<1>4. Data(t) = bytes
  <2>1. << >> \o bytes = bytes
    OBVIOUS
  <2> QED BY <1>1, <1>3, <2>1 DEF Added
<1>5. Said(t) = Said(o) /\ Bodies(t, "frame") = Bodies(o, "frame")
  <2> DEFINE a == Said(o)
             b == Bodies(o, "frame")
             W == Seq(Byte)
  <2>1. a \in Seq(Words) /\ b \in Seq(W)
    BY <1>1 DEF After
  <2> HIDE DEF a, b, W
  <2>2. a \o << >> = a /\ b \o << >> = b
    BY <2>1
  <2> QED BY <1>3, <2>2 DEF Added, a, b
<1>6. Exchange(t, bytes, words, handled)
  BY <1>1, <1>2, <1>3, <1>4, <1>5 DEF Exchange
<1> QED BY <1>6 DEF t

\* The replies of a read answer the options it named, and nothing else is read in them.
LEMMA ExchangeReplies ==
  ASSUME NEW o, NEW bytes, NEW words \in Seq(Words), NEW handled, Exchange(o, bytes, words, handled),
         NEW pending \in Seq(Words)
  PROVE  Exchange(o \o RepliesTo(pending), bytes, words \o pending, handled)
<1>1. PICK d, offer, answers :
        /\ After(o, d) /\ d.at = "data" /\ Data(o) = bytes
        /\ offer \in Seq(Words) /\ Len(offer) = 2
        /\ Said(o) = offer \o answers /\ Matches(answers, words)
        /\ Told(Bodies(o, "frame"), Requests(handled))
  BY DEF Exchange
<1> DEFINE t == o \o RepliesTo(pending)
<1>2. PICK e, v : e.at = "data" /\ Matches(v, pending) /\ Leads(o, t, e, << >>, v, << >>)
  BY <1>1, RepliesDecoded
<1> HIDE DEF t
<1>3. /\ After(t, e) /\ Added(Data(t), Data(o), << >>) /\ Added(Said(t), Said(o), v)
      /\ Added(Bodies(t, "frame"), Bodies(o, "frame"), << >>)
  BY <1>2 DEF Leads, Adding
<1>4. Data(t) = Data(o) /\ Bodies(t, "frame") = Bodies(o, "frame")
  <2> DEFINE a == Data(o)
             b == Bodies(o, "frame")
             W == Seq(Byte)
  <2>1. a \in Seq(Byte) /\ b \in Seq(W)
    BY <1>1 DEF After
  <2> HIDE DEF a, b, W
  <2>2. a \o << >> = a /\ b \o << >> = b
    BY <2>1
  <2> QED BY <1>3, <2>2 DEF Added, a, b
<1>5. Matches(answers \o v, words \o pending)
  BY <1>1, <1>2, MatchesConcat
<1>6. Said(t) = offer \o (answers \o v)
  <2>1. answers \in Seq(Words) /\ v \in Seq(Words)
    BY <1>1, <1>2 DEF Matches
  <2>2. (offer \o answers) \o v = offer \o (answers \o v)
    BY <1>1, <2>1
  <2> QED BY <1>1, <1>3, <2>2 DEF Added
<1>7. Exchange(t, bytes, words \o pending, handled)
  <2> DEFINE z == answers \o v
  <2>1. Said(t) = offer \o z /\ Matches(z, words \o pending)
    BY <1>5, <1>6
  <2> HIDE DEF z
  <2> QED BY <1>1, <1>2, <1>3, <1>4, <2>1 DEF Exchange
<1> QED BY <1>7 DEF t

\* A frame that is no request is left unanswered.
LEMMA ExchangeSkips ==
  ASSUME NEW o, NEW bytes, NEW words, NEW handled \in Seq(Seq(Byte)), Exchange(o, bytes, words, handled),
         NEW f \in Seq(Byte), ~ForUs(f)
  PROVE  Exchange(o, bytes, words, Append(handled, f))
<1> DEFINE W == Seq(Byte)
<1>1. handled \in Seq(W) /\ f \in W
  OBVIOUS
<1> HIDE DEF W
<1>2. Requests(Append(handled, f)) = Requests(handled)
  BY <1>1, RequestsAppend
<1> QED BY <1>2 DEF Exchange

\* A request is answered with a frame.
LEMMA ExchangeAnswers ==
  ASSUME NEW o, NEW bytes, NEW words, NEW handled \in Seq(Seq(Byte)), Exchange(o, bytes, words, handled),
         NEW f \in Seq(Byte), ForUs(f), Command(f) < 155,
         NEW value \in Seq(Byte), value \in {Value(f), << >>, Signature}
  PROVE  Exchange(o \o RfcReply(Command(f), value), bytes, words, Append(handled, f))
<1> DEFINE W == Seq(Byte)
           k == Command(f) + 100
           t == o \o RfcReply(Command(f), value)
<1>0. PICK d, offer, answers :
        /\ After(o, d) /\ d.at = "data" /\ Data(o) = bytes
        /\ offer \in Seq(Words) /\ Len(offer) = 2
        /\ Said(o) = offer \o answers /\ Matches(answers, words)
        /\ Told(Bodies(o, "frame"), Requests(handled))
  BY DEF Exchange
<1>1. Command(f) \in Byte
  BY DEF ForUs, Command
<1>2. PICK e, r : /\ e.at = "data" /\ r = <<COM_PORT_OPTION, k>> \o value /\ r \in Seq(Byte)
                  /\ Leads(o, t, e, << >>, << >>, <<r>>)
  BY <1>0, <1>1, RfcReplyDecoded
<1> HIDE DEF t
<1>3. /\ After(t, e) /\ Added(Data(t), Data(o), << >>) /\ Added(Said(t), Said(o), << >>)
      /\ Added(Bodies(t, "frame"), Bodies(o, "frame"), <<r>>)
  BY <1>2 DEF Leads, Adding
<1>4. Data(t) = Data(o) /\ Said(t) = Said(o)
  <2> DEFINE a == Data(o)
             b == Said(o)
  <2>1. a \in Seq(Byte) /\ b \in Seq(Words)
    BY <1>0 DEF After
  <2> HIDE DEF a, b
  <2>2. a \o << >> = a /\ b \o << >> = b
    BY <2>1
  <2> QED BY <1>3, <2>2 DEF Added, a, b
<1>5. Replying(r, f)
  <2>1. k \in Byte /\ r = <<COM_PORT_OPTION, k>> \o value
    BY <1>1, <1>2 DEF Byte
  <2>2. SubSeq(r, 1, 2) = <<COM_PORT_OPTION, k>> /\ Value(r) = value
    <3> HIDE DEF k
    <3> QED BY <2>1, ReplyParts
  <2> QED BY <2>2 DEF Replying
<1>6. Requests(Append(handled, f)) = Append(Requests(handled), f)
  <2>1. handled \in Seq(W) /\ f \in W
    OBVIOUS
  <2> HIDE DEF W
  <2> QED BY <2>1, RequestsAppend
<1>7. Told(Bodies(t, "frame"), Requests(Append(handled, f)))
  <2>1. Bodies(t, "frame") = Bodies(o, "frame") \o <<r>>
    BY <1>3 DEF Added
  <2> DEFINE b == Bodies(o, "frame")
             q == Requests(handled)
  <2>2. Told(b, q)
    BY <1>0
  <2> HIDE DEF b, q
  <2>3. Told(b \o <<r>>, Append(q, f))
    BY <1>2, <1>5, <2>2, ToldNext
  <2> QED BY <1>6, <2>1, <2>3 DEF b, q
<1>8. Exchange(t, bytes, words, Append(handled, f))
  BY <1>0, <1>2, <1>3, <1>4, <1>7 DEF Exchange
<1> QED BY <1>8 DEF t

-----------------------------------------------------------------------------
(* FrameAssembler                                                          *)

\* A frame is full at most and has the delimiter at its end only.
IsFrame(f) == Len(f) <= MaxFrame /\ \A k \in DOMAIN f : f[k] = Delim <=> k = Len(f)

\* What waits for its delimiter.
IsPartial(b) == b \in Seq(Byte) /\ Len(b) <= MaxFrame /\ \A k \in DOMAIN b : b[k] # Delim

AreFrames(frms) == frms \in Seq(Seq(Byte)) /\ \A i \in 1 .. Len(frms) : IsFrame(frms[i])

\* What an assembler holds is what it was given, unless it has overflowed.
Assembled(a, bytes) ==
  /\ DOMAIN a = {"buf", "frames", "overflow"} /\ a = [buf |-> a.buf, frames |-> a.frames, overflow |-> a.overflow]
  /\ bytes \in Seq(Byte) /\ a.overflow \in BOOLEAN /\ IsPartial(a.buf) /\ AreFrames(a.frames)
  /\ IF a.overflow THEN a.buf = << >> ELSE FlattenSeq(a.frames) \o a.buf = bytes

\* A delimiter completes a frame that is not full.
LEMMA Completed ==
  ASSUME NEW b, IsPartial(b), Len(b) < MaxFrame, Delim \in Byte
  PROVE  Append(b, Delim) \in Seq(Byte) /\ IsFrame(Append(b, Delim))
<1> DEFINE n == Len(b)
           f == Append(b, Delim)
<1>1. /\ f \in Seq(Byte) /\ Len(f) = n + 1 /\ n \in Nat /\ f[n + 1] = Delim
      /\ \A k \in 1 .. n : f[k] = b[k] /\ b[k] # Delim
  BY AppendProperties DEF IsPartial
<1> HIDE DEF f
<1>2. DOMAIN f = 1 .. (n + 1)
  BY <1>1
<1>3. ASSUME NEW k \in 1 .. (n + 1)
      PROVE  f[k] = Delim <=> k = n + 1
  BY <1>1
<1>4. Len(f) <= MaxFrame
  BY <1>1, StreamAssumption
<1> QED BY <1>1, <1>2, <1>3, <1>4 DEF IsFrame, f

\* Any other byte lengthens it.
LEMMA Lengthened ==
  ASSUME NEW b, IsPartial(b), Len(b) < MaxFrame, NEW x \in Byte, x # Delim
  PROVE  IsPartial(Append(b, x))
<1> DEFINE n == Len(b)
           f == Append(b, x)
<1>1. /\ f \in Seq(Byte) /\ Len(f) = n + 1 /\ n \in Nat /\ f[n + 1] = x
      /\ \A k \in 1 .. n : f[k] = b[k] /\ b[k] # Delim
  BY AppendProperties DEF IsPartial
<1> HIDE DEF f
<1>2. \A k \in 1 .. (n + 1) : f[k] # Delim
  BY <1>1
<1>3. Len(f) <= MaxFrame
  BY <1>1, StreamAssumption
<1> QED BY <1>1, <1>2, <1>3 DEF IsPartial, f

\* Frames and what follows them.
LEMMA FramesMore ==
  ASSUME NEW a, NEW b, AreFrames(a), AreFrames(b)
  PROVE  AreFrames(a \o b) /\ FlattenSeq(a \o b) = FlattenSeq(a) \o FlattenSeq(b)
<1> DEFINE W == Seq(Byte)
           n == Len(a)
           m == Len(b)
           c == a \o b
<1>1. a \in Seq(W) /\ b \in Seq(W)
  BY DEF AreFrames
<1>2. FlattenSeq(a \o b) = FlattenSeq(a) \o FlattenSeq(b)
  BY <1>1, FlattenConcat
<1> HIDE DEF W
<1>3. c \in Seq(W) /\ Len(c) = n + m /\ n \in Nat /\ m \in Nat
      /\ \A i \in 1 .. (n + m) : c[i] = IF i <= n THEN a[i] ELSE b[i - n]
  BY <1>1, ConcatAt
<1> HIDE DEF c
<1>4. ASSUME NEW i \in 1 .. (n + m)
      PROVE  IsFrame(c[i])
  <2>1. CASE i <= n
    <3>1. i \in 1 .. n /\ c[i] = a[i]
      BY <1>3, <2>1
    <3> QED BY <3>1 DEF AreFrames
  <2>2. CASE ~(i <= n)
    <3>1. i - n \in 1 .. m /\ c[i] = b[i - n]
      BY <1>3, <2>2
    <3> QED BY <3>1 DEF AreFrames
  <2> QED BY <2>1, <2>2
<1>5. AreFrames(c)
  BY <1>3, <1>4 DEF AreFrames, W
<1> QED BY <1>2, <1>5 DEF c

\* No frames hold no bytes.
LEMMA NoFrames == AreFrames(<< >>) /\ FlattenSeq(<< >>) = << >>
<1>1. << >> \in Seq(Seq(Byte)) /\ Len(<< >>) = 0
  BY Empty
<1> QED BY <1>1, FlattenNone DEF AreFrames

\* One frame more.
LEMMA FramesNext ==
  ASSUME NEW frms, AreFrames(frms), NEW f \in Seq(Byte), IsFrame(f)
  PROVE  AreFrames(Append(frms, f)) /\ FlattenSeq(Append(frms, f)) = FlattenSeq(frms) \o f
<1> DEFINE W == Seq(Byte)
           n == Len(frms)
           g == Append(frms, f)
<1>1. frms \in Seq(W) /\ f \in W
  BY DEF AreFrames
<1>2. FlattenSeq(g) = FlattenSeq(frms) \o f
  BY <1>1, FlattenAppend
<1> HIDE DEF W
<1>3. g \in Seq(W) /\ Len(g) = n + 1 /\ n \in Nat /\ g[n + 1] = f /\ \A i \in 1 .. n : g[i] = frms[i]
  BY <1>1, AppendProperties
<1> HIDE DEF g
<1>4. ASSUME NEW i \in 1 .. (n + 1)
      PROVE  IsFrame(g[i])
  <2>1. CASE i = n + 1
    BY <1>3, <2>1
  <2>2. CASE i # n + 1
    <3>1. i \in 1 .. n
      BY <1>3, <2>2
    <3> QED BY <1>3, <3>1 DEF AreFrames
  <2> QED BY <2>1, <2>2
<1>5. AreFrames(g)
  BY <1>3, <1>4 DEF AreFrames, W
<1> QED BY <1>2, <1>5 DEF g

\* The two ways a byte is kept.
LEMMA AssemblerParts ==
  ASSUME NEW a, NEW b, NEW frms, NEW o, a = [buf |-> b, frames |-> frms, overflow |-> o], NEW f, NEW x
  PROVE  /\ [a EXCEPT !.buf = << >>, !.frames = Append(@, f)]
              = [buf |-> << >>, frames |-> Append(frms, f), overflow |-> o]
         /\ [a EXCEPT !.buf = Append(@, x)] = [buf |-> Append(b, x), frames |-> frms, overflow |-> o]
<1>1. [a EXCEPT !.buf = << >>, !.frames = Append(@, f)]
        = [buf |-> << >>, frames |-> Append(frms, f), overflow |-> o]
  <2> DEFINE g == Append(a.frames, f)
             e == << >>
  <2>1. g = Append(frms, f) /\ e = << >>
    OBVIOUS
  <2> HIDE DEF g, e
  <2>2. [a EXCEPT !.buf = e, !.frames = g] = [buf |-> e, frames |-> g, overflow |-> o]
    <3> DEFINE c == [buf |-> e, frames |-> frms, overflow |-> o]
    <3>1. [a EXCEPT !.buf = e] = c
      OBVIOUS
    <3> HIDE DEF c
    <3>2. c = [buf |-> e, frames |-> frms, overflow |-> o]
      BY DEF c
    <3>3. [c EXCEPT !.frames = g] = [buf |-> e, frames |-> g, overflow |-> o]
      BY <3>2
    <3> QED BY <3>1, <3>3
  <2> QED BY <2>1, <2>2 DEF g, e
<1>2. [a EXCEPT !.buf = Append(@, x)] = [buf |-> Append(b, x), frames |-> frms, overflow |-> o]
  OBVIOUS
<1> QED BY <1>1, <1>2

\* One byte, wherever it falls.
LEMMA AssembledNext ==
  ASSUME NEW a, NEW s, Assembled(a, s), NEW x \in Byte
  PROVE  Assembled(PushByte(a, x, Delim, MaxFrame), Append(s, x))
<1> DEFINE b == a.buf
           frms == a.frames
           t == Append(s, x)
           F == FlattenSeq(frms)
<1>1. /\ a = [buf |-> b, frames |-> frms, overflow |-> a.overflow] /\ s \in Seq(Byte) /\ a.overflow \in BOOLEAN
      /\ IsPartial(b) /\ AreFrames(frms) /\ (IF a.overflow THEN b = << >> ELSE F \o b = s) /\ t \in Seq(Byte)
  BY DEF Assembled
<1>2. F \in Seq(Byte) /\ b \in Seq(Byte)
  BY <1>1, FlattenConcat DEF AreFrames, IsPartial
<1>3. Len(b) \in Nat /\ MaxFrame \in Nat
  BY <1>2, StreamAssumption
<1>4. CASE a.overflow
  <2>1. PushByte(a, x, Delim, MaxFrame) = a
    BY <1>4 DEF PushByte
  <2> QED BY <1>1, <1>4, <2>1 DEF Assembled
<1>5. CASE ~a.overflow /\ Full(b, MaxFrame)
  <2> DEFINE e == [buf |-> << >>, frames |-> << >>, overflow |-> TRUE]
  <2>1. PushByte(a, x, Delim, MaxFrame) = e
    BY <1>5 DEF PushByte, Assembler
  <2>2. IsPartial(<< >>)
    <3>1. << >> \in Seq(Byte) /\ Len(<< >>) = 0
      BY Empty
    <3> QED BY <1>3, <3>1 DEF IsPartial
  <2> QED BY <1>1, <2>1, <2>2, NoFrames DEF Assembled
<1>6. CASE ~a.overflow /\ ~Full(b, MaxFrame) /\ x = Delim
  <2> DEFINE f == Append(b, x)
             e == [buf |-> << >>, frames |-> Append(frms, f), overflow |-> FALSE]
  <2>1. PushByte(a, x, Delim, MaxFrame) = e
    <3>1. PushByte(a, x, Delim, MaxFrame) = [a EXCEPT !.buf = << >>, !.frames = Append(@, f)]
      BY <1>6 DEF PushByte
    <3>2. a = [buf |-> b, frames |-> frms, overflow |-> FALSE]
      BY <1>1, <1>6
    <3> HIDE DEF f, b, frms
    <3> QED BY <3>1, <3>2, AssemblerParts
  <2>2. f \in Seq(Byte) /\ IsFrame(f)
    BY <1>1, <1>3, <1>6, Completed DEF Full
  <2>3. AreFrames(Append(frms, f)) /\ FlattenSeq(Append(frms, f)) = F \o f
    <3> HIDE DEF f, F
    <3> QED BY <1>1, <2>2, FramesNext DEF F
  <2>4. F \o f = t /\ (F \o f) \o << >> = F \o f
    <3>1. F \o f = Append(F \o b, x)
      <4> HIDE DEF F, b
      <4> QED BY <1>2, ConcatAppend
    <3> DEFINE u == F \o f
    <3>2. u \in Seq(Byte)
      BY <1>2, <2>2
    <3> HIDE DEF u
    <3>3. u \o << >> = u
      BY <3>2
    <3> QED BY <1>1, <1>6, <3>1, <3>3 DEF u
  <2>5. IsPartial(<< >>)
    <3>1. << >> \in Seq(Byte) /\ Len(<< >>) = 0
      BY Empty
    <3> QED BY <1>3, <3>1 DEF IsPartial
  <2>6. Assembled(e, t)
    <3> DEFINE g == Append(frms, f)
    <3>1. AreFrames(g) /\ FlattenSeq(g) \o << >> = t
      BY <2>3, <2>4
    <3> HIDE DEF g, t
    <3>2. Assembled([buf |-> << >>, frames |-> g, overflow |-> FALSE], t)
      BY <1>1, <2>5, <3>1 DEF Assembled
    <3> QED BY <3>2 DEF g
  <2> QED BY <2>1, <2>6
<1>7. CASE ~a.overflow /\ ~Full(b, MaxFrame) /\ x # Delim
  <2> DEFINE f == Append(b, x)
             e == [buf |-> f, frames |-> frms, overflow |-> FALSE]
  <2>1. PushByte(a, x, Delim, MaxFrame) = e
    <3>1. PushByte(a, x, Delim, MaxFrame) = [a EXCEPT !.buf = Append(@, x)]
      BY <1>7 DEF PushByte
    <3>2. a = [buf |-> b, frames |-> frms, overflow |-> FALSE]
      BY <1>1, <1>7
    <3> HIDE DEF b, frms
    <3> QED BY <3>1, <3>2, AssemblerParts
  <2>2. IsPartial(f)
    BY <1>1, <1>3, <1>7, Lengthened DEF Full
  <2>3. F \o f = t
    BY <1>1, <1>2, <1>7, ConcatAppend
  <2> HIDE DEF f, t, F, frms
  <2>4. Assembled(e, t)
    BY <1>1, <2>2, <2>3 DEF Assembled, F
  <2> QED BY <2>1, <2>4 DEF t
<1> QED BY <1>4, <1>5, <1>6, <1>7

\* Push, as the function it is the last value of.
Pushes(f, buf, bytes, n) ==
  f = [i \in 0 .. n |-> IF i = 0 THEN Assembler(buf) ELSE PushByte(f[i - 1], bytes[i], Delim, MaxFrame)]
Pushing(buf, bytes) == CHOOSE f : Pushes(f, buf, bytes, Len(bytes))

\* Push is the last assembler of the run.
LEMMA PushIsPushing ==
  ASSUME NEW buf, NEW bytes
  PROVE  Push(buf, bytes, Delim, MaxFrame) = Pushing(buf, bytes)[Len(bytes)]
  BY ZenonT(30) DEF Push, Pushing, Pushes

\* There is such a function.
LEMMA CanBePushed ==
  ASSUME NEW buf, NEW bytes, NEW n \in Nat
  PROVE  \E f : Pushes(f, buf, bytes, n)
<1> DEFINE T == {k \in 0 .. n : \E f : Pushes(f, buf, bytes, k)}
           m == Assembler(buf)
           P(x, y) == PushByte(x, y, Delim, MaxFrame)
<1> HIDE DEF m, P
<1>0. ASSUME NEW f, NEW k
      PROVE  Pushes(f, buf, bytes, k) <=> f = [i \in 0 .. k |-> IF i = 0 THEN m ELSE P(f[i - 1], bytes[i])]
  BY DEF Pushes, m, P
<1>1. 0 \in T
  <2> DEFINE f == [i \in 0 .. 0 |-> m]
  <2>1. f = [i \in 0 .. 0 |-> IF i = 0 THEN m ELSE P(f[i - 1], bytes[i])]
    OBVIOUS
  <2> HIDE DEF f
  <2>2. Pushes(f, buf, bytes, 0)
    BY <1>0, <2>1
  <2> QED BY <2>2
<1>2. ASSUME NEW k \in 0 .. n, k < n, k \in T
      PROVE  k + 1 \in T
  <2>1. PICK f : Pushes(f, buf, bytes, k)
    BY <1>2
  <2>2. \A i \in 0 .. k : f[i] = IF i = 0 THEN m ELSE P(f[i - 1], bytes[i])
    BY <1>0, <2>1
  <2> DEFINE last == P(f[k], bytes[k + 1])
             g == [i \in 0 .. (k + 1) |-> IF i = k + 1 THEN last ELSE f[i]]
  <2>3. DOMAIN g = 0 .. (k + 1) /\ g[k + 1] = last /\ (\A i \in 0 .. k : g[i] = f[i]) /\ g = [i \in 0 .. (k + 1) |-> g[i]]
    <3> HIDE DEF last
    <3> QED OBVIOUS
  <2> HIDE DEF g
  <2>4. \A i \in 0 .. (k + 1) : g[i] = IF i = 0 THEN m ELSE P(g[i - 1], bytes[i])
    <3> SUFFICES ASSUME NEW i \in 0 .. (k + 1)
                 PROVE  g[i] = IF i = 0 THEN m ELSE P(g[i - 1], bytes[i])
      OBVIOUS
    <3>1. CASE i = k + 1
      <4>1. k \in 0 .. k /\ i # 0 /\ i - 1 = k
        BY <3>1
      <4> QED BY <2>3, <3>1, <4>1
    <3>2. CASE i # k + 1
      <4>1. i \in 0 .. k /\ (i # 0 => i - 1 \in 0 .. k)
        BY <3>2
      <4> QED BY <2>2, <2>3, <4>1
    <3> QED BY <3>1, <3>2
  <2>5. Pushes(g, buf, bytes, k + 1)
    <3>1. g = [i \in 0 .. (k + 1) |-> IF i = 0 THEN m ELSE P(g[i - 1], bytes[i])]
      BY <2>3, <2>4
    <3> QED BY <1>0, <3>1
  <2>6. k + 1 \in 0 .. n
    BY <1>2
  <2> HIDE DEF last
  <2> QED BY <2>5, <2>6
<1> HIDE DEF T
<1>3. n \in T
  BY <1>1, <1>2, UpFrom
<1> QED BY <1>3 DEF T

\* What comes out of an assembler is what went into it.
LEMMA PushKeeps ==
  ASSUME NEW buf, IsPartial(buf), NEW bytes \in Seq(Byte)
  PROVE  Assembled(Push(buf, bytes, Delim, MaxFrame), buf \o bytes)
<1> DEFINE D == Pushing(buf, bytes)
           n == Len(bytes)
<1>1. n \in Nat /\ (\A i \in 1 .. n : bytes[i] \in Byte) /\ buf \in Seq(Byte)
  BY DEF IsPartial
<1>2. Pushes(D, buf, bytes, n)
  BY <1>1, CanBePushed DEF Pushing
<1> HIDE DEF D
<1>3. \A i \in 0 .. n : D[i] = IF i = 0 THEN Assembler(buf) ELSE PushByte(D[i - 1], bytes[i], Delim, MaxFrame)
  BY <1>2 DEF Pushes
<1> DEFINE upTo(i) == SubSeq(bytes, 1, i)
           T == {i \in 0 .. n : Assembled(D[i], buf \o upTo(i))}
<1>4. 0 \in T
  <2>1. D[0] = Assembler(buf) /\ 0 \in 0 .. n
    BY <1>1, <1>3
  <2>2. upTo(0) = << >> /\ buf \o << >> = buf
    BY <1>1
  <2>3. Assembled(Assembler(buf), buf)
    <3>1. << >> \o buf = buf
      BY <1>1
    <3>2. Assembler(buf).buf = buf /\ Assembler(buf).frames = << >> /\ Assembler(buf).overflow = FALSE
      BY DEF Assembler
    <3>3. /\ DOMAIN Assembler(buf) = {"buf", "frames", "overflow"}
          /\ Assembler(buf) = [buf |-> buf, frames |-> << >>, overflow |-> FALSE]
      BY DEF Assembler
    <3> QED BY <1>1, <3>1, <3>2, <3>3, NoFrames DEF Assembled
  <2> QED BY <2>1, <2>2, <2>3
<1>5. ASSUME NEW i \in 0 .. n, i < n, i \in T
      PROVE  i + 1 \in T
  <2>1. i + 1 \in 0 .. n /\ i + 1 # 0 /\ (i + 1) - 1 = i /\ i + 1 \in 1 .. n
    BY <1>1, <1>5
  <2>2. D[i + 1] = PushByte(D[i], bytes[i + 1], Delim, MaxFrame) /\ bytes[i + 1] \in Byte
    BY <1>1, <1>3, <2>1
  <2> DEFINE x == upTo(i)
             b == bytes[i + 1]
             s == buf \o x
  <2>3. upTo(i + 1) = Append(x, b) /\ x \in Seq(Byte)
    BY <1>1, <2>1
  <2>4. buf \o Append(x, b) = Append(s, b)
    <3> HIDE DEF x, b
    <3> QED BY <1>1, <2>2, <2>3, ConcatAppend DEF b
  <2>5. Assembled(D[i + 1], Append(s, b))
    <3>1. Assembled(D[i], s)
      BY <1>5
    <3> HIDE DEF s, b
    <3> QED BY <2>2, <3>1, AssembledNext DEF b
  <2> QED BY <2>1, <2>3, <2>4, <2>5
<1> HIDE DEF T
<1>6. n \in T
  <2>1. \A i \in 0 .. n : i \in T
    BY <1>1, <1>4, <1>5, UpFrom
  <2> QED BY <1>1, <2>1
<1>7. upTo(n) = bytes
  OBVIOUS
<1>8. Assembled(D[n], buf \o bytes)
  BY <1>6, <1>7 DEF T
<1> QED BY <1>8, PushIsPushing DEF D

-----------------------------------------------------------------------------
(* What a connection has read and what it has written                      *)

\* After s, of which y is still to be dealt with: the words before the pending ones and
\* the frames before those of y have been answered in o, and h has been forwarded in it.
Talk(s, pc, y, o, h) ==
  \E words, pending, handled :
    /\ words \in Seq(Words) /\ pending \in Seq(Words) /\ handled \in Seq(Seq(Byte))
    /\ Added(Said(s), words, pending)
    /\ IF pc = "replies" THEN y.replies = RepliesTo(pending) ELSE pending = << >>
    /\ Added(Bodies(s, "frame"), handled, y.frames)
    /\ Polite(Requests(Bodies(s, "frame"))) => Exchange(o, h, words, handled)

\* Adding nothing.
LEMMA NoneLeft ==
  ASSUME NEW V, NEW x, NEW y \in Seq(V), Added(x, y, << >>)
  PROVE  x = y
  BY DEF Added

\* The same from another place, with the same frames left.
LEMMA TalkMoves ==
  ASSUME NEW s, NEW pc, NEW y, NEW o, NEW h, Talk(s, pc, y, o, h), pc # "replies",
         NEW to, to # "replies", NEW z, z.frames = y.frames
  PROVE  Talk(s, to, z, o, h)
  BY DEF Talk

\* A connection that has offered the option.
LEMMA TalkStarts ==
  ASSUME NEW y, y.frames = << >>
  PROVE  Talk(<< >>, "select", y, Offer, << >>)
<1>1. Said(<< >>) = << >> /\ Bodies(<< >>, "frame") = << >>
  BY AfterNone
<1>2. << >> \in Seq(Words) /\ << >> \in Seq(Seq(Byte))
  BY Empty
<1>3. Added(<< >>, << >>, << >>)
  BY DEF Added
<1> QED BY <1>1, <1>2, <1>3, ExchangeStarts DEF Talk

\* Bytes of the device are forwarded, once.
LEMMA TalkForwards ==
  ASSUME NEW s, NEW pc, NEW y, NEW o, Talk(s, pc, y, o, << >>), NEW chunk \in Seq(Byte)
  PROVE  Talk(s, pc, y, o \o EscapeIac(chunk), chunk)
  BY ExchangeForwards DEF Talk

\* A read adds words to answer and frames to deal with.
LEMMA TalkReads ==
  ASSUME NEW s, NEW d, After(s, d), NEW y, NEW o, NEW h, Talk(s, "select", y, o, h), y.frames = << >>,
         NEW t, NEW e, NEW p, NEW v, NEW z, Leads(s, t, e, p, v, z.frames), z.replies = RepliesTo(v)
  PROVE  Talk(t, "replies", z, o, h)
<1> DEFINE W == Seq(Byte)
           a == Said(s)
           f == Bodies(s, "frame")
           g == z.frames
<1>1. a \in Seq(Words) /\ f \in Seq(W)
  BY DEF After
<1>2. v \in Seq(Words) /\ g \in Seq(W) /\ Added(Said(t), a, v) /\ Added(Bodies(t, "frame"), f, g)
  BY DEF Leads, Adding
<1>3. PICK words, pending, handled :
        /\ words \in Seq(Words) /\ handled \in Seq(W) /\ pending = << >>
        /\ Added(a, words, pending) /\ Added(f, handled, << >>)
        /\ Polite(Requests(f)) => Exchange(o, h, words, handled)
  BY DEF Talk
<1>4. a = words /\ f = handled
  <2> HIDE DEF a, f, W
  <2> QED BY <1>3, NoneLeft
<1>5. Polite(Requests(Bodies(t, "frame"))) => Polite(Requests(f))
  <2>1. Bodies(t, "frame") = f \o g
    BY <1>2 DEF Added
  <2> HIDE DEF f, g, W
  <2> QED BY <1>1, <1>2, <2>1, PoliteParts
<1>6. Polite(Requests(Bodies(t, "frame"))) => Exchange(o, h, a, f)
  BY <1>3, <1>4, <1>5
<1> HIDE DEF a, f
<1> QED BY <1>1, <1>2, <1>6 DEF Talk

\* The replies are written.
LEMMA TalkReplies ==
  ASSUME NEW s, NEW y, NEW o, NEW h, Talk(s, "replies", y, o, h)
  PROVE  Talk(s, "payload", y, o \o y.replies, h)
<1> DEFINE W == Seq(Byte)
           f == Bodies(s, "frame")
<1>1. PICK words, pending, handled :
        /\ words \in Seq(Words) /\ pending \in Seq(Words) /\ handled \in Seq(W)
        /\ Added(Said(s), words, pending) /\ y.replies = RepliesTo(pending)
        /\ Added(f, handled, y.frames)
        /\ Polite(Requests(f)) => Exchange(o, h, words, handled)
  BY DEF Talk
<1> DEFINE all == words \o pending
<1>2. all \in Seq(Words) /\ Said(s) = all
  BY <1>1 DEF Added
<1>3. Polite(Requests(f)) => Exchange(o \o y.replies, h, all, handled)
  BY <1>1, ExchangeReplies
<1> HIDE DEF all
<1>4. Added(Said(s), all, << >>) /\ << >> \in Seq(Words)
  BY <1>2, Empty DEF Added
<1> QED BY <1>1, <1>2, <1>3, <1>4 DEF Talk

\* The next frame is dealt with.
LEMMA NextFrame ==
  ASSUME NEW x, NEW handled \in Seq(Seq(Byte)), NEW left \in Seq(Seq(Byte)), left # << >>, Added(x, handled, left)
  PROVE  /\ Head(left) \in Seq(Byte) /\ Append(handled, Head(left)) \in Seq(Seq(Byte))
         /\ Added(x, Append(handled, Head(left)), Tail(left))
<1> DEFINE W == Seq(Byte)
           f == Head(left)
           t == Tail(left)
           one == <<f>>
<1>1. handled \in Seq(W) /\ left \in Seq(W)
  OBVIOUS
<1> HIDE DEF W
<1>2. f \in W /\ t \in Seq(W) /\ one \in Seq(W) /\ left = one \o t
  BY <1>1
<1> HIDE DEF f, t
<1>3. Append(handled, f) = handled \o one /\ Append(handled, f) \in Seq(W)
  BY <1>1, <1>2
<1> HIDE DEF one
<1>4. (handled \o one) \o t = handled \o (one \o t)
  <2>1. handled \in Seq(W) /\ one \in Seq(W) /\ t \in Seq(W)
    BY <1>1, <1>2
  <2> QED BY ONLY <2>1, Concat
<1>5. Added(x, Append(handled, f), t)
  BY <1>2, <1>3, <1>4 DEF Added
<1> QED BY <1>2, <1>3, <1>5 DEF f, t, W

\* A frame that is no request.
LEMMA TalkSkips ==
  ASSUME NEW s, NEW pc, NEW y, NEW o, NEW h, Talk(s, pc, y, o, h), pc # "replies",
         y.frames \in Seq(Seq(Byte)), y.frames # << >>, ~ForUs(Head(y.frames)),
         NEW to, to # "replies", NEW z, z.frames = Tail(y.frames)
  PROVE  Talk(s, to, z, o, h)
<1> DEFINE b == Bodies(s, "frame")
           left == y.frames
           f == Head(left)
<1>1. PICK words, handled :
        /\ words \in Seq(Words) /\ << >> \in Seq(Words) /\ handled \in Seq(Seq(Byte))
        /\ Added(Said(s), words, << >>) /\ Added(b, handled, left)
        /\ Polite(Requests(b)) => Exchange(o, h, words, handled)
  BY DEF Talk
<1> DEFINE more == Append(handled, f)
<1> HIDE DEF b, left
<1>2. f \in Seq(Byte) /\ more \in Seq(Seq(Byte)) /\ Added(b, more, Tail(left))
  BY <1>1, NextFrame DEF left
<1> HIDE DEF f
<1>3. Polite(Requests(b)) => Exchange(o, h, words, more)
  BY <1>1, <1>2, ExchangeSkips DEF f, left
<1> HIDE DEF more
<1>4. Added(Bodies(s, "frame"), more, z.frames)
  BY <1>2 DEF b, left
<1> QED BY <1>1, <1>2, <1>3, <1>4 DEF Talk, b

\* A request is answered.
LEMMA TalkAnswers ==
  ASSUME NEW s, NEW pc, NEW y, NEW o, NEW h, Talk(s, pc, y, o, h), pc # "replies",
         y.frames \in Seq(Seq(Byte)), y.frames # << >>, NEW f, f = Head(y.frames), ForUs(f),
         NEW value \in Seq(Byte), value \in {Value(f), << >>, Signature},
         NEW to, to # "replies", NEW z, z.frames = Tail(y.frames)
  PROVE  Talk(s, to, z, o \o RfcReply(Command(f), value), h)
<1> DEFINE W == Seq(Byte)
           b == Bodies(s, "frame")
           left == y.frames
           p == o \o RfcReply(Command(f), value)
<1>1. PICK words, handled :
        /\ words \in Seq(Words) /\ << >> \in Seq(Words) /\ handled \in Seq(Seq(Byte))
        /\ Added(Said(s), words, << >>) /\ Added(b, handled, left)
        /\ Polite(Requests(b)) => Exchange(o, h, words, handled)
  BY DEF Talk
<1> DEFINE more == Append(handled, f)
<1>0. left \in Seq(W) /\ handled \in Seq(W) /\ left # << >> /\ f = Head(left)
  BY <1>1
<1> HIDE DEF b, left
<1>2. f \in Seq(Byte) /\ more \in Seq(Seq(Byte)) /\ Added(b, more, Tail(left))
  BY <1>0, <1>1, NextFrame
<1>3. Polite(Requests(b)) => Command(f) < 155
  <2> HIDE DEF W
  <2>1. b = handled \o left
    BY <1>1 DEF Added
  <2> QED BY <1>0, <2>1, PoliteParts
<1>4. Polite(Requests(b)) => Exchange(p, h, words, more)
  BY <1>1, <1>2, <1>3, ExchangeAnswers
<1> HIDE DEF more, p
<1>5. Added(Bodies(s, "frame"), more, z.frames)
  BY <1>2 DEF b, left
<1>6. Talk(s, to, z, p, h)
  BY <1>1, <1>2, <1>4, <1>5 DEF Talk, b
<1> QED BY <1>6 DEF p

\* With nothing left to deal with, what was written is what RepliesMatch asks for.
LEMMA TalkMatches ==
  ASSUME NEW s, NEW d, After(s, d), NEW y, NEW o, NEW h, Talk(s, "select", y, o, h), y.frames = << >>,
         Polite(Requests(Bodies(s, "frame")))
  PROVE  \E offer, answers :
           /\ Data(o) = h /\ offer \in Seq(Words) /\ Len(offer) = 2
           /\ Said(o) = offer \o answers /\ Matches(answers, Said(s))
           /\ Told(Bodies(o, "frame"), Requests(Bodies(s, "frame")))
<1> DEFINE W == Seq(Byte)
           a == Said(s)
           f == Bodies(s, "frame")
<1>1. PICK words, handled :
        /\ words \in Seq(Words) /\ handled \in Seq(W)
        /\ Added(a, words, << >>) /\ Added(f, handled, << >>)
        /\ Exchange(o, h, words, handled)
  BY DEF Talk
<1>2. a = words /\ f = handled
  <2> HIDE DEF a, f, W
  <2> QED BY <1>1, NoneLeft
<1> QED BY <1>1, <1>2 DEF Exchange

-----------------------------------------------------------------------------
(* The invariant of the wire                                               *)

Serving == Busy \cup {"answer"}

\* s has been decoded: d is where the decoder is, y is what the last read yielded, and g
\* is what was handed on.
Read(s, pc, d, y, g) ==
  /\ After(s, d) /\ y \in Yields /\ g \in Seq(Byte)
  /\ pc \in {"new", "select"} => y.frames = << >>
  /\ pc \in Serving => y.frames # << >>
  /\ pc \in {"replies", "payload"} => Added(Data(s), g, y.payload)
  /\ pc \in {"new", "select", "frames"} \cup Serving => g = Data(s)

\* What has been admitted is in the frames and in the one that is not complete.
Framing(frms, b, bytes) ==
  AreFrames(frms) /\ IsPartial(b) /\ bytes \in Seq(Byte) /\ FlattenSeq(frms) \o b = bytes

Wired(c) ==
  /\ Read(Taken(c), conn[c].pc, conn[c].decoder, conn[c].yield, given[c])
  /\ conn[c].pc = "new" => read[c] = 0 /\ out[c] = << >> /\ heard[c] = << >>
  /\ conn[c].pc \notin {"new", "closed"} => Talk(Taken(c), conn[c].pc, conn[c].yield, out[c], heard[c])
  /\ Framing(frames[c], conn[c].buf, admitted[c])

\* Nobody has read more than there is.
Streams ==
  /\ scenario \in Scenarios /\ \A c \in Conns : read[c] \in 0 .. Len(Stream(c))
  /\ DOMAIN read = Conns /\ DOMAIN given = Conns /\ DOMAIN admitted = Conns
  /\ DOMAIN frames = Conns /\ DOMAIN out = Conns /\ DOMAIN heard = Conns

WireInv == Streams /\ \A c \in Conns : Wired(c)

\* What a stream is, and a part of it.
LEMMA StreamTyped ==
  ASSUME scenario \in Scenarios, NEW c \in Conns
  PROVE  Stream(c) \in Seq(Byte) /\ scenario.chunk \in Seq(Byte) /\ scenario.cuts \subseteq Nat
  BY StreamAssumption DEF Stream

\* The bytes read up to j are those read up to i and those of the read in between.
LEMMA TakenMore ==
  ASSUME NEW V, NEW s \in Seq(V), NEW i \in Nat, NEW j \in Nat, i <= j, j <= Len(s)
  PROVE  /\ SubSeq(s, i + 1, j) \in Seq(V)
         /\ SubSeq(s, 1, j) = SubSeq(s, 1, i) \o SubSeq(s, i + 1, j)
<1> DEFINE a == SubSeq(s, 1, i)
           b == SubSeq(s, i + 1, j)
           c == SubSeq(s, 1, j)
           e == a \o b
<1>1. a \in Seq(V) /\ Len(a) = i /\ \A k \in 1 .. i : a[k] = s[k]
  OBVIOUS
<1>2. b \in Seq(V) /\ Len(b) = j - i /\ \A k \in 1 .. (j - i) : b[k] = s[k + i]
  OBVIOUS
<1>3. c \in Seq(V) /\ Len(c) = j /\ \A k \in 1 .. j : c[k] = s[k]
  OBVIOUS
<1> HIDE DEF a, b, c
<1>4. e \in Seq(V) /\ Len(e) = i + (j - i) /\ \A k \in 1 .. (i + (j - i)) : e[k] = IF k <= i THEN a[k] ELSE b[k - i]
  BY <1>1, <1>2, ConcatAt
<1> HIDE DEF e
<1>5. ASSUME NEW k \in 1 .. j
      PROVE  c[k] = e[k]
  <2>1. c[k] = s[k] /\ e[k] = IF k <= i THEN a[k] ELSE b[k - i]
    BY <1>3, <1>4
  <2>2. CASE k <= i
    BY <1>1, <2>1, <2>2
  <2>3. CASE ~(k <= i)
    <3>1. k - i \in 1 .. (j - i) /\ (k - i) + i = k
      BY <2>3
    <3> QED BY <1>2, <2>1, <2>3, <3>1
  <2> QED BY <2>2, <2>3
<1>6. c = e
  <2>1. Len(e) = j /\ Len(c) = j
    BY <1>3, <1>4
  <2> QED BY <1>3, <1>4, <1>5, <2>1, SeqEqual
<1> QED BY <1>2, <1>6 DEF a, b, c, e

\* Nothing has been read.
LEMMA TakenNone ==
  ASSUME NEW s
  PROVE  SubSeq(s, 1, 0) = << >>
  OBVIOUS

\* From one place to another, with nothing decoded or handed on.
LEMMA ReadMoves ==
  ASSUME NEW s, NEW pc, NEW d, NEW y, NEW g, Read(s, pc, d, y, g), NEW to,
         \/ to = "closed"
         \/ pc \in Serving \cup {"frames"} /\ to \in Serving /\ y.frames # << >>
         \/ pc = "replies" /\ to = "payload"
         \/ pc = "new" /\ to = "select"
  PROVE  Read(s, to, d, y, g)
  BY DEF Read, Serving, Busy

\* One frame is dealt with, or the batch is.
LEMMA ReadServed ==
  ASSUME NEW s, NEW pc, NEW d, NEW y, NEW g, Read(s, pc, d, y, g), NEW to, NEW z \in Yields,
         pc \in Serving \cup {"frames"}, to = "frames" \/ (to = "select" /\ z.frames = << >>)
  PROVE  Read(s, to, d, z, g)
  BY DEF Read, Serving, Busy

\* The payload is handed on.
LEMMA ReadHandsOn ==
  ASSUME NEW s, NEW d, NEW y, NEW g, Read(s, "payload", d, y, g)
  PROVE  Read(s, "frames", d, y, g \o y.payload)
<1>1. /\ After(s, d) /\ y \in Yields /\ Data(s) = g \o y.payload /\ Data(s) \in Seq(Byte)
  BY DEF Read, Added, After
<1> QED BY <1>1 DEF Read, Serving, Busy

\* A read: wherever it ends, its words and frames are those of the stream.
LEMMA ReadFeeds ==
  ASSUME NEW s, NEW d, NEW y, NEW g, Read(s, "select", d, y, g), NEW o, NEW h, Talk(s, "select", y, o, h),
         NEW chunk \in Seq(Byte), NEW m, m = Feed(d, chunk)
  PROVE  Read(s \o chunk, "replies", m.decoder, m.yield, g) /\ Talk(s \o chunk, "replies", m.yield, o, h)
<1> DEFINE t == s \o chunk
           z == m.yield
           e == m.decoder
<1>1. After(s, d) /\ y.frames = << >> /\ g \in Seq(Byte) /\ g = Data(s)
  BY DEF Read
<1>2. PICK words : Took(s, d, chunk, words)
  BY <1>1, FeedReads
<1>3. /\ m \in Machines /\ Leads(s, t, e, z.payload, words, z.frames) /\ z.replies = RepliesTo(words)
  BY <1>2 DEF Took
<1>4. z \in Yields
  BY <1>3 DEF Machines
<1> HIDE DEF t, z, e
<1>5. Talk(t, "replies", z, o, h)
  BY <1>1, <1>3, TalkReads
<1>6. After(t, e) /\ Added(Data(t), g, z.payload)
  BY <1>1, <1>3 DEF Leads, Adding
<1>7. Read(t, "replies", e, z, g)
  BY <1>1, <1>4, <1>6 DEF Read, Serving, Busy
<1> QED BY <1>5, <1>7 DEF t, z, e

\* The assembler takes what is admitted.
LEMMA FramingPushes ==
  ASSUME NEW frms, NEW b, NEW bytes, Framing(frms, b, bytes), NEW more \in Seq(Byte),
         NEW a, a = Push(b, more, Delim, MaxFrame)
  PROVE  /\ a.overflow => Framing(<< >>, a.buf, << >>)
         /\ ~a.overflow => Framing(frms \o a.frames, a.buf, bytes \o more)
<1> DEFINE F == FlattenSeq(frms)
           G == FlattenSeq(a.frames)
           c == a.buf
<1>1. /\ AreFrames(frms) /\ IsPartial(b) /\ b \in Seq(Byte) /\ bytes \in Seq(Byte) /\ F \o b = bytes
  BY DEF Framing, IsPartial
<1>2. Assembled(a, b \o more)
  BY <1>1, PushKeeps
<1>3. /\ IsPartial(c) /\ AreFrames(a.frames) /\ c \in Seq(Byte)
      /\ IF a.overflow THEN c = << >> ELSE G \o c = b \o more
  BY <1>2 DEF Assembled, IsPartial
<1>4. CASE a.overflow
  <2>1. << >> \in Seq(Byte) /\ << >> \o << >> = << >>
    BY Empty
  <2> QED BY <1>3, <1>4, <2>1, NoFrames DEF Framing
<1>5. CASE ~a.overflow
  <2> DEFINE all == frms \o a.frames
             H == FlattenSeq(all)
  <2>1. AreFrames(all) /\ H = F \o G
    BY <1>1, <1>3, FramesMore
  <2>2. F \in Seq(Byte) /\ G \in Seq(Byte)
    BY <1>1, <1>3, FlattenConcat DEF AreFrames
  <2> HIDE DEF H, F, G, c
  <2>3. H \o c = bytes \o more
    <3>0. F \in Seq(Byte) /\ G \in Seq(Byte) /\ c \in Seq(Byte) /\ b \in Seq(Byte) /\ more \in Seq(Byte)
      BY <1>1, <1>3, <2>2
    <3>1. (F \o G) \o c = F \o (G \o c)
      BY ONLY <3>0, Concat
    <3>2. (F \o b) \o more = F \o (b \o more)
      BY ONLY <3>0, Concat
    <3> QED BY ONLY <1>1, <1>3, <1>5, <2>1, <3>1, <3>2
  <2>4. bytes \o more \in Seq(Byte)
    BY <1>1
  <2> DEFINE u == bytes \o more
  <2> HIDE DEF all, u
  <2>5. Framing(all, c, u)
    BY <1>3, <2>1, <2>3, <2>4 DEF Framing, H, u
  <2> QED BY <1>5, <2>5 DEF all, c, u
<1> QED BY <1>4, <1>5

-----------------------------------------------------------------------------
(* Steps that leave what was read and written alone                        *)

\* Of connection c nothing has changed that the wire can tell.
Same(c) ==
  /\ scenario' = scenario /\ read'[c] = read[c] /\ given'[c] = given[c] /\ admitted'[c] = admitted[c]
  /\ frames'[c] = frames[c] /\ out'[c] = out[c] /\ heard'[c] = heard[c]
  /\ conn'[c].decoder = conn[c].decoder /\ conn'[c].yield = conn[c].yield /\ conn'[c].buf = conn[c].buf

\* It is where it was, has closed, or goes on with the request of a frame.
GoesOn(c) ==
  \/ conn'[c].pc = conn[c].pc
  \/ conn'[c].pc = "closed"
  \/ /\ conn[c].pc \in Serving \cup {"frames"} /\ conn'[c].pc \in Serving
     /\ conn[c].pc \in Serving \/ conn[c].yield.frames # << >>

\* What a connection's wire state says does not change when neither it nor the streams do.
LEMMA Stays ==
  ASSUME NEW c \in Conns, Wired(c), Same(c), GoesOn(c)
  PROVE  Wired(c)'
<1> DEFINE s == Taken(c)
           pc == conn[c].pc
           to == conn'[c].pc
           d == conn[c].decoder
           y == conn[c].yield
           g == given[c]
           o == out[c]
           h == heard[c]
<1>1. /\ Read(s, pc, d, y, g) /\ (pc = "new" => read[c] = 0 /\ o = << >> /\ h = << >>)
      /\ pc \notin {"new", "closed"} => Talk(s, pc, y, o, h)
      /\ Framing(frames[c], conn[c].buf, admitted[c])
  BY DEF Wired
<1>2. /\ Taken(c)' = s /\ conn'[c].decoder = d /\ conn'[c].yield = y /\ given'[c] = g /\ out'[c] = o /\ heard'[c] = h
      /\ read'[c] = read[c] /\ frames'[c] = frames[c] /\ conn'[c].buf = conn[c].buf /\ admitted'[c] = admitted[c]
  BY DEF Same, Taken, Stream
<1>3. \/ to = pc \/ to = "closed"
      \/ pc \in Serving \cup {"frames"} /\ to \in Serving /\ y.frames # << >>
  BY <1>1 DEF GoesOn, Read
<1> HIDE DEF s, pc, to, d, y, g, o, h
<1>4. Read(s, to, d, y, g)
  BY <1>1, <1>3, ReadMoves
<1>5. to = "new" => pc = "new"
  BY <1>3 DEF Serving, Busy
<1>6. to \notin {"new", "closed"} => Talk(s, to, y, o, h)
  <2>1. CASE to = pc
    BY <1>1, <2>1
  <2>2. CASE pc \in Serving \cup {"frames"} /\ to \in Serving
    <3>1. pc \notin {"new", "closed", "replies"} /\ to # "replies"
      BY <2>2 DEF Serving, Busy
    <3> QED BY <1>1, <3>1, TalkMoves
  <2> QED BY <1>3, <2>1, <2>2
<1>7. Taken(c)' = s /\ conn'[c].pc = to
  BY <1>2 DEF to
<1> QED BY <1>1, <1>2, <1>4, <1>5, <1>6, <1>7 DEF Wired

\* A step that reads, writes and admits nothing.
LEMMA QuietStep ==
  ASSUME WireInv, UNCHANGED peerVars,
         \A c \in Conns : /\ GoesOn(c) /\ conn'[c].decoder = conn[c].decoder
                          /\ conn'[c].yield = conn[c].yield /\ conn'[c].buf = conn[c].buf
  PROVE  WireInv'
<1>1. Streams'
  BY DEF WireInv, Streams, Stream, peerVars
<1>2. ASSUME NEW c \in Conns PROVE Wired(c)'
  <2>1. Wired(c) /\ GoesOn(c) /\ Same(c)
    BY DEF WireInv, Same, peerVars
  <2> QED BY <2>1, Stays
<1> QED BY <1>1, <1>2 DEF WireInv

\* Requests, the owner, the port and the other clients.
LEMMA RequestsAreQuiet ==
  ASSUME Shape, WireInv, NEW c \in Conns,
         \/ Closes(c) \/ Unleased(c) \/ AcquireLock(c) \/ Request(c) \/ SendControl(c)
         \/ TimesOut(c) \/ Answered(c) \/ ReleaseLock(c)
  PROVE  WireInv'
<1> USE DEF Shape, Fields
<1>1. UNCHANGED peerVars
  BY DEF Closes, Unleased, AcquireLock, Request, SendControl, TimesOut, Answered, ReleaseLock
<1>2. /\ \A d \in Conns : d # c => conn'[d] = conn[d]
      /\ conn'[c].decoder = conn[c].decoder /\ conn'[c].yield = conn[c].yield /\ conn'[c].buf = conn[c].buf
  BY DEF Closes, Unleased, AcquireLock, Request, SendControl, TimesOut, Answered, ReleaseLock, Goes
<1>3. GoesOn(c)
  <2>1. CASE Closes(c)
    BY <2>1 DEF Closes, Goes, GoesOn
  <2>2. CASE Unleased(c) \/ AcquireLock(c)
    BY <2>2 DEF Unleased, AcquireLock, GoesOn, Serving, Busy
  <2>3. CASE Request(c) \/ SendControl(c) \/ TimesOut(c) \/ Answered(c) \/ ReleaseLock(c)
    BY <2>3 DEF Request, SendControl, TimesOut, Answered, ReleaseLock, Goes, GoesOn, Serving, Busy
  <2> QED BY <2>1, <2>2, <2>3
<1>4. \A d \in Conns : d # c => GoesOn(d)
  BY <1>2 DEF GoesOn
<1> QED BY <1>1, <1>2, <1>3, <1>4, QuietStep

\* The steps of the owner, of another client and of the lease clock.
LEMMA HubIsQuiet ==
  ASSUME Shape, WireInv, Owner \/ OtherAcquires \/ LeaseEnds \/ UNCHANGED vars
  PROVE  WireInv'
<1>1. UNCHANGED peerVars
  BY DEF Owner, ApplySettings, ApplyControl, PortLost, Drain, Reopen, OtherAcquires, LeaseEnds, vars
<1>2. \A c \in Conns : conn'[c] = conn[c] \/ \E a : conn'[c] = [conn[c] EXCEPT !.ack = a]
  <2>1. CASE ApplySettings
    <3>1. PICK e, a : Acknowledge(e, a)
      BY <2>1 DEF ApplySettings
    <3> QED BY <3>1 DEF Acknowledge, Shape
  <2>2. CASE ApplyControl
    <3>1. PICK e, a : Acknowledge(e, a)
      BY <2>2 DEF ApplyControl
    <3> QED BY <3>1 DEF Acknowledge, Shape
  <2>3. CASE Drain
    BY <2>3 DEF Drain
  <2>4. CASE PortLost \/ Reopen \/ OtherAcquires \/ LeaseEnds \/ UNCHANGED vars
    BY <2>4 DEF PortLost, Reopen, OtherAcquires, LeaseEnds, vars
  <2> QED BY <2>1, <2>2, <2>3, <2>4 DEF Owner
<1>3. ASSUME NEW c \in Conns
      PROVE  /\ GoesOn(c) /\ conn'[c].decoder = conn[c].decoder
             /\ conn'[c].yield = conn[c].yield /\ conn'[c].buf = conn[c].buf
  <2>1. /\ conn'[c].pc = conn[c].pc /\ conn'[c].decoder = conn[c].decoder
        /\ conn'[c].yield = conn[c].yield /\ conn'[c].buf = conn[c].buf
    BY <1>2 DEF Shape, Fields
  <2> QED BY <2>1 DEF GoesOn
<1> QED BY <1>1, <1>3, QuietStep

-----------------------------------------------------------------------------
(* Steps that read, hand on and write                                      *)

\* Nothing happens to the other connections.
Apartly(c) == \A d \in Conns : d # c => Same(d) /\ conn'[d].pc = conn[d].pc

\* A step of one connection leaves the others as they are.
LEMMA OneStep ==
  ASSUME WireInv, NEW c \in Conns, Streams', Apartly(c), Wired(c)'
  PROVE  WireInv'
<1>1. ASSUME NEW d \in Conns, d # c
      PROVE  Wired(d)'
  <2>1. Wired(d) /\ Same(d) /\ GoesOn(d)
    BY <1>1 DEF WireInv, Apartly, GoesOn
  <2> QED BY <2>1, Stays
<1> QED BY <1>1 DEF WireInv

\* Accept: the offer is written, the decoder starts.
LEMMA AcceptWired ==
  ASSUME Shape, WireInv, NEW c \in Conns, Accept(c)
  PROVE  WireInv'
<1> DEFINE d == conn[c].decoder
           y == conn[c].yield
           g == given[c]
<1>1. /\ conn[c].pc = "new" /\ conn'[c].pc = "select" /\ out'[c] = Offer
      /\ conn'[c].decoder = d /\ conn'[c].yield = y /\ conn'[c].buf = conn[c].buf
      /\ UNCHANGED <<scenario, read, given, admitted, frames, heard>>
      /\ \A e \in Conns : e # c => conn'[e] = conn[e] /\ out'[e] = out[e]
      /\ DOMAIN out' = DOMAIN out
  BY DEF Accept, Goes, Shape, Fields, WireInv, Streams
<1>2. Streams' /\ Apartly(c)
  BY <1>1 DEF WireInv, Streams, Stream, Apartly, Same
<1>3. Wired(c) /\ read[c] = 0 /\ heard[c] = << >> /\ Taken(c) = << >>
  BY <1>1, TakenNone DEF WireInv, Wired, Taken
<1>4. Read(<< >>, "new", d, y, g) /\ Framing(frames[c], conn[c].buf, admitted[c])
  BY <1>1, <1>3 DEF Wired
<1> HIDE DEF d, y, g
<1>5. Read(<< >>, "select", d, y, g) /\ y.frames = << >>
  BY <1>4, ReadMoves DEF Read
<1>6. Talk(<< >>, "select", y, Offer, << >>)
  BY <1>5, TalkStarts
<1>7. Taken(c)' = << >>
  BY <1>1, <1>3 DEF Taken, Stream
<1>8. Wired(c)'
  BY <1>1, <1>3, <1>4, <1>5, <1>6, <1>7 DEF Wired, g
<1> QED BY <1>2, <1>8, OneStep

\* Forward: the device's bytes are written, escaped.
LEMMA ForwardWired ==
  ASSUME WireInv, NEW c \in Conns, Forward(c)
  PROVE  WireInv'
<1> DEFINE y == conn[c].yield
           o == out[c]
           h == heard[c]
           chunk == scenario.chunk
           p == o \o EscapeIac(chunk)
<1>1. /\ conn[c].pc = "select" /\ heard[c] = << >> /\ heard'[c] = chunk /\ out'[c] = p
      /\ UNCHANGED <<scenario, read, conn, given, admitted, frames>>
      /\ \A e \in Conns : e # c => heard'[e] = heard[e] /\ out'[e] = out[e]
      /\ DOMAIN out' = DOMAIN out /\ DOMAIN heard' = DOMAIN heard
  BY DEF Forward, WireInv, Streams
<1>2. Streams' /\ Apartly(c)
  BY <1>1 DEF WireInv, Streams, Stream, Apartly, Same
<1>3. Wired(c) /\ chunk \in Seq(Byte)
  BY StreamTyped DEF WireInv, Streams
<1>4. Talk(Taken(c), "select", y, o, << >>)
  BY <1>1, <1>3 DEF Wired
<1>5. Talk(Taken(c), "select", y, p, chunk)
  BY <1>3, <1>4, TalkForwards
<1>6. Taken(c)' = Taken(c)
  BY <1>1 DEF Taken, Stream
<1> HIDE DEF p, chunk
<1>7. Wired(c)'
  BY <1>1, <1>3, <1>5, <1>6 DEF Wired
<1> QED BY <1>2, <1>7, OneStep

\* Receive: a read moves on in the stream, and its yield is pending.
LEMMA ReceiveWired ==
  ASSUME Shape, WireInv, NEW c \in Conns, Receive(c)
  PROVE  WireInv'
<1> DEFINE s == Taken(c)
           d == conn[c].decoder
           y == conn[c].yield
           g == given[c]
           o == out[c]
           h == heard[c]
<1>1. PICK upTo \in scenario.cuts :
        /\ read[c] < upTo /\ upTo <= Len(Stream(c))
        /\ read' = [read EXCEPT ![c] = upTo]
        /\ \E m : /\ m = Feed(d, SubSeq(Stream(c), read[c] + 1, upTo))
                  /\ conn' = [conn EXCEPT ![c].pc = "replies", ![c].decoder = m.decoder, ![c].yield = m.yield]
  BY DEF Receive
<1> DEFINE chunk == SubSeq(Stream(c), read[c] + 1, upTo)
<1>2. PICK m : /\ m = Feed(d, chunk)
               /\ conn' = [conn EXCEPT ![c].pc = "replies", ![c].decoder = m.decoder, ![c].yield = m.yield]
  BY <1>1
<1>3. /\ conn[c].pc = "select" /\ UNCHANGED <<scenario, given, admitted, frames, out, heard>>
  BY DEF Receive
<1>4. /\ conn'[c].pc = "replies" /\ conn'[c].decoder = m.decoder /\ conn'[c].yield = m.yield
      /\ conn'[c].buf = conn[c].buf /\ read'[c] = upTo /\ DOMAIN read' = DOMAIN read
      /\ \A e \in Conns : e # c => conn'[e] = conn[e] /\ read'[e] = read[e]
  BY <1>1, <1>2 DEF Shape, Fields, WireInv, Streams
<1>5. Stream(c) \in Seq(Byte) /\ upTo \in Nat /\ read[c] \in Nat /\ read[c] <= upTo
  BY <1>1, StreamTyped DEF WireInv, Streams
<1>6. Streams' /\ Apartly(c)
  <2>1. upTo \in 0 .. Len(Stream(c))
    BY <1>1, <1>5
  <2> QED BY <1>3, <1>4, <2>1 DEF WireInv, Streams, Stream, Apartly, Same
<1>7. chunk \in Seq(Byte) /\ Taken(c)' = s \o chunk
  <2>1. Taken(c)' = SubSeq(Stream(c), 1, upTo)
    BY <1>3, <1>4 DEF Taken, Stream
  <2> DEFINE a == Stream(c)
             i == read[c]
  <2>2. a \in Seq(Byte) /\ i \in Nat /\ upTo \in Nat /\ i <= upTo /\ upTo <= Len(a)
    BY <1>1, <1>5
  <2> HIDE DEF a, i
  <2>3. SubSeq(a, i + 1, upTo) \in Seq(Byte) /\ SubSeq(a, 1, upTo) = SubSeq(a, 1, i) \o SubSeq(a, i + 1, upTo)
    BY ONLY <2>2, TakenMore
  <2> QED BY ONLY <2>1, <2>3 DEF Taken, a, i
<1>8. Wired(c)
  BY DEF WireInv
<1>9. Read(s, "select", d, y, g) /\ Talk(s, "select", y, o, h) /\ Framing(frames[c], conn[c].buf, admitted[c])
  BY <1>3, <1>8 DEF Wired
<1> HIDE DEF chunk
<1>10. Read(s \o chunk, "replies", m.decoder, m.yield, g) /\ Talk(s \o chunk, "replies", m.yield, o, h)
  <2> HIDE DEF s, d, y, g, o, h
  <2> QED BY <1>2, <1>7, <1>9, ReadFeeds
<1> DEFINE t == s \o chunk
<1> HIDE DEF t
<1>11. Wired(c)'
  BY <1>3, <1>4, <1>7, <1>9, <1>10 DEF Wired, t
<1> QED BY <1>6, <1>11, OneStep

\* Replies: the answers to the options of the read are written.
LEMMA RepliesWired ==
  ASSUME Shape, WireInv, NEW c \in Conns, Replies(c)
  PROVE  WireInv'
<1> DEFINE s == Taken(c)
           d == conn[c].decoder
           y == conn[c].yield
           g == given[c]
           o == out[c]
           h == heard[c]
           p == o \o y.replies
<1>1. /\ conn[c].pc = "replies" /\ conn'[c].pc = "payload" /\ out'[c] = p
      /\ conn'[c].decoder = d /\ conn'[c].yield = y /\ conn'[c].buf = conn[c].buf
      /\ UNCHANGED <<scenario, read, given, admitted, frames, heard>>
      /\ \A e \in Conns : e # c => conn'[e] = conn[e] /\ out'[e] = out[e]
      /\ DOMAIN out' = DOMAIN out
  BY DEF Replies, Goes, Shape, Fields, WireInv, Streams
<1>2. Streams' /\ Apartly(c)
  BY <1>1 DEF WireInv, Streams, Stream, Apartly, Same
<1>3. Wired(c)
  BY DEF WireInv
<1>4. Read(s, "replies", d, y, g) /\ Talk(s, "replies", y, o, h) /\ Framing(frames[c], conn[c].buf, admitted[c])
  BY <1>1, <1>3 DEF Wired
<1>5. Taken(c)' = s
  BY <1>1 DEF Taken, Stream
<1>6. Read(s, "payload", d, y, g)
  BY <1>4, ReadMoves
<1>7. Talk(s, "payload", y, p, h)
  BY <1>4, TalkReplies
<1> HIDE DEF p
<1>8. Wired(c)'
  BY <1>1, <1>4, <1>5, <1>6, <1>7 DEF Wired
<1> QED BY <1>2, <1>8, OneStep

\* Payload is refused.
LEMMA DeniedWired ==
  ASSUME Shape, WireInv, NEW c \in Conns, Denied(c)
  PROVE  WireInv'
<1> DEFINE s == Taken(c)
           d == conn[c].decoder
           y == conn[c].yield
           g == given[c] \o y.payload
           o == out[c]
           h == heard[c]
<1>1. /\ conn[c].pc = "payload" /\ conn'[c].pc = "frames" /\ given'[c] = g
      /\ conn'[c].decoder = d /\ conn'[c].yield = y /\ conn'[c].buf = conn[c].buf
      /\ UNCHANGED <<scenario, read, admitted, frames, out, heard>>
      /\ \A e \in Conns : e # c => conn'[e] = conn[e] /\ given'[e] = given[e]
      /\ DOMAIN given' = DOMAIN given
  BY DEF Denied, Goes, Shape, Fields, WireInv, Streams
<1>2. Streams' /\ Apartly(c)
  BY <1>1 DEF WireInv, Streams, Stream, Apartly, Same
<1>3. Wired(c)
  BY DEF WireInv
<1>4. Read(s, "payload", d, y, given[c]) /\ Talk(s, "payload", y, o, h) /\ Framing(frames[c], conn[c].buf, admitted[c])
  BY <1>1, <1>3 DEF Wired
<1>5. Taken(c)' = s
  BY <1>1 DEF Taken, Stream
<1>6. Read(s, "frames", d, y, g)
  BY <1>4, ReadHandsOn
<1>7. Talk(s, "frames", y, o, h)
  BY <1>4, TalkMoves
<1> HIDE DEF g
<1>8. Wired(c)'
  BY <1>1, <1>4, <1>5, <1>6, <1>7 DEF Wired
<1> QED BY <1>2, <1>8, OneStep

\* Payload is admitted and cut into frames.
LEMMA AdmitWired ==
  ASSUME Shape, WireInv, NEW c \in Conns, Admit(c)
  PROVE  WireInv'
<1> DEFINE s == Taken(c)
           d == conn[c].decoder
           y == conn[c].yield
           g == given[c] \o y.payload
           o == out[c]
           h == heard[c]
           a == Push(conn[c].buf, y.payload, Delim, MaxFrame)
           all == IF a.overflow THEN << >> ELSE admitted[c] \o y.payload
           frms == IF a.overflow THEN << >> ELSE frames[c] \o a.frames
<1>1. /\ conn[c].pc = "payload"
      /\ given' = [given EXCEPT ![c] = g]
      /\ admitted' = [admitted EXCEPT ![c] = all] /\ frames' = [frames EXCEPT ![c] = frms]
      /\ conn' = [conn EXCEPT ![c].pc = "frames", ![c].buf = a.buf]
      /\ UNCHANGED <<scenario, read, out, heard>>
  BY DEF Admit
<1> HIDE DEF all, frms, a
<1>2. /\ conn'[c].pc = "frames" /\ conn'[c].decoder = d /\ conn'[c].yield = y /\ conn'[c].buf = a.buf
      /\ given'[c] = g /\ admitted'[c] = all /\ frames'[c] = frms
      /\ \A e \in Conns : e # c => /\ conn'[e] = conn[e] /\ given'[e] = given[e]
                                   /\ admitted'[e] = admitted[e] /\ frames'[e] = frames[e]
      /\ DOMAIN given' = DOMAIN given /\ DOMAIN admitted' = DOMAIN admitted /\ DOMAIN frames' = DOMAIN frames
  BY <1>1 DEF Shape, Fields, WireInv, Streams
<1>3. Streams' /\ Apartly(c)
  BY <1>1, <1>2 DEF WireInv, Streams, Stream, Apartly, Same
<1>4. Wired(c)
  BY DEF WireInv
<1>5. Read(s, "payload", d, y, given[c]) /\ Talk(s, "payload", y, o, h) /\ Framing(frames[c], conn[c].buf, admitted[c])
  BY <1>1, <1>4 DEF Wired
<1>6. Taken(c)' = s
  BY <1>1 DEF Taken, Stream
<1>7. Read(s, "frames", d, y, g)
  BY <1>5, ReadHandsOn
<1>8. Talk(s, "frames", y, o, h)
  BY <1>5, TalkMoves
<1>9. Framing(frms, a.buf, all)
  <2>1. y.payload \in Seq(Byte)
    BY <1>5 DEF Read, Yields
  <2>2. /\ a.overflow => Framing(<< >>, a.buf, << >>)
        /\ ~a.overflow => Framing(frames[c] \o a.frames, a.buf, admitted[c] \o y.payload)
    BY <1>5, <2>1, FramingPushes DEF a
  <2> QED BY <2>2 DEF all, frms
<1> HIDE DEF g
<1>10. Wired(c)'
  BY <1>1, <1>2, <1>6, <1>7, <1>8, <1>9 DEF Wired
<1> QED BY <1>3, <1>10, OneStep

\* A frame is answered with a value the reply may have, or is no request.
LEMMA AnswersWired ==
  ASSUME Shape, WireInv, NEW c \in Conns, conn[c].pc \in {"frames", "answer"}, conn[c].yield.frames # << >>,
         NEW value, Answers(c, value),
         ForUs(Frame(c)) => value \in {Value(Frame(c)), << >>, Signature}
  PROVE  WireInv'
<1> DEFINE s == Taken(c)
           pc == conn[c].pc
           d == conn[c].decoder
           y == conn[c].yield
           g == given[c]
           o == out[c]
           h == heard[c]
           f == Frame(c)
           p == o \o RfcReply(Command(f), value)
           q == IF ForUs(f) THEN p ELSE o
           left == y.frames
           z == [y EXCEPT !.frames = Tail(left)]
<1>1. /\ out' = [out EXCEPT ![c] = q]
      /\ conn' = [conn EXCEPT ![c].pc = "frames", ![c].yield.frames = Tail(@), ![c].ack = "none"]
      /\ UNCHANGED <<scenario, read, given, admitted, frames, heard>>
  BY DEF Answers
<1> HIDE DEF q
<1>2. /\ conn'[c].pc = "frames" /\ conn'[c].decoder = d /\ conn'[c].yield = z /\ conn'[c].buf = conn[c].buf
      /\ out'[c] = q /\ DOMAIN out' = DOMAIN out
      /\ \A e \in Conns : e # c => conn'[e] = conn[e] /\ out'[e] = out[e]
  BY <1>1 DEF Shape, Fields, WireInv, Streams
<1>3. Streams' /\ Apartly(c)
  BY <1>1, <1>2 DEF WireInv, Streams, Stream, Apartly, Same
<1>4. Wired(c)
  BY DEF WireInv
<1>5. Read(s, pc, d, y, g) /\ Talk(s, pc, y, o, h) /\ Framing(frames[c], conn[c].buf, admitted[c])
  BY <1>4 DEF Wired
<1>6. Taken(c)' = s
  BY <1>1 DEF Taken, Stream
<1>7. y \in Yields /\ left \in Seq(Seq(Byte)) /\ left # << >> /\ f = Head(left)
  BY <1>5 DEF Read, Yields, Frame
<1>8. Tail(left) \in Seq(Seq(Byte)) /\ f \in Seq(Byte)
  <2> DEFINE W == Seq(Byte)
  <2> HIDE DEF W, left, f
  <2>1. left \in Seq(W) /\ left # << >> /\ f = Head(left)
    BY <1>7 DEF W
  <2>2. Tail(left) \in Seq(W) /\ f \in W
    BY <2>1
  <2> QED BY <2>2 DEF W
<1>9. z \in Yields /\ z.frames = Tail(left)
  <2> DEFINE t == Tail(left)
  <2>1. t \in Seq(Seq(Byte)) /\ y \in Yields
    BY <1>7, <1>8
  <2> HIDE DEF t
  <2>2. [y EXCEPT !.frames = t] \in Yields /\ [y EXCEPT !.frames = t].frames = t
    BY <2>1 DEF Yields
  <2> QED BY <2>2 DEF t
<1> HIDE DEF z
<1>10. Read(s, "frames", d, z, g)
  <2>1. pc \in Serving \cup {"frames"}
    BY DEF Serving
  <2> HIDE DEF s, pc, d, y, g
  <2>2. Read(s, pc, d, y, g) /\ z \in Yields
    BY <1>5, <1>9
  <2> QED BY <2>1, <2>2 DEF Read, Serving, Busy
<1>11. Talk(s, "frames", z, q, h)
  <2>1. CASE ForUs(f)
    <3>1. Value(f) \in Seq(Byte) /\ << >> \in Seq(Byte) /\ Signature \in Seq(Byte)
      <4>1. Len(f) \in Nat /\ Len(f) >= 2
        BY <1>8, <2>1 DEF ForUs
      <4> QED BY <1>8, <4>1, StreamAssumption DEF Value
    <3>2. value \in Seq(Byte) /\ value \in {Value(f), << >>, Signature}
      BY <2>1, <3>1
    <3>3. Talk(s, "frames", z, p, h)
      <4> HIDE DEF s, pc, y, o, h, f
      <4> QED BY <1>5, <1>7, <1>9, <2>1, <3>2, TalkAnswers DEF pc
    <3> QED BY <2>1, <3>3 DEF q
  <2>2. CASE ~ForUs(f)
    <3>1. Talk(s, "frames", z, o, h)
      BY <1>5, <1>7, <1>9, <2>2, TalkSkips
    <3> QED BY <2>2, <3>1 DEF q
  <2> QED BY <2>1, <2>2
<1>12. Wired(c)'
  BY <1>1, <1>2, <1>5, <1>6, <1>10, <1>11 DEF Wired
<1> QED BY <1>3, <1>12, OneStep

\* What it answers itself is its name, the value it was asked with, or nothing.
LEMMA OwnAnswers ==
  ASSUME NEW f
  PROVE  OwnAnswer(f) \in {Value(f), << >>, Signature}
<1> DEFINE k == Command(f)
           n == Len(Value(f))
           known == {SET_PARITY, SET_STOPSIZE, SET_CONTROL}
<1> HIDE DEF k, n
<1>1. CASE k = SIGNATURE
  BY <1>1 DEF OwnAnswer, k
<1>2. CASE k \in Ignored
  BY <1>2 DEF OwnAnswer, k
<1> QED BY <1>1, <1>2 DEF OwnAnswer, k, n

\* A request is answered, by the endpoint itself or by the owner.
LEMMA ServesWired ==
  ASSUME Shape, WireInv, NEW c \in Conns, AnswersItself(c) \/ Answer(c)
  PROVE  WireInv'
<1>1. CASE AnswersItself(c)
  <2>1. PICK value : /\ Answers(c, value)
                     /\ ForUs(Frame(c)) => value = OwnAnswer(Frame(c))
                     /\ conn[c].pc = "frames" /\ conn[c].yield.frames # << >>
    BY <1>1 DEF AnswersItself
  <2> QED BY <2>1, OwnAnswers, AnswersWired
<1>2. CASE Answer(c)
  <2>1. PICK value : /\ Answers(c, value) /\ value \in {Value(Frame(c)), << >>}
                     /\ conn[c].pc = "answer"
    BY <1>2 DEF Answer
  <2>2. conn[c].yield.frames # << >>
    BY <2>1 DEF WireInv, Wired, Read, Serving
  <2> QED BY <2>1, <2>2, AnswersWired
<1> QED BY <1>1, <1>2

\* ReadDone: all that the read yielded has been handled.
LEMMA ReadDoneWired ==
  ASSUME Shape, WireInv, NEW c \in Conns, ReadDone(c)
  PROVE  WireInv'
<1> DEFINE s == Taken(c)
           d == conn[c].decoder
           y == conn[c].yield
           g == given[c]
           o == out[c]
           h == heard[c]
<1>1. /\ conn[c].pc = "frames" /\ y.frames = << >> /\ conn'[c].pc = "select" /\ conn'[c].yield = Nothing
      /\ conn'[c].decoder = d /\ conn'[c].buf = conn[c].buf
      /\ UNCHANGED <<scenario, read, given, admitted, frames, out, heard>>
      /\ \A e \in Conns : e # c => conn'[e] = conn[e]
  BY DEF ReadDone, peerVars, Shape, Fields
<1>2. Streams' /\ Apartly(c)
  BY <1>1 DEF WireInv, Streams, Stream, Apartly, Same
<1>3. Wired(c)
  BY DEF WireInv
<1>4. Read(s, "frames", d, y, g) /\ Talk(s, "frames", y, o, h) /\ Framing(frames[c], conn[c].buf, admitted[c])
  BY <1>1, <1>3 DEF Wired
<1>5. Taken(c)' = s
  BY <1>1 DEF Taken, Stream
<1>6. Nothing \in Yields /\ Nothing.frames = << >>
  BY NothingTyped DEF Nothing
<1>7. Read(s, "select", d, Nothing, g)
  BY <1>4, <1>6, ReadServed
<1>8. Talk(s, "select", Nothing, o, h)
  BY <1>1, <1>4, <1>6, TalkMoves
<1>9. Wired(c)'
  BY <1>1, <1>4, <1>5, <1>7, <1>8 DEF Wired
<1> QED BY <1>2, <1>9, OneStep

-----------------------------------------------------------------------------
(* The theorems about the wire                                             *)

\* Nothing has been read or written at first.
LEMMA WireInit ==
  ASSUME Init
  PROVE  WireInv
<1>1. Streams
  BY StreamAssumption DEF Init, Streams, Stream
<1>2. ASSUME NEW c \in Conns
      PROVE  Wired(c)
  <2>1. /\ Taken(c) = << >> /\ conn[c].pc = "new" /\ conn[c].decoder = TelnetDecoder
        /\ conn[c].yield = Nothing /\ conn[c].buf = << >>
        /\ read[c] = 0 /\ given[c] = << >> /\ out[c] = << >> /\ heard[c] = << >>
        /\ frames[c] = << >> /\ admitted[c] = << >>
    BY TakenNone DEF Init, NewConn, Taken
  <2>2. /\ After(<< >>, TelnetDecoder) /\ Data(<< >>) = << >> /\ Nothing \in Yields
        /\ Nothing.frames = << >> /\ << >> \in Seq(Byte)
    BY AfterNone, NothingTyped, Empty DEF Nothing
  <2>3. Read(<< >>, "new", TelnetDecoder, Nothing, << >>)
    BY <2>2 DEF Read, Serving, Busy
  <2>4. Framing(<< >>, << >>, << >>)
    <3>1. IsPartial(<< >>)
      <4>1. Len(<< >>) = 0 /\ MaxFrame \in Nat
        BY StreamAssumption
      <4> QED BY <2>2, <4>1 DEF IsPartial
    <3>2. << >> \o << >> = << >>
      OBVIOUS
    <3> QED BY <2>2, <3>1, <3>2, NoFrames DEF Framing
  <2> QED BY <2>1, <2>3, <2>4 DEF Wired
<1> QED BY <1>1, <1>2 DEF WireInv

\* Every step keeps the wire invariant.
LEMMA WireNext ==
  ASSUME Inv, WireInv, [Next]_vars
  PROVE  WireInv'
<1>0. Shape
  BY DEF Inv
<1>1. CASE \E c \in Conns : Proceeds(c)
  BY <1>0, <1>1, RequestsAreQuiet, DeniedWired, AdmitWired, ReadDoneWired DEF Proceeds
<1>2. CASE \E c \in Conns : WithPeer(c)
  BY <1>0, <1>2, RequestsAreQuiet, AcceptWired, ForwardWired, ReceiveWired, RepliesWired, ServesWired DEF WithPeer
<1>3. CASE Owner \/ OtherAcquires \/ LeaseEnds \/ UNCHANGED vars
  BY <1>0, <1>3, HubIsQuiet
<1> QED BY <1>1, <1>2, <1>3 DEF Next

\* At every step, whatever the peer sends and wherever reads cut it, the decoder is where
\* the stream read so far leaves it, what was handed on and what is pending are what the
\* tokens of that stream say, the assembler has lost nothing, and what was written reads as
\* the offer, the device's bytes, the answers and the replies given so far.
\* (TelnetDecoder::feed, FrameAssembler::push, handle_connection)
THEOREM WireInvariance == Spec => []WireInv
<1>1. Init => WireInv
  BY WireInit
<1>2. Inv /\ WireInv /\ [Next]_vars => WireInv'
  BY WireNext
<1> QED BY <1>1, <1>2, RequestInvariance, PTL DEF Spec

\* For any streams, any places where reads cut them, and any frame bound: the payload handed
\* on is the payload of the stream, and the frames are what was admitted of it, each with its
\* delimiter at its end and nowhere else.  (TelnetDecoder::feed, FrameAssembler::push)
THEOREM DecodingIsExact == Spec => []DecodesExactly
<1>1. WireInv => DecodesExactly
  <2> SUFFICES ASSUME WireInv, NEW c \in Conns
               PROVE  /\ conn[c].pc = "select" => given[c] = Data(Taken(c))
                      /\ FlattenSeq(frames[c]) \o conn[c].buf = admitted[c]
                      /\ \A f \in ToSet(frames[c]) :
                           Len(f) <= MaxFrame /\ \A k \in DOMAIN f : f[k] = Delim <=> k = Len(f)
    BY DEF DecodesExactly
  <2>1. Wired(c)
    BY DEF WireInv
  <2>2. conn[c].pc = "select" => given[c] = Data(Taken(c))
    BY <2>1 DEF Wired, Read
  <2>3. FlattenSeq(frames[c]) \o conn[c].buf = admitted[c] /\ AreFrames(frames[c])
    BY <2>1 DEF Wired, Framing
  <2>4. ASSUME NEW f \in ToSet(frames[c])
        PROVE  IsFrame(f)
    <3>1. PICK i \in 1 .. Len(frames[c]) : f = frames[c][i]
      <4>1. DOMAIN frames[c] = 1 .. Len(frames[c])
        BY <2>3 DEF AreFrames
      <4> QED BY <4>1 DEF ToSet
    <3> QED BY <2>3, <3>1 DEF AreFrames
  <2>5. \A f \in ToSet(frames[c]) :
          Len(f) <= MaxFrame /\ \A k \in DOMAIN f : f[k] = Delim <=> k = Len(f)
    BY <2>4 DEF IsFrame
  <2> QED BY <2>2, <2>3, <2>5
<1> QED BY <1>1, WireInvariance, PTL

\* For any streams and cuts, any interleaving with the device's bytes, the leases and the
\* owner's answers, delays and refusals: a peer that reads what it is sent as the endpoint
\* reads its peer finds the device's bytes, one answer to each option it named and one reply
\* to each of its requests, in order.
\* (negotiation_reply, escape_iac, rfc_reply, handle_subnegotiation)
THEOREM ConversationMatches == Spec => []RepliesMatch
<1>1. WireInv => RepliesMatch
  <2> SUFFICES ASSUME WireInv, NEW c \in Conns, conn[c].pc = "select",
                      NEW named, named = Said(Taken(c)),
                      NEW asked, asked = Requests(Bodies(Taken(c), "frame")),
                      NEW told, told = Bodies(out[c], "frame"),
                      NEW o, o = out[c], Polite(asked)
               PROVE  /\ Data(o) = heard[c]
                      /\ Len(Said(o)) = Len(named) + 2
                      /\ \A i \in DOMAIN named :
                           <<IAC>> \o Said(o)[i + 2] = NegotiationReply(named[i][1], named[i][2])
                      /\ Len(told) = Len(asked)
                      /\ \A i \in DOMAIN asked :
                           /\ SubSeq(told[i], 1, 2) = <<COM_PORT_OPTION, Command(asked[i]) + 100>>
                           /\ Value(told[i]) \in {Value(asked[i]), << >>, Signature}
    BY DEF RepliesMatch, Polite
  <2> DEFINE s == Taken(c)
             d == conn[c].decoder
             y == conn[c].yield
             h == heard[c]
  <2>1. After(s, d) /\ y.frames = << >> /\ Talk(s, "select", y, o, h)
    BY DEF WireInv, Wired, Read
  <2>2. Polite(Requests(Bodies(s, "frame")))
    OBVIOUS
  <2> HIDE DEF s, d, y, h
  <2>3. PICK offer, answers :
          /\ Data(o) = h /\ offer \in Seq(Words) /\ Len(offer) = 2
          /\ Said(o) = offer \o answers /\ Matches(answers, Said(s))
          /\ Told(Bodies(o, "frame"), Requests(Bodies(s, "frame")))
    BY ONLY <2>1, <2>2, TalkMatches
  <2>4. Matches(answers, named) /\ Told(told, asked) /\ Data(o) = heard[c]
    BY <2>3 DEF s, h
  <2> DEFINE all == Said(o)
             n == Len(named)
  <2>5. answers \in Seq(Words) /\ named \in Seq(Words) /\ Len(answers) = n
        /\ \A i \in 1 .. n : <<IAC>> \o answers[i] = ReplyTo(named[i])
    BY <2>4 DEF Matches, Answering
  <2>6. /\ Len(all) = 2 + n /\ n \in Nat
        /\ \A i \in 1 .. (2 + n) : all[i] = IF i <= 2 THEN offer[i] ELSE answers[i - 2]
    <3> HIDE DEF all, n
    <3> DEFINE k == Len(offer)
    <3>1. /\ all = offer \o answers /\ n = Len(answers) /\ k = Len(offer)
          /\ offer \in Seq(Words) /\ answers \in Seq(Words)
      BY <2>3, <2>5 DEF all
    <3>2. k = 2
      BY <2>3
    <3> HIDE DEF k
    <3>3. /\ Len(all) = k + n /\ n \in Nat
          /\ \A i \in 1 .. (k + n) : all[i] = IF i <= k THEN offer[i] ELSE answers[i - k]
      BY ONLY <3>1, ConcatAt
    <3> QED BY ONLY <3>2, <3>3
  <2> HIDE DEF all
  <2>7. ASSUME NEW i \in DOMAIN named
        PROVE  <<IAC>> \o all[i + 2] = NegotiationReply(named[i][1], named[i][2])
    <3>1. i \in 1 .. n
      BY <2>5
    <3>2. all[i + 2] = answers[i]
      <4>1. i + 2 \in 1 .. (2 + n) /\ ~(i + 2 <= 2) /\ (i + 2) - 2 = i
        BY <2>6, <3>1
      <4> QED BY <2>6, <4>1
    <3>3. <<IAC>> \o answers[i] = ReplyTo(named[i])
      BY <2>5, <3>1
    <3> QED BY <3>2, <3>3 DEF ReplyTo
  <2>8. /\ Len(told) = Len(asked)
        /\ \A i \in DOMAIN asked :
             /\ SubSeq(told[i], 1, 2) = <<COM_PORT_OPTION, Command(asked[i]) + 100>>
             /\ Value(told[i]) \in {Value(asked[i]), << >>, Signature}
    <3>1. DOMAIN asked = 1 .. Len(asked)
      BY <2>4 DEF Told
    <3> QED BY <2>4, <3>1 DEF Told, Replying
  <2>9. Len(all) = n + 2
    BY <2>6
  <2> QED BY <2>4, <2>7, <2>8, <2>9 DEF all, n
<1> QED BY <1>1, WireInvariance, PTL

=============================================================================
