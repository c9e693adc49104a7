------------------------ MODULE SerialHubRefinement -------------------------
(***************************************************************************)
(* SerialHub implements DeviceAccess.  The refinement mapping reads the    *)
(* abstract state off the queue, the owner's hand and the calls; the       *)
(* invariant below is what the step simulation needs beyond IInv.          *)
(***************************************************************************)
EXTENDS SerialHub

\* queued is accepted or, in the owner's hand, started; the rest keeps its name.
Fate(k, f) ==
  IF outcome[k][f] = "queued" THEN (IF InHand(k, f) THEN "started" ELSE "accepted")
  ELSE IF outcome[k][f] = "not_written" THEN "refused" ELSE outcome[k][f]

\* Success of an HTTP write speaks of the device, success of a stream write of the
\* queue; a definite failure says nothing was written, any other says nothing.
Meaning(k, result) ==
  IF result = "ok" THEN (IF k \in Apis THEN "written" ELSE "taken")
  ELSE IF result \in {"denied", "not_queued", "not_attempted"} THEN "refused" ELSE "unknown"

Told(k) == IF call[k].pc = "done" THEN Meaning(k, call[k].result) ELSE "nothing"

Holder == IF connected THEN "hub" ELSE IF ownerPc = "handoff" THEN "tool" ELSE "nobody"

FateMap  == [k \in Calls |-> [f \in Frames |-> Fate(k, f)]]
ToldMap  == [k \in Calls |-> Told(k)]
BoundMap == [k \in Calls |-> call[k].epoch]

Access == INSTANCE DeviceAccess WITH
  Waiting <- Apis,
  Last    <- MaxFrames,
  fate    <- FateMap,
  told    <- ToldMap,
  bound   <- BoundMap,
  era     <- epoch,
  holder  <- Holder

\* The transmit path keeps the promises of DeviceAccess: frames of a call reach the
\* device in order, one at a time, over the connection they were admitted on, never
\* while a tool has the port, and every answer agrees with the device.
ImplementsDeviceAccess == Access!Spec

\* The broker says connected exactly from the open to the step that gives it up.
PortInv ==
  /\ ownerPc \in {"io", "writing", "lost", "releasing"} => connected
  /\ ownerPc \in {"top", "opening"} => ~connected

\* A call sends its frames in order, and the queue keeps them so.
FramesInOrder ==
  /\ \A k \in Calls, f \in Frames :
       /\ f < call[k].frame => outcome[k][f] # "none"
       /\ f > call[k].frame => outcome[k][f] = "none"
  /\ \A i, j \in DOMAIN queue :
       i < j /\ queue[i].call = queue[j].call => queue[i].frame < queue[j].frame
  /\ \A i \in DOMAIN queue :
       hand # None /\ queue[i].call = hand.call => hand.frame < queue[i].frame

\* A call that was not made is tied to no connection.
NewUnbound == \A k \in Calls : call[k].pc = "new" => call[k].epoch = 0

RefInv == PortInv /\ FramesInOrder /\ NewUnbound

=============================================================================
