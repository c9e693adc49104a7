---------------------------- MODULE HubLifecycle ----------------------------
(***************************************************************************)
(* Start, rollback and shutdown of several hubs in one process: Supervisor *)
(* (supervisor.rs), run_hub and HubHandle (hub.rs), and what the endpoints *)
(* (client/*.rs), their connections, the serial owner thread and the       *)
(* evidence ledger of each hub do meanwhile.                               *)
(*                                                                         *)
(* The supervisor is sequential: sup says what it is doing and at to which *)
(* hub.  Every endpoint task, every connection and every owner thread is a *)
(* process of its own; one connection at a time per endpoint, and any      *)
(* number of them one after the other.                                     *)
(***************************************************************************)
EXTENDS Naturals, Sequences

CONSTANTS
  Catalog,      \* one sequence of endpoint kinds per profile, in start order
  SerialNumbers,\* USB serial numbers of the devices that are plugged in
  AnySerial,    \* a selector that names no serial number
  Selections    \* the selectors the profiles may name, one per profile

Kinds == {"api", "tcp", "pty", "rfc2217"}

ASSUME CatalogAssumption == Catalog \in Seq(Seq(Kinds)) /\ Catalog # << >>

Hubs == 1 .. Len(Catalog)

ASSUME SelectorAssumption ==
  /\ AnySerial \notin SerialNumbers
  /\ Selections \subseteq [Hubs -> SerialNumbers \cup {AnySerial}]

Endpoint == UNION {{h} \X (1 .. Len(Catalog[h])) : h \in Hubs}
HubOf(e) == e[1]
KindOf(e) == Catalog[e[1]][e[2]]
EndpointsOf(h) == {e \in Endpoint : HubOf(e) = h}

VARIABLES
  sel,      \* per profile: the serial number its real.usb names
  sup,      \* what the supervisor is doing
  at,       \* the hub it is doing it to
  stage,    \* per hub: where run_hub, stop_all or shutdown_gracefully is
  bound,    \* per hub: how many endpoints are bound or prepared
  graceful, \* per hub: stopped by shutdown_gracefully
  ep,       \* per endpoint: its listener task, API server or PTY task
  conn,     \* per endpoint: its connection; a PTY task is its own
  owner,    \* per hub: the serial owner thread
  ledger,   \* per hub: the evidence ledger
  refused   \* endpoints that had a client event refused by a sealed ledger

supVars == <<sel, sup, at>>
hubVars == <<stage, bound, graceful, owner, ledger>>
vars == <<sel, sup, at, stage, bound, graceful, ep, conn, owner, ledger, refused>>

TypeOK ==
  /\ sel \in Selections
  /\ sup \in {"validating", "starting", "ready", "rollback", "stopping", "dropping",
              "failed", "stopped"}
  /\ at \in Hubs
  /\ stage \in [Hubs -> {"idle", "binding", "launching", "settling", "ready", "awaitTasks",
                         "awaitServers", "joining", "stopped", "failed"}]
  /\ bound \in [Hubs -> Nat]
  /\ graceful \in [Hubs -> BOOLEAN]
  /\ ep \in [Endpoint -> {"none", "prepared", "up", "stopping", "down"}]
  /\ conn \in [Endpoint -> {"none", "accepted", "registered", "following"}]
  /\ owner \in [Hubs -> {"none", "running", "stopping", "gone"}]
  /\ ledger \in [Hubs -> {"none", "open", "sealed"}]
  /\ refused \subseteq Endpoint

Init ==
  /\ sel \in Selections
  /\ sup = "validating"
  /\ at = 1
  /\ stage = [h \in Hubs |-> "idle"]
  /\ bound = [h \in Hubs |-> 0]
  /\ graceful = [h \in Hubs |-> FALSE]
  /\ ep = [e \in Endpoint |-> "none"]
  /\ conn = [e \in Endpoint |-> "none"]
  /\ owner = [h \in Hubs |-> "none"]
  /\ ledger = [h \in Hubs |-> "none"]
  /\ refused = {}

-----------------------------------------------------------------------------
(* Validation.  Every process-global resource is claimed once; a USB selector also collides *)
(* with a wildcard of the same vendor and product, in either order.                         *)

CollidesExactly(g, h) == sel[g] = sel[h]

Collides(g, h) == sel[g] = sel[h] \/ AnySerial \in {sel[g], sel[h]}

ValidateProfiles ==
  /\ sup = "validating"
  /\ sup' = IF \E g, h \in Hubs : g < h /\ Collides(g, h) THEN "failed" ELSE "starting"
  /\ UNCHANGED <<sel, at, hubVars, ep, conn, refused>>

(* Starting one hub: run_hub.                                                               *)

Starting(h) == sup = "starting" /\ at = h

OpenLedger(h) ==
  /\ Starting(h) /\ stage[h] = "idle"
  /\ stage' = [stage EXCEPT ![h] = "binding"]
  /\ ledger' = [ledger EXCEPT ![h] = "open"]
  /\ UNCHANGED <<supVars, bound, graceful, owner, ep, conn, refused>>

(* A listener is bound and its task spawned, or the fallible part of a PTY is done.         *)
BindEndpoint(h) ==
  /\ Starting(h) /\ stage[h] = "binding"
  /\ bound[h] < Len(Catalog[h])
  /\ LET e == <<h, bound[h] + 1>> IN
       ep' = [ep EXCEPT ![e] = IF KindOf(e) = "pty" THEN "prepared" ELSE "up"]
  /\ bound' = [bound EXCEPT ![h] = @ + 1]
  /\ UNCHANGED <<supVars, stage, graceful, owner, ledger, conn, refused>>

OwnerMayStartEarly(h) == bound[h] + 1 >= Len(Catalog[h])

OwnerMayStart(h) == bound[h] = Len(Catalog[h])

StartOwner(h) ==
  /\ Starting(h) /\ stage[h] = "binding"
  /\ OwnerMayStart(h)
  /\ owner' = [owner EXCEPT ![h] = "running"]
  /\ stage' = [stage EXCEPT ![h] = "launching"]
  /\ UNCHANGED <<supVars, bound, graceful, ledger, ep, conn, refused>>

StartPtys(h) ==
  /\ Starting(h) /\ stage[h] = "launching"
  /\ ep' = [e \in Endpoint |-> IF HubOf(e) = h /\ ep[e] = "prepared" THEN "up" ELSE ep[e]]
  /\ stage' = [stage EXCEPT ![h] = "settling"]
  /\ UNCHANGED <<supVars, bound, graceful, owner, ledger, conn, refused>>

(* After 50 ms run_hub returns its handle and Supervisor::start goes on with the next.      *)
HubReady(h) ==
  /\ Starting(h) /\ stage[h] = "settling"
  /\ stage' = [stage EXCEPT ![h] = "ready"]
  /\ IF h = Len(Catalog) THEN sup' = "ready" /\ at' = at
                         ELSE sup' = sup /\ at' = h + 1
  /\ UNCHANGED <<sel, bound, graceful, owner, ledger, ep, conn, refused>>

(* Cancel the servers, abort the tasks, drop what was only prepared: StartupTasks::drop and *)
(* the first half of both shutdowns.  Nothing is awaited here.                              *)
Halted(h) ==
  [e \in Endpoint |->
     IF HubOf(e) # h THEN ep[e]
     ELSE IF ep[e] = "up" THEN "stopping"
     ELSE IF ep[e] = "prepared" THEN "down" ELSE ep[e]]

(* The hub a rollback begins with: those before h were pushed, in order.                    *)
RollBackFromNothing(h) == sup' = "rollback" /\ at' = h - 1

RollBackFromEarlier(h) ==
  IF h <= 2 THEN sup' = "failed" /\ at' = at ELSE sup' = "rollback" /\ at' = h - 2

RollBackFrom(h) ==
  IF h = 1 THEN sup' = "failed" /\ at' = at ELSE sup' = "rollback" /\ at' = h - 1

(* Configuration, ledger, a bind, a PTY or the thread fails; the locals of run_hub drop.    *)
StartFails(h) ==
  /\ Starting(h) /\ stage[h] \in {"idle", "binding"}
  /\ stage' = [stage EXCEPT ![h] = "failed"]
  /\ ep' = Halted(h)
  /\ RollBackFrom(h)
  /\ UNCHANGED <<sel, bound, graceful, owner, ledger, conn, refused>>

-----------------------------------------------------------------------------
(* Stopping: Ctrl+C, a rollback, or the handles dropped without shutdown_gracefully.        *)

CtrlC ==
  /\ sup = "ready"
  /\ sup' = "stopping"
  /\ at' = Len(Catalog)
  /\ UNCHANGED <<sel, hubVars, ep, conn, refused>>

DropSupervisor ==
  /\ sup = "ready"
  /\ sup' = "dropping"
  /\ at' = 1
  /\ UNCHANGED <<sel, hubVars, ep, conn, refused>>

BeginShutdown(h) ==
  /\ sup \in {"rollback", "stopping"} /\ at = h
  /\ stage[h] = "ready"
  /\ stage' = [stage EXCEPT ![h] = "awaitTasks"]
  /\ graceful' = [graceful EXCEPT ![h] = TRUE]
  /\ ep' = Halted(h)
  /\ UNCHANGED <<supVars, bound, owner, ledger, conn, refused>>

TasksEnded(h) == \A e \in EndpointsOf(h) : KindOf(e) # "api" => ep[e] = "down"

TasksAwaited(h) ==
  /\ stage[h] = "awaitTasks"
  /\ TasksEnded(h)
  /\ stage' = [stage EXCEPT ![h] = "awaitServers"]
  /\ UNCHANGED <<supVars, bound, graceful, owner, ledger, ep, conn, refused>>

(* Every API server has ended; SerialHub::stop asks the thread to stop and joins it.        *)
ServersAwaited(h) ==
  /\ stage[h] = "awaitServers"
  /\ \A e \in EndpointsOf(h) : KindOf(e) = "api" => ep[e] = "down"
  /\ stage' = [stage EXCEPT ![h] = "joining"]
  /\ owner' = [owner EXCEPT ![h] = "stopping"]
  /\ UNCHANGED <<supVars, bound, graceful, ledger, ep, conn, refused>>

(* HubHandle::drop: stop_all does the same without awaiting anything.                       *)
BeginDrop(h) ==
  /\ sup = "dropping" /\ at = h
  /\ stage[h] = "ready"
  /\ stage' = [stage EXCEPT ![h] = "joining"]
  /\ ep' = Halted(h)
  /\ owner' = [owner EXCEPT ![h] = "stopping"]
  /\ UNCHANGED <<supVars, bound, graceful, ledger, conn, refused>>

OwnerEnds(h) ==
  /\ owner[h] = "stopping"
  /\ owner' = [owner EXCEPT ![h] = "gone"]
  /\ UNCHANGED <<supVars, stage, bound, graceful, ledger, ep, conn, refused>>

(* The next hub: a graceful stop pops the last handle, dropping a Vec starts at the first.  *)
NextHub(h) ==
  CASE sup = "dropping" /\ h < Len(Catalog) -> sup' = sup /\ at' = h + 1
    [] sup # "dropping" /\ h > 1            -> sup' = sup /\ at' = h - 1
    [] OTHER -> sup' = (IF sup = "rollback" THEN "failed" ELSE "stopped") /\ at' = at

JoinedAlready(h) == owner[h] \in {"stopping", "gone"}

Joined(h) == owner[h] = "gone"

SealLedger(h) ==
  /\ stage[h] = "joining"
  /\ Joined(h)
  /\ ledger' = [ledger EXCEPT ![h] = "sealed"]
  /\ stage' = [stage EXCEPT ![h] = "stopped"]
  /\ NextHub(h)
  /\ UNCHANGED <<sel, bound, graceful, owner, ep, conn, refused>>

(* A hub that failed to start seals its segments when the last broker clone is dropped.     *)
LastReferenceDropped(h) ==
  /\ stage[h] = "failed" /\ ledger[h] = "open"
  /\ \A e \in EndpointsOf(h) : ep[e] \in {"none", "down"} /\ conn[e] = "none"
  /\ ledger' = [ledger EXCEPT ![h] = "sealed"]
  /\ UNCHANGED <<supVars, stage, bound, graceful, owner, ep, conn, refused>>

-----------------------------------------------------------------------------
(* Endpoint tasks and their connections.  A registration is a guard that unregisters when   *)
(* the future holding it is dropped; both ends are recorded in the ledger unless sealed.    *)

Recorded(e) == refused' = IF ledger[HubOf(e)] = "sealed" THEN refused \cup {e} ELSE refused

Register(e) == conn' = [conn EXCEPT ![e] = "registered"] /\ Recorded(e)

Unregister(e) ==
  /\ conn' = [conn EXCEPT ![e] = "none"]
  /\ IF conn[e] = "registered" THEN Recorded(e) ELSE UNCHANGED refused

Accept(e) ==
  /\ ep[e] = "up" /\ KindOf(e) # "pty" /\ conn[e] = "none"
  /\ conn' = [conn EXCEPT ![e] = "accepted"]
  /\ UNCHANGED <<supVars, hubVars, ep, refused>>

(* handle_conn, handle_connection or an upgraded handle_ws gets to run.                     *)
Joins(e) ==
  /\ conn[e] = "accepted"
  /\ Register(e)
  /\ UNCHANGED <<supVars, hubVars, ep>>

(* A request for /v1/events/stream is upgraded: a WebSocket that is not a client.           *)
Follows(e) ==
  /\ KindOf(e) = "api" /\ conn[e] = "accepted"
  /\ conn' = [conn EXCEPT ![e] = "following"]
  /\ UNCHANGED <<supVars, hubVars, ep, refused>>

(* An ordinary HTTP request has come in whole, was handled, and its answer taken.           *)
RequestServed(e) ==
  /\ KindOf(e) = "api" /\ conn[e] = "accepted"
  /\ conn' = [conn EXCEPT ![e] = "none"]
  /\ UNCHANGED <<supVars, hubVars, ep, refused>>

(* The peer of any connection goes away, or takes the last frame of an event stream.        *)
PeerCloses(e) ==
  /\ KindOf(e) # "pty" /\ conn[e] # "none"
  /\ Unregister(e)
  /\ UNCHANGED <<supVars, hubVars, ep>>

(* What a shutdown reaches: the JoinSet of an aborted TCP listener aborts its connections,  *)
(* an upgraded /v1/stream watches the server's token wherever it waits.  Nothing reaches a  *)
(* detached RFC 2217 connection, or an event stream that waits for its peer to read.        *)
Reached(e) ==
  \/ KindOf(e) = "tcp" /\ ep[e] = "down"
  \/ KindOf(e) = "api" /\ ep[e] \in {"stopping", "down"} /\ conn[e] = "registered"

Cancelled(e) ==
  /\ conn[e] # "none"
  /\ Reached(e)
  /\ Unregister(e)
  /\ UNCHANGED <<supVars, hubVars, ep>>

PtyRegisters(e) ==
  /\ KindOf(e) = "pty" /\ ep[e] = "up" /\ conn[e] = "none"
  /\ Register(e)
  /\ UNCHANGED <<supVars, hubVars, ep>>

(* The reader or writer thread of a PTY failed, and run_prepared_pty returns.               *)
PtyFails(e) ==
  /\ KindOf(e) = "pty" /\ ep[e] = "up" /\ conn[e] = "registered"
  /\ ep' = [ep EXCEPT ![e] = "down"]
  /\ Unregister(e)
  /\ UNCHANGED <<supVars, hubVars>>

(* The runtime drops the future of an aborted task.  A PTY task holds its registration, and *)
(* a listener at most handles of connections that run on.                                   *)
TaskDroppedAlone(e) ==
  /\ KindOf(e) # "api" /\ ep[e] = "stopping"
  /\ ep' = [ep EXCEPT ![e] = "down"]
  /\ UNCHANGED <<supVars, hubVars, conn, refused>>

TaskDropped(e) ==
  /\ KindOf(e) # "api" /\ ep[e] = "stopping"
  /\ ep' = [ep EXCEPT ![e] = "down"]
  /\ IF KindOf(e) = "pty" THEN Unregister(e) ELSE UNCHANGED <<conn, refused>>
  /\ UNCHANGED <<supVars, hubVars>>

ServerEndsAfterUpgraded(e) ==
  /\ KindOf(e) = "api" /\ ep[e] = "stopping" /\ conn[e] = "none"
  /\ ep' = [ep EXCEPT ![e] = "down"]
  /\ UNCHANGED <<supVars, hubVars, conn, refused>>

(* A cancelled server waits, without a limit, for the requests it is serving; upgraded ones *)
(* are not among them.                                                                      *)
ServerEnds(e) ==
  /\ KindOf(e) = "api" /\ ep[e] = "stopping" /\ conn[e] # "accepted"
  /\ ep' = [ep EXCEPT ![e] = "down"]
  /\ UNCHANGED <<supVars, hubVars, conn, refused>>

-----------------------------------------------------------------------------
HubStep(h) ==
  \/ OpenLedger(h) \/ BindEndpoint(h) \/ StartOwner(h) \/ StartPtys(h) \/ HubReady(h)
  \/ StartFails(h)
  \/ BeginShutdown(h) \/ TasksAwaited(h) \/ ServersAwaited(h) \/ BeginDrop(h) \/ SealLedger(h)

EndpointStep(e) ==
  \/ Accept(e) \/ Joins(e) \/ Follows(e) \/ RequestServed(e) \/ PeerCloses(e) \/ Cancelled(e)
  \/ PtyRegisters(e) \/ PtyFails(e) \/ TaskDropped(e) \/ ServerEnds(e)

Next ==
  \/ ValidateProfiles \/ CtrlC \/ DropSupervisor
  \/ \E h \in Hubs : HubStep(h) \/ OwnerEnds(h) \/ LastReferenceDropped(h)
  \/ \E e \in Endpoint : EndpointStep(e)

Spec == Init /\ [][Next]_vars

(* The runtime polls every ready task and drops every aborted one, the owner thread runs,   *)
(* and whoever lets go of a broker last drops it.  What a peer does is not fair: nobody has *)
(* to send the rest of a request, read an answer or go away, nobody has to press Ctrl+C.    *)
FairSpec ==
  /\ Spec
  /\ \A h \in Hubs :
       WF_vars(HubStep(h)) /\ WF_vars(OwnerEnds(h)) /\ WF_vars(LastReferenceDropped(h))
  /\ \A e \in Endpoint : WF_vars(Cancelled(e)) /\ WF_vars(TaskDropped(e)) /\ WF_vars(ServerEnds(e))

-----------------------------------------------------------------------------
(* The thread that opens the device exists only once every endpoint of its hub is bound or  *)
(* prepared, so no start that fails has touched a device (comment at hub.rs:338-340).       *)
DeviceLast ==
  \A h \in Hubs :
    /\ owner[h] # "none" => \A e \in EndpointsOf(h) : ep[e] # "none"
    /\ stage[h] = "failed" => owner[h] = "none"

(* Start has returned an error, or a stop has finished.                                     *)
Ended == sup \in {"failed", "stopped"}

(* A connection that ends only when its peer wants it to.                                   *)
KeptByPeer(e) == conn[e] = "following" \/ (KindOf(e) = "rfc2217" /\ conn[e] # "none")

(* What is left of hub h when nobody waits for it any more: tasks that were told to end,    *)
(* connections that were told to end, and those that only their peers can end.              *)
OnlyLeftovers(h) ==
  /\ stage[h] \in {"idle", "failed", "stopped"} /\ owner[h] \in {"none", "gone"}
  /\ \A e \in EndpointsOf(h) :
       /\ ep[e] \in {"none", "stopping", "down"}
       /\ conn[e] # "none" => ep[e] = "stopping" \/ Reached(e) \/ KeptByPeer(e)

(* shutdown_gracefully has awaited every task and server (comment at hub.rs:90-91), and so  *)
(* every PTY and every HTTP request, but not the connections its tasks had spawned.         *)
Awaited(h) ==
  \A e \in EndpointsOf(h) :
    /\ ep[e] = "down"
    /\ conn[e] # "none" => KindOf(e) # "pty" /\ (Reached(e) \/ KeptByPeer(e))

(* When start has returned an error or a stop has finished, no hub has an owner thread or a *)
(* task or server that nobody told to end; of a hub that was stopped gracefully none is     *)
(* left at all.  Its ledger is sealed if the hub was stopped; if its start failed, it is    *)
(* sealed by whoever ends last, and stays open as long as a task or connection is left.     *)
(* Connections may be left in every case, and RFC 2217 connections and event streams may    *)
(* stay for ever: README.md:696 promises no detached workers, the code has these.           *)
WhatAStopLeaves ==
  Ended =>
    \A h \in Hubs :
      /\ OnlyLeftovers(h)
      /\ graceful[h] => stage[h] = "stopped" /\ Awaited(h)
      /\ stage[h] = "stopped" => ledger[h] = "sealed"
      /\ stage[h] = "failed" /\ ledger[h] = "sealed" =>
           \A e \in EndpointsOf(h) : ep[e] \in {"none", "down"} /\ conn[e] = "none"

(* The ledger of a hub is open as long as its owner thread may record what the device does. *)
EvidenceOutlivesOwner ==
  \A h \in Hubs : owner[h] \in {"running", "stopping"} => ledger[h] = "open"

(* A graceful shutdown waits for the guard of every PTY: its client_left is in the ledger   *)
(* before the seal, so no client event of a PTY is refused unless the hub was dropped.      *)
PtyEvidenceKept ==
  \A e \in Endpoint :
    KindOf(e) = "pty" /\ (graceful[HubOf(e)] \/ stage[HubOf(e)] # "stopped") =>
      /\ e \notin refused
      /\ stage[HubOf(e)] = "stopped" => conn[e] = "none"

(* A selector without a serial number opens any device of its vendor and product.           *)
Opens(h) == IF sel[h] = AnySerial THEN SerialNumbers ELSE {sel[h]}

(* Two hubs whose owners may have the device open never select the same device.             *)
OneOwnerPerDevice ==
  \A g, h \in Hubs :
    /\ g # h
    /\ owner[g] \in {"running", "stopping"} /\ owner[h] \in {"running", "stopping"}
    => Opens(g) \cap Opens(h) = {}

(* HubHandle::shutdown_gracefully is in server.shutdown().await, and a peer has not sent    *)
(* the rest of its request or has not taken the answer.                                     *)
HeldByPeer ==
  /\ stage[at] = "awaitServers"
  /\ \E e \in EndpointsOf(at) : KindOf(e) = "api" /\ conn[e] = "accepted"

(* Every task of hub h has ended, its ledger is sealed if it was ever opened, and no        *)
(* connection is left, unless a peer of this hub keeps one.                                 *)
OnlyPeersKeep(h) ==
  /\ \A e \in EndpointsOf(h) :
       \/ KindOf(e) = "api" /\ conn[e] = "accepted"
       \/ ep[e] \in {"none", "down"} /\ (conn[e] = "none" \/ KeptByPeer(e))
  /\ ledger[h] = "open" => \E e \in EndpointsOf(h) : conn[e] # "none"

(* A rollback, Ctrl+C or a drop ends, or waits from some time on for an HTTP peer that      *)
(* neither goes on nor goes away, which nothing limits (api.rs:178-180, hub.rs:103-104).    *)
(* Nothing else holds it up.  After it has ended, all tasks and connections end, but those  *)
(* of such peers, RFC 2217 connections and event streams, and with the last of them the     *)
(* ledger of a hub that failed is sealed.                                                   *)
ShutdownEnds ==
  /\ sup \in {"rollback", "stopping", "dropping"} ~> (Ended \/ []HeldByPeer)
  /\ Ended ~> \A h \in Hubs : OnlyPeersKeep(h)

=============================================================================
