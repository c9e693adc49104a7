------------------------- MODULE HubLifecycleProofs -------------------------
(***************************************************************************)
(* The safety properties of HubLifecycle, for any number of profiles, any  *)
(* catalog of endpoints and any selectors.                                 *)
(*                                                                         *)
(* The properties speak of final states of the supervisor, of owners and   *)
(* of ledgers; LifeInv ties them to where each hub is.                     *)
(***************************************************************************)
EXTENDS HubLifecycle, TLAPS

Stopping == {"awaitTasks", "awaitServers", "joining"}
Launched == {"launching", "settling", "ready", "awaitTasks", "awaitServers"}

(* Where the hubs before, at and after the supervisor's are.                *)
SupInv ==
  /\ sup = "validating" => at = 1 /\ \A h \in Hubs : stage[h] = "idle"
  /\ sup = "starting" =>
       /\ \A h \in Hubs : (h < at => stage[h] = "ready") /\ (h > at => stage[h] = "idle")
       /\ stage[at] \in {"idle", "binding", "launching", "settling"}
  /\ sup = "ready" => \A h \in Hubs : stage[h] = "ready"
  /\ sup = "rollback" =>
       /\ \A h \in Hubs : /\ h < at => stage[h] = "ready"
                          /\ h > at => stage[h] \in {"idle", "failed", "stopped"}
       /\ stage[at] \in Stopping \cup {"ready"}
  /\ sup = "stopping" =>
       /\ \A h \in Hubs : (h < at => stage[h] = "ready") /\ (h > at => stage[h] = "stopped")
       /\ stage[at] \in Stopping \cup {"ready"}
  /\ sup = "dropping" =>
       /\ \A h \in Hubs : (h < at => stage[h] = "stopped") /\ (h > at => stage[h] = "ready")
       /\ stage[at] \in {"ready", "joining"}
  /\ sup = "failed" => \A h \in Hubs : stage[h] \in {"idle", "failed", "stopped"}
  /\ sup = "stopped" => \A h \in Hubs : stage[h] = "stopped"

(* What a hub's stage says of its owner, its ledger and its way of stopping. *)
StageInv ==
  \A h \in Hubs :
    /\ stage[h] \in {"idle", "binding", "failed"} => owner[h] = "none"
    /\ stage[h] \in Launched => owner[h] = "running"
    /\ stage[h] = "joining" => owner[h] \in {"stopping", "gone"}
    /\ stage[h] = "stopped" => owner[h] = "gone"
    /\ stage[h] \in Launched \cup {"binding", "joining"} => ledger[h] = "open"
    /\ stage[h] = "stopped" => ledger[h] = "sealed"
    /\ stage[h] = "idle" => bound[h] = 0 /\ ledger[h] = "none"
    /\ graceful[h] => stage[h] \in Stopping \cup {"stopped"}
    /\ stage[h] \in {"awaitTasks", "awaitServers"} => graceful[h]

(* What it says of an endpoint and of its connection.                       *)
EndpointOK(e) ==
  LET at_ == stage[HubOf(e)] IN
  /\ at_ = "idle" => ep[e] = "none"
  /\ at_ = "binding" => (ep[e] # "none" <=> e[2] <= bound[HubOf(e)])
  /\ at_ \in Launched \cup {"joining", "stopped"} => ep[e] # "none"
  /\ at_ \in {"settling", "ready"} => ep[e] # "prepared"
  /\ at_ \in Stopping \cup {"stopped", "failed"} => ep[e] \notin {"prepared", "up"}
  /\ graceful[HubOf(e)] /\ at_ \in {"awaitServers", "joining", "stopped"} /\ KindOf(e) # "api"
       => ep[e] = "down"
  /\ graceful[HubOf(e)] /\ at_ \in {"joining", "stopped"} => ep[e] = "down"
  /\ at_ = "failed" /\ ledger[HubOf(e)] = "sealed" => ep[e] \in {"none", "down"} /\ conn[e] = "none"
  /\ KindOf(e) = "pty" =>
       /\ conn[e] # "none" => ep[e] \in {"up", "stopping"}
       /\ e \in refused => at_ = "stopped" /\ ~graceful[HubOf(e)]

EndpointInv == \A e \in Endpoint : EndpointOK(e)

(* A connection has a task or server that is up or was told to end, and a    *)
(* server does not end beside an HTTP request.                              *)
ConnOK(e) ==
  /\ conn[e] # "none" => ep[e] \in {"up", "stopping", "down"}
  /\ conn[e] = "following" => KindOf(e) = "api"
  /\ KindOf(e) = "api" /\ conn[e] = "accepted" => ep[e] \in {"up", "stopping"}

ConnInv == \A e \in Endpoint : ConnOK(e)

(* Nothing is started unless validation found no collision.                 *)
NoCollision == \A g, h \in Hubs : g < h => ~Collides(g, h)

SelInv ==
  /\ sup = "starting" => NoCollision
  /\ (\E h \in Hubs : stage[h] # "idle") => NoCollision

LifeInv == TypeOK /\ SupInv /\ StageInv /\ EndpointInv /\ ConnInv /\ SelInv

-----------------------------------------------------------------------------
\* The hubs are numbered from one.
LEMMA HubFacts ==
  /\ Hubs \subseteq Nat
  /\ Len(Catalog) \in Hubs
  /\ 1 \in Hubs
  /\ \A h \in Hubs : 1 <= h /\ h <= Len(Catalog)
  /\ \A h \in Hubs : h # Len(Catalog) => h + 1 \in Hubs
  /\ \A h \in Hubs : h # 1 => h - 1 \in Hubs
  /\ \A h \in Hubs : Len(Catalog[h]) \in Nat
BY CatalogAssumption DEF Hubs

\* An endpoint is a hub and a place in its catalog.
LEMMA EndpointFacts ==
  ASSUME NEW e \in Endpoint
  PROVE  /\ HubOf(e) \in Hubs
         /\ e = <<HubOf(e), e[2]>>
         /\ e[2] \in Nat
         /\ 1 <= e[2]
         /\ e[2] <= Len(Catalog[HubOf(e)])
BY HubFacts DEF Endpoint, HubOf

\* Halting a hub leaves nothing of it prepared or up, and other hubs' endpoints as they are.
LEMMA HaltedFacts ==
  ASSUME TypeOK, NEW h \in Hubs
  PROVE  /\ Halted(h) \in [Endpoint -> {"none", "prepared", "up", "stopping", "down"}]
         /\ \A e \in Endpoint :
              /\ HubOf(e) # h => Halted(h)[e] = ep[e]
              /\ HubOf(e) = h =>
                   /\ Halted(h)[e] \notin {"prepared", "up"}
                   /\ Halted(h)[e] = "none" <=> ep[e] = "none"
                   /\ ep[e] \in {"up", "stopping"} => Halted(h)[e] = "stopping"
                   /\ ep[e] = "down" => Halted(h)[e] = "down"
BY DEF TypeOK, Halted

\* Binding the next endpoint touches that one alone.
LEMMA BindFacts ==
  ASSUME TypeOK, NEW h \in Hubs, BindEndpoint(h)
  PROVE  /\ ep' \in [Endpoint -> {"none", "prepared", "up", "stopping", "down"}]
         /\ \A e \in Endpoint :
              IF HubOf(e) = h /\ e[2] = bound[h] + 1 THEN ep'[e] \in {"prepared", "up"}
                                                     ELSE ep'[e] = ep[e]
<1> DEFINE new == <<h, bound[h] + 1>>
           value == IF KindOf(new) = "pty" THEN "prepared" ELSE "up"
<1>1. ep' = [ep EXCEPT ![new] = value]
  BY DEF BindEndpoint
<1>2. value \in {"prepared", "up"}
  OBVIOUS
<1>3. \A e \in Endpoint : HubOf(e) = h /\ e[2] = bound[h] + 1 <=> e = new
  BY EndpointFacts DEF HubOf
<1> HIDE DEF new, value
<1>4. ep \in [Endpoint -> {"none", "prepared", "up", "stopping", "down"}]
  BY DEF TypeOK
<1>q. QED
  BY <1>1, <1>2, <1>3, <1>4

\* Nothing has been started.
LEMMA InitInv == Init => LifeInv
BY HubFacts, EndpointFacts, SelectorAssumption
   DEF Init, LifeInv, TypeOK, SupInv, StageInv, EndpointInv, EndpointOK, ConnInv, ConnOK,
       SelInv, Launched, Stopping

\* Every step keeps the types.
LEMMA TypeNext == TypeOK /\ [Next]_vars => TypeOK'
<1> SUFFICES ASSUME TypeOK, [Next]_vars PROVE TypeOK'
  OBVIOUS
<1> USE HubFacts
<1>1. CASE ValidateProfiles \/ CtrlC \/ DropSupervisor
  BY <1>1 DEF ValidateProfiles, CtrlC, DropSupervisor, TypeOK, hubVars
<1>2. ASSUME NEW h \in Hubs, OpenLedger(h) PROVE TypeOK'
  BY <1>2 DEF OpenLedger, TypeOK, supVars
<1>3. ASSUME NEW h \in Hubs, BindEndpoint(h) PROVE TypeOK'
  <2>1. ep' \in [Endpoint -> {"none", "prepared", "up", "stopping", "down"}]
    BY <1>3, BindFacts
  <2>q. QED
    BY <1>3, <2>1 DEF BindEndpoint, TypeOK, supVars
<1>4. ASSUME NEW h \in Hubs, StartOwner(h) PROVE TypeOK'
  BY <1>4 DEF StartOwner, TypeOK, supVars
<1>5. ASSUME NEW h \in Hubs, StartPtys(h) PROVE TypeOK'
  BY <1>5 DEF StartPtys, TypeOK, supVars
<1>6. ASSUME NEW h \in Hubs, HubReady(h) PROVE TypeOK'
  BY <1>6 DEF HubReady, Starting, TypeOK
<1>7. ASSUME NEW h \in Hubs, StartFails(h) PROVE TypeOK'
  <2>1. ep' \in [Endpoint -> {"none", "prepared", "up", "stopping", "down"}]
    BY <1>7, HaltedFacts DEF StartFails
  <2>q. QED
    BY <1>7, <2>1 DEF StartFails, Starting, RollBackFrom, TypeOK
<1>8. ASSUME NEW h \in Hubs, BeginShutdown(h) \/ BeginDrop(h) PROVE TypeOK'
  <2>1. ep' \in [Endpoint -> {"none", "prepared", "up", "stopping", "down"}]
    BY <1>8, HaltedFacts DEF BeginShutdown, BeginDrop
  <2>2. CASE BeginShutdown(h)
    BY <2>2, <2>1 DEF BeginShutdown, TypeOK, supVars
  <2>3. CASE BeginDrop(h)
    BY <2>3, <2>1 DEF BeginDrop, TypeOK, supVars
  <2>q. QED
    BY <1>8, <2>2, <2>3
<1>9. ASSUME NEW h \in Hubs, TasksAwaited(h) PROVE TypeOK'
  BY <1>9 DEF TasksAwaited, TypeOK, supVars
<1>10. ASSUME NEW h \in Hubs, ServersAwaited(h) PROVE TypeOK'
  BY <1>10 DEF ServersAwaited, TypeOK, supVars
<1>11. ASSUME NEW h \in Hubs, OwnerEnds(h) PROVE TypeOK'
  BY <1>11 DEF OwnerEnds, TypeOK, supVars
<1>12. ASSUME NEW h \in Hubs, LastReferenceDropped(h) PROVE TypeOK'
  BY <1>12 DEF LastReferenceDropped, TypeOK, supVars
<1>13. ASSUME NEW h \in Hubs, SealLedger(h) PROVE TypeOK'
  BY <1>13 DEF SealLedger, NextHub, TypeOK
<1>14. ASSUME NEW e \in Endpoint, EndpointStep(e) PROVE TypeOK'
  BY <1>14 DEF EndpointStep, Accept, Joins, Follows, RequestServed, PeerCloses, Cancelled, PtyRegisters,
              PtyFails, TaskDropped, ServerEnds, Register, Unregister, Recorded, TypeOK, supVars,
              hubVars
<1>15. CASE UNCHANGED vars
  BY <1>15 DEF vars, TypeOK
<1>q. QED
  BY <1>1, <1>2, <1>3, <1>4, <1>5, <1>6, <1>7, <1>8, <1>9, <1>10, <1>11, <1>12, <1>13, <1>14, <1>15
     DEF Next, HubStep

-----------------------------------------------------------------------------
\* A hub that is stopping is the one the supervisor is at.
LEMMA StageAt ==
  ASSUME LifeInv, NEW h \in Hubs, stage[h] \in Stopping
  PROVE  /\ at = h
         /\ sup \in {"rollback", "stopping", "dropping"}
         /\ sup = "dropping" => stage[h] = "joining"
<1>1. at \in Nat /\ h \in Nat /\ at \in Hubs
  BY HubFacts DEF LifeInv, TypeOK
<1>2. h < at \/ h = at \/ h > at
  BY <1>1
<1>3. sup \in {"validating", "starting", "ready", "rollback", "stopping", "dropping", "failed",
              "stopped"} /\ SupInv
  BY DEF LifeInv, TypeOK
<1>4. at = h
  BY <1>2, <1>3 DEF SupInv, Stopping
<1>5. stage[h] \in {"awaitTasks", "awaitServers", "joining"}
  BY DEF Stopping
<1>6. sup \notin {"validating", "starting", "ready", "failed", "stopped"}
  BY <1>3, <1>4, <1>5 DEF SupInv
<1>7. sup = "dropping" => stage[h] = "joining"
  BY <1>3, <1>4, <1>5 DEF SupInv
<1>q. QED
  BY <1>3, <1>4, <1>6, <1>7

\* The hubs before and behind the supervisor's place stay as they should be.
LEMMA SupNext ==
  ASSUME LifeInv, TypeOK', [Next]_vars
  PROVE  SupInv'
<1> USE HubFacts DEF LifeInv
<1>1. CASE ValidateProfiles
  BY <1>1 DEF ValidateProfiles, hubVars, TypeOK, SupInv, Stopping
<1>2. CASE CtrlC \/ DropSupervisor
  BY <1>2 DEF CtrlC, DropSupervisor, hubVars, TypeOK, SupInv, Stopping
<1>3. ASSUME NEW h \in Hubs, OpenLedger(h) PROVE SupInv'
  BY <1>3 DEF OpenLedger, Starting, supVars, TypeOK, SupInv, Stopping
<1>4. ASSUME NEW h \in Hubs, StartOwner(h) PROVE SupInv'
  BY <1>4 DEF StartOwner, Starting, supVars, TypeOK, SupInv, Stopping
<1>5. ASSUME NEW h \in Hubs, StartPtys(h) PROVE SupInv'
  BY <1>5 DEF StartPtys, Starting, supVars, TypeOK, SupInv, Stopping
<1>6. ASSUME NEW h \in Hubs, HubReady(h) PROVE SupInv'
  BY <1>6 DEF HubReady, Starting, TypeOK, SupInv, Stopping
<1>7. ASSUME NEW h \in Hubs, StartFails(h) PROVE SupInv'
  <2>1. /\ sup = "starting" /\ at = h
        /\ stage' = [stage EXCEPT ![h] = "failed"]
        /\ IF h = 1 THEN sup' = "failed" /\ at' = at ELSE sup' = "rollback" /\ at' = h - 1
    BY <1>7 DEF StartFails, RollBackFrom, Starting
  <2>2. CASE h = 1
    BY <2>1, <2>2 DEF TypeOK, SupInv
  <2>3. CASE h # 1
    <3>1. sup' = "rollback" /\ at' = h - 1 /\ at' \in Hubs /\ at' < h
      BY <2>1, <2>3
    <3>2. stage'[at'] = "ready"
      BY <2>1, <3>1 DEF TypeOK, SupInv
    <3>3. \A g \in Hubs : (g < h => stage[g] = "ready") /\ (g > h => stage[g] = "idle")
      BY <2>1 DEF SupInv
    <3>4. \A g \in Hubs : stage'[g] = IF g = h THEN "failed" ELSE stage[g]
      BY <2>1 DEF TypeOK
    <3>5. \A g \in Hubs : (g < at' => g < h) /\ (g > at' => g >= h)
      BY <2>1, <3>1
    <3>6. \A g \in Hubs : (g < at' => stage'[g] = "ready")
                          /\ (g > at' => stage'[g] \in {"idle", "failed", "stopped"})
      BY <3>3, <3>4, <3>5
    <3>q. QED
      BY <3>1, <3>2, <3>6 DEF SupInv
  <2>q. QED
    BY <2>2, <2>3
<1>8. ASSUME NEW h \in Hubs, BeginShutdown(h) PROVE SupInv'
  BY <1>8 DEF BeginShutdown, supVars, TypeOK, SupInv, Stopping
<1>9. ASSUME NEW h \in Hubs, TasksAwaited(h) PROVE SupInv'
  <2>1. at = h /\ sup \in {"rollback", "stopping"}
    BY <1>9, StageAt DEF TasksAwaited, Stopping
  <2>q. QED
    BY <1>9, <2>1 DEF TasksAwaited, supVars, TypeOK, SupInv, Stopping
<1>10. ASSUME NEW h \in Hubs, ServersAwaited(h) PROVE SupInv'
  <2>1. at = h /\ sup \in {"rollback", "stopping"}
    BY <1>10, StageAt DEF ServersAwaited, Stopping
  <2>q. QED
    BY <1>10, <2>1 DEF ServersAwaited, supVars, TypeOK, SupInv, Stopping
<1>11. ASSUME NEW h \in Hubs, BeginDrop(h) PROVE SupInv'
  BY <1>11 DEF BeginDrop, supVars, TypeOK, SupInv, Stopping
<1>12. ASSUME NEW h \in Hubs, SealLedger(h) PROVE SupInv'
  <2>1. at = h /\ sup \in {"rollback", "stopping", "dropping"}
    BY <1>12, StageAt DEF SealLedger, Stopping
  <2>2. stage' = [stage EXCEPT ![h] = "stopped"]
    BY <1>12 DEF SealLedger
  <2>3. CASE sup = "dropping" /\ h < Len(Catalog)
    <3>1. sup' = sup /\ at' = h + 1 /\ at' \in Hubs
      BY <1>12, <2>3 DEF SealLedger, NextHub
    <3>2. at' > h /\ \A g \in Hubs : (g < at' => g <= h) /\ (g > at' => g > h)
      BY <2>3, <3>1
    <3>3. \A g \in Hubs : (g < h => stage[g] = "stopped") /\ (g > h => stage[g] = "ready")
      BY <2>1, <2>3 DEF SupInv
    <3>4. \A g \in Hubs : stage'[g] = IF g = h THEN "stopped" ELSE stage[g]
      BY <2>2 DEF TypeOK
    <3>q. QED
      <4>1. \A g \in Hubs : (g < at' => stage'[g] = "stopped") /\ (g > at' => stage'[g] = "ready")
        BY <3>2, <3>3, <3>4
      <4>2. stage'[at'] = "ready" /\ sup' = "dropping"
        BY <2>3, <3>1, <3>2, <3>3, <3>4
      <4>q. QED
        BY <4>1, <4>2 DEF SupInv
  <2>4. CASE sup # "dropping" /\ h > 1
    <3>1. sup' = sup /\ at' = h - 1 /\ at' \in Hubs
      BY <1>12, <2>4 DEF SealLedger, NextHub
    <3>2. at' < h /\ \A g \in Hubs : (g > at' => g >= h) /\ (g < at' => g < h)
      BY <2>4, <3>1
    <3>3. stage'[at'] = "ready"
      BY <2>1, <2>2, <2>4, <3>1, <3>2 DEF TypeOK, SupInv
    <3>4. CASE sup = "rollback"
      BY <2>1, <2>2, <3>1, <3>2, <3>3, <3>4 DEF TypeOK, SupInv
    <3>5. CASE sup = "stopping"
      BY <2>1, <2>2, <3>1, <3>2, <3>3, <3>5 DEF TypeOK, SupInv
    <3>q. QED
      BY <2>1, <2>4, <3>4, <3>5
  <2>5. CASE ~(sup = "dropping" /\ h < Len(Catalog)) /\ ~(sup # "dropping" /\ h > 1)
    <3>1. at' = at /\ sup' = IF sup = "rollback" THEN "failed" ELSE "stopped"
      BY <1>12, <2>5 DEF SealLedger, NextHub
    <3>2. \A g \in Hubs : g # h => IF sup = "dropping" THEN g < h ELSE g > h
      BY <2>5
    <3>q. QED
      BY <2>1, <2>2, <3>1, <3>2 DEF TypeOK, SupInv
  <2>q. QED
    BY <2>3, <2>4, <2>5
<1>13. ASSUME NEW h \in Hubs,
             BindEndpoint(h) \/ OwnerEnds(h) \/ LastReferenceDropped(h)
      PROVE  SupInv'
  <2>1. sup' = sup /\ at' = at /\ stage' = stage
    BY <1>13 DEF BindEndpoint, OwnerEnds, LastReferenceDropped, supVars
  <2>q. QED
    BY <2>1 DEF SupInv
<1>14. ASSUME NEW e \in Endpoint, EndpointStep(e) PROVE SupInv'
  BY <1>14
     DEF EndpointStep, Accept, Joins, Follows, RequestServed, PeerCloses, Cancelled, PtyRegisters,
         PtyFails, TaskDropped, ServerEnds, supVars, hubVars, TypeOK, SupInv, Stopping
<1>15. CASE UNCHANGED vars
  BY <1>15 DEF vars, TypeOK, SupInv, Stopping
<1>q. QED
  BY <1>1, <1>2, <1>3, <1>4, <1>5, <1>6, <1>7, <1>8, <1>9, <1>10, <1>11, <1>12, <1>13, <1>14, <1>15
     DEF Next, HubStep, EndpointStep

\* Owner, ledger and way of stopping follow the stage.
LEMMA StageNext ==
  ASSUME LifeInv, TypeOK', [Next]_vars
  PROVE  StageInv'
<1> USE HubFacts DEF LifeInv
<1>1. CASE ValidateProfiles \/ CtrlC \/ DropSupervisor
  <2>1. UNCHANGED hubVars
    BY <1>1 DEF ValidateProfiles, CtrlC, DropSupervisor
  <2>q. QED
    BY <2>1 DEF hubVars, StageInv
<1>2. ASSUME NEW h \in Hubs, OpenLedger(h) PROVE StageInv'
  BY <1>2 DEF OpenLedger, supVars, TypeOK, StageInv, Stopping, Launched
<1>3. ASSUME NEW h \in Hubs, BindEndpoint(h) PROVE StageInv'
  BY <1>3 DEF BindEndpoint, supVars, TypeOK, StageInv, Stopping, Launched
<1>4. ASSUME NEW h \in Hubs, StartOwner(h) PROVE StageInv'
  BY <1>4 DEF StartOwner, supVars, TypeOK, StageInv, Stopping, Launched
<1>5. ASSUME NEW h \in Hubs, StartPtys(h) PROVE StageInv'
  BY <1>5 DEF StartPtys, supVars, TypeOK, StageInv, Stopping, Launched
<1>6. ASSUME NEW h \in Hubs, HubReady(h) PROVE StageInv'
  BY <1>6 DEF HubReady, TypeOK, StageInv, Stopping, Launched
<1>7. ASSUME NEW h \in Hubs, StartFails(h) PROVE StageInv'
  BY <1>7 DEF StartFails, TypeOK, StageInv, Stopping, Launched
<1>8. ASSUME NEW h \in Hubs, BeginShutdown(h) PROVE StageInv'
  BY <1>8 DEF BeginShutdown, supVars, TypeOK, StageInv, Stopping, Launched
<1>9. ASSUME NEW h \in Hubs, TasksAwaited(h) PROVE StageInv'
  BY <1>9 DEF TasksAwaited, supVars, TypeOK, StageInv, Stopping, Launched
<1>10. ASSUME NEW h \in Hubs, ServersAwaited(h) PROVE StageInv'
  BY <1>10 DEF ServersAwaited, supVars, TypeOK, StageInv, Stopping, Launched
<1>11. ASSUME NEW h \in Hubs, BeginDrop(h) PROVE StageInv'
  BY <1>11 DEF BeginDrop, supVars, TypeOK, StageInv, Stopping, Launched
<1>12. ASSUME NEW h \in Hubs, OwnerEnds(h) PROVE StageInv'
  BY <1>12 DEF OwnerEnds, supVars, TypeOK, StageInv, Stopping, Launched
<1>13. ASSUME NEW h \in Hubs, SealLedger(h) PROVE StageInv'
  BY <1>13 DEF SealLedger, Joined, TypeOK, StageInv, Stopping, Launched
<1>14. ASSUME NEW h \in Hubs, LastReferenceDropped(h) PROVE StageInv'
  BY <1>14 DEF LastReferenceDropped, supVars, TypeOK, StageInv, Stopping, Launched
<1>15. ASSUME NEW e \in Endpoint, EndpointStep(e) PROVE StageInv'
  BY <1>15
     DEF EndpointStep, Accept, Joins, Follows, RequestServed, PeerCloses, Cancelled, PtyRegisters,
         PtyFails, TaskDropped, ServerEnds, supVars, hubVars, StageInv
<1>16. CASE UNCHANGED vars
  BY <1>16 DEF vars, StageInv
<1>q. QED
  BY <1>1, <1>2, <1>3, <1>4, <1>5, <1>6, <1>7, <1>8, <1>9, <1>10, <1>11, <1>12, <1>13, <1>14,
     <1>15, <1>16
     DEF Next, HubStep

\* Endpoints and connections follow the stage of their hub.
LEMMA EndpointNext ==
  ASSUME LifeInv, TypeOK', [Next]_vars
  PROVE  EndpointInv'
<1> USE HubFacts DEF LifeInv
<1>1. CASE ValidateProfiles \/ CtrlC \/ DropSupervisor
  BY <1>1 DEF ValidateProfiles, CtrlC, DropSupervisor, hubVars, EndpointInv, EndpointOK
<1>2. ASSUME NEW h \in Hubs, OpenLedger(h) PROVE EndpointInv'
  <2> SUFFICES ASSUME NEW f \in Endpoint PROVE EndpointOK(f)'
    BY DEF EndpointInv
  <2>1. /\ EndpointOK(f) /\ HubOf(f) \in Hubs /\ f[2] \in Nat
        /\ 1 <= f[2] /\ f[2] <= Len(Catalog[HubOf(f)])
    BY EndpointFacts DEF EndpointInv
  <2>2. CASE HubOf(f) = h
    BY <1>2, <2>1, <2>2
       DEF OpenLedger, supVars, TypeOK, StageInv, EndpointOK, Stopping, Launched
  <2>3. CASE HubOf(f) # h
    BY <1>2, <2>1, <2>3 DEF OpenLedger, supVars, TypeOK, EndpointOK
  <2>q. QED
    BY <2>2, <2>3
<1>3. ASSUME NEW h \in Hubs, BindEndpoint(h) PROVE EndpointInv'
  <2> SUFFICES ASSUME NEW f \in Endpoint PROVE EndpointOK(f)'
    BY DEF EndpointInv
  <2>1. /\ EndpointOK(f) /\ HubOf(f) \in Hubs /\ f[2] \in Nat
        /\ 1 <= f[2] /\ f[2] <= Len(Catalog[HubOf(f)])
    BY EndpointFacts DEF EndpointInv
  <2>2. /\ bound' = [bound EXCEPT ![h] = bound[h] + 1] /\ stage[h] = "binding"
        /\ UNCHANGED <<stage, graceful, ledger, conn, refused>>
    BY <1>3 DEF BindEndpoint
  <2>3. IF HubOf(f) = h /\ f[2] = bound[h] + 1 THEN ep'[f] \in {"prepared", "up"}
                                               ELSE ep'[f] = ep[f]
    BY <1>3, BindFacts
  <2>4. bound \in [Hubs -> Nat] /\ bound[h] \in Nat
    BY DEF TypeOK
  <2>5. CASE HubOf(f) = h
    <3>1. stage'[HubOf(f)] = "binding" /\ bound'[HubOf(f)] = bound[h] + 1
      BY <2>2, <2>4, <2>5
    <3>2. ep[f] # "none" <=> f[2] <= bound[h]
      BY <2>1, <2>2, <2>5 DEF EndpointOK
    <3>3. ep'[f] # "none" <=> f[2] <= bound[h] + 1
      BY <2>1, <2>3, <2>4, <2>5, <3>2
    <3>4. KindOf(f) = "pty" => /\ conn'[f] # "none" => ep'[f] \in {"up", "stopping"}
                               /\ f \notin refused'
      BY <2>1, <2>2, <2>3, <2>4, <2>5, <3>2 DEF EndpointOK
    <3>q. QED
      BY <3>1, <3>3, <3>4 DEF EndpointOK, Launched, Stopping
  <2>6. CASE HubOf(f) # h
    <3>1. ep'[f] = ep[f] /\ bound'[HubOf(f)] = bound[HubOf(f)]
      BY <2>1, <2>2, <2>3, <2>4, <2>6
    <3>q. QED
      BY <2>1, <2>2, <3>1 DEF EndpointOK
  <2>q. QED
    BY <2>5, <2>6
<1>4. ASSUME NEW h \in Hubs, StartOwner(h) PROVE EndpointInv'
  BY <1>4, EndpointFacts
     DEF StartOwner, OwnerMayStart, supVars, TypeOK, StageInv, EndpointInv, EndpointOK,
         Stopping, Launched
<1>5. ASSUME NEW h \in Hubs, StartPtys(h) PROVE EndpointInv'
  BY <1>5, EndpointFacts
     DEF StartPtys, supVars, TypeOK, StageInv, EndpointInv, EndpointOK, Stopping, Launched
<1>6. ASSUME NEW h \in Hubs, HubReady(h) PROVE EndpointInv'
  BY <1>6, EndpointFacts
     DEF HubReady, TypeOK, StageInv, EndpointInv, EndpointOK, Stopping, Launched
<1>7. ASSUME NEW h \in Hubs, StartFails(h) PROVE EndpointInv'
  <2> SUFFICES ASSUME NEW f \in Endpoint PROVE EndpointOK(f)'
    BY DEF EndpointInv
  <2>1. /\ EndpointOK(f) /\ HubOf(f) \in Hubs /\ f[2] \in Nat
        /\ 1 <= f[2] /\ f[2] <= Len(Catalog[HubOf(f)])
    BY EndpointFacts DEF EndpointInv
  <2>2. /\ stage' = [stage EXCEPT ![h] = "failed"] /\ stage[h] \in {"idle", "binding"}
        /\ UNCHANGED <<bound, graceful, ledger, conn, refused>>
    BY <1>7 DEF StartFails
  <2>3. CASE HubOf(f) = h
    <3>1. /\ ep'[f] \notin {"prepared", "up"}
          /\ ep[f] \in {"up", "stopping"} => ep'[f] = "stopping"
      BY <1>7, <2>3, HaltedFacts DEF StartFails
    <3>2. stage'[HubOf(f)] = "failed" /\ ledger[HubOf(f)] # "sealed" /\ ~graceful[HubOf(f)]
      BY <2>2, <2>3 DEF TypeOK, StageInv, Stopping
    <3>q. QED
      BY <2>1, <2>2, <2>3, <3>1, <3>2 DEF EndpointOK, Stopping, Launched
  <2>4. CASE HubOf(f) # h
    <3>1. ep'[f] = ep[f]
      BY <1>7, <2>4, HaltedFacts DEF StartFails
    <3>2. stage'[HubOf(f)] = stage[HubOf(f)]
      BY <2>2, <2>4, <2>1 DEF TypeOK
    <3>q. QED
      BY <2>1, <2>2, <3>1, <3>2 DEF EndpointOK
  <2>q. QED
    BY <2>3, <2>4
<1>8. ASSUME NEW h \in Hubs, BeginShutdown(h) PROVE EndpointInv'
  BY <1>8, EndpointFacts, HaltedFacts
     DEF BeginShutdown, supVars, TypeOK, StageInv, EndpointInv, EndpointOK, Stopping, Launched
<1>9. ASSUME NEW h \in Hubs, TasksAwaited(h) PROVE EndpointInv'
  BY <1>9, EndpointFacts
     DEF TasksAwaited, TasksEnded, EndpointsOf, supVars, TypeOK, StageInv, EndpointInv,
         EndpointOK, Stopping, Launched
<1>10. ASSUME NEW h \in Hubs, ServersAwaited(h) PROVE EndpointInv'
  BY <1>10, EndpointFacts
     DEF ServersAwaited, EndpointsOf, supVars, TypeOK, StageInv, EndpointInv, EndpointOK,
         Stopping, Launched
<1>11. ASSUME NEW h \in Hubs, BeginDrop(h) PROVE EndpointInv'
  <2> SUFFICES ASSUME NEW f \in Endpoint PROVE EndpointOK(f)'
    BY DEF EndpointInv
  <2>1. /\ EndpointOK(f) /\ HubOf(f) \in Hubs /\ f[2] \in Nat
        /\ 1 <= f[2] /\ f[2] <= Len(Catalog[HubOf(f)])
    BY EndpointFacts DEF EndpointInv
  <2>2. /\ stage' = [stage EXCEPT ![h] = "joining"] /\ stage[h] = "ready"
        /\ UNCHANGED <<bound, graceful, ledger, conn, refused>>
    BY <1>11 DEF BeginDrop
  <2>3. CASE HubOf(f) = h
    <3>1. /\ ep'[f] \notin {"prepared", "up"}
          /\ ep'[f] = "none" <=> ep[f] = "none"
          /\ ep[f] \in {"up", "stopping"} => ep'[f] = "stopping"
      BY <1>11, <2>3, HaltedFacts DEF BeginDrop
    <3>2. stage'[HubOf(f)] = "joining" /\ ~graceful[HubOf(f)]
      BY <2>2, <2>3 DEF TypeOK, StageInv, Stopping
    <3>q. QED
      BY <2>1, <2>2, <2>3, <3>1, <3>2 DEF EndpointOK, Stopping, Launched
  <2>4. CASE HubOf(f) # h
    <3>1. ep'[f] = ep[f]
      BY <1>11, <2>4, HaltedFacts DEF BeginDrop
    <3>2. stage'[HubOf(f)] = stage[HubOf(f)]
      BY <2>2, <2>4, <2>1 DEF TypeOK
    <3>q. QED
      BY <2>1, <2>2, <3>1, <3>2 DEF EndpointOK
  <2>q. QED
    BY <2>3, <2>4
<1>12. ASSUME NEW h \in Hubs, OwnerEnds(h) PROVE EndpointInv'
  BY <1>12, EndpointFacts
     DEF OwnerEnds, supVars, TypeOK, StageInv, EndpointInv, EndpointOK, Stopping, Launched
<1>13. ASSUME NEW h \in Hubs, SealLedger(h) PROVE EndpointInv'
  BY <1>13, EndpointFacts
     DEF SealLedger, TypeOK, StageInv, EndpointInv, EndpointOK, Stopping, Launched
<1>14. ASSUME NEW h \in Hubs, LastReferenceDropped(h) PROVE EndpointInv'
  BY <1>14, EndpointFacts
     DEF LastReferenceDropped, EndpointsOf, supVars, TypeOK, StageInv, EndpointInv, EndpointOK,
         Stopping, Launched
<1>15. ASSUME NEW e \in Endpoint, Accept(e) PROVE EndpointInv'
  BY <1>15, EndpointFacts
     DEF Accept, supVars, hubVars, TypeOK, StageInv, EndpointInv, EndpointOK, Stopping, Launched
<1>16. ASSUME NEW e \in Endpoint, Joins(e) PROVE EndpointInv'
  <2> SUFFICES ASSUME NEW f \in Endpoint PROVE EndpointOK(f)'
    BY DEF EndpointInv
  <2>1. /\ EndpointOK(f) /\ HubOf(f) \in Hubs /\ f[2] \in Nat
        /\ 1 <= f[2] /\ f[2] <= Len(Catalog[HubOf(f)])
    BY EndpointFacts DEF EndpointInv
  <2>2. CASE f = e
    BY <1>16, <2>1, <2>2
       DEF Joins, Register, Recorded, supVars, hubVars, TypeOK, StageInv, EndpointOK, Stopping,
           Launched
  <2>3. CASE f # e
    BY <1>16, <2>1, <2>3 DEF Joins, Register, Recorded, supVars, hubVars, TypeOK, EndpointOK
  <2>q. QED
    BY <2>2, <2>3
<1>17. ASSUME NEW e \in Endpoint, RequestServed(e) PROVE EndpointInv'
  BY <1>17, EndpointFacts
     DEF RequestServed, supVars, hubVars, TypeOK, StageInv, EndpointInv, EndpointOK, Stopping,
         Launched
<1>17a. ASSUME NEW e \in Endpoint, Follows(e) PROVE EndpointInv'
  BY <1>17a, EndpointFacts
     DEF Follows, supVars, hubVars, TypeOK, StageInv, EndpointInv, EndpointOK, Stopping, Launched
<1>18. ASSUME NEW e \in Endpoint, PeerCloses(e) PROVE EndpointInv'
  BY <1>18, EndpointFacts
     DEF PeerCloses, Unregister, Recorded, supVars, hubVars, TypeOK, StageInv, EndpointInv,
         EndpointOK, Stopping, Launched
<1>19. ASSUME NEW e \in Endpoint, Cancelled(e) PROVE EndpointInv'
  BY <1>19, EndpointFacts
     DEF Cancelled, Reached, Unregister, Recorded, supVars, hubVars, TypeOK, StageInv,
         EndpointInv, EndpointOK, Stopping, Launched
<1>20. ASSUME NEW e \in Endpoint, PtyRegisters(e) PROVE EndpointInv'
  <2> SUFFICES ASSUME NEW f \in Endpoint PROVE EndpointOK(f)'
    BY DEF EndpointInv
  <2>1. /\ EndpointOK(f) /\ HubOf(f) \in Hubs /\ f[2] \in Nat
        /\ 1 <= f[2] /\ f[2] <= Len(Catalog[HubOf(f)])
    BY EndpointFacts DEF EndpointInv
  <2>2. CASE f = e
    BY <1>20, <2>1, <2>2
       DEF PtyRegisters, Register, Recorded, supVars, hubVars, TypeOK, StageInv, EndpointOK,
           Stopping, Launched
  <2>3. CASE f # e
    BY <1>20, <2>1, <2>3
       DEF PtyRegisters, Register, Recorded, supVars, hubVars, TypeOK, EndpointOK
  <2>q. QED
    BY <2>2, <2>3
<1>21. ASSUME NEW e \in Endpoint, PtyFails(e) PROVE EndpointInv'
  <2> SUFFICES ASSUME NEW f \in Endpoint PROVE EndpointOK(f)'
    BY DEF EndpointInv
  <2>1. /\ EndpointOK(f) /\ HubOf(f) \in Hubs /\ f[2] \in Nat
        /\ 1 <= f[2] /\ f[2] <= Len(Catalog[HubOf(f)])
    BY EndpointFacts DEF EndpointInv
  <2>2. /\ ep' = [ep EXCEPT ![e] = "down"] /\ ep[e] = "up"
        /\ UNCHANGED <<stage, bound, graceful, ledger>>
    BY <1>21 DEF PtyFails, hubVars
  <2>3. CASE f # e
    <3>1. ep'[f] = ep[f] /\ conn'[f] = conn[f] /\ (f \in refused' <=> f \in refused)
      BY <1>21, <2>3 DEF PtyFails, Unregister, Recorded, TypeOK
    <3>q. QED
      BY <2>1, <2>2, <3>1 DEF EndpointOK
  <2>4. CASE f = e
    <3>1. ep'[f] = "down" /\ (KindOf(f) = "pty" => conn'[f] = "none")
      BY <1>21, <2>2, <2>4 DEF PtyFails, Unregister, TypeOK
    <3>2. ledger[HubOf(f)] = "sealed" => stage[HubOf(f)] = "stopped" /\ ~graceful[HubOf(f)]
      BY <2>1, <2>2, <2>4 DEF EndpointOK, StageInv, TypeOK, Launched, Stopping
    <3>3. f \in refused' => f \in refused \/ ledger[HubOf(f)] = "sealed"
      BY <1>21, <2>4 DEF PtyFails, Unregister, Recorded
    <3>4. /\ stage[HubOf(f)] # "idle"
          /\ stage[HubOf(f)] = "failed" => ledger[HubOf(f)] # "sealed"
      BY <2>1, <2>2, <2>4, <3>2 DEF EndpointOK
    <3>5. stage[HubOf(f)] = "binding" => f[2] <= bound[HubOf(f)]
      BY <2>1, <2>2, <2>4 DEF EndpointOK
    <3>q. QED
      BY <2>1, <2>2, <3>1, <3>2, <3>3, <3>4, <3>5 DEF EndpointOK
  <2>q. QED
    BY <2>3, <2>4
<1>22. ASSUME NEW e \in Endpoint, TaskDropped(e) PROVE EndpointInv'
  <2> SUFFICES ASSUME NEW f \in Endpoint PROVE EndpointOK(f)'
    BY DEF EndpointInv
  <2>1. /\ EndpointOK(f) /\ HubOf(f) \in Hubs /\ f[2] \in Nat
        /\ 1 <= f[2] /\ f[2] <= Len(Catalog[HubOf(f)])
    BY EndpointFacts DEF EndpointInv
  <2>2. /\ ep' = [ep EXCEPT ![e] = "down"] /\ ep[e] = "stopping"
        /\ UNCHANGED <<stage, bound, graceful, ledger>>
    BY <1>22 DEF TaskDropped, hubVars
  <2>3. CASE f # e
    <3>1. ep'[f] = ep[f] /\ conn'[f] = conn[f] /\ (f \in refused' <=> f \in refused)
      BY <1>22, <2>3 DEF TaskDropped, Unregister, Recorded, TypeOK
    <3>q. QED
      BY <2>1, <2>2, <3>1 DEF EndpointOK
  <2>4. CASE f = e
    <3>1. ep'[f] = "down" /\ (KindOf(f) = "pty" => conn'[f] = "none")
      BY <1>22, <2>2, <2>4 DEF TaskDropped, Unregister, TypeOK
    <3>2. ledger[HubOf(f)] = "sealed" => stage[HubOf(f)] = "stopped" /\ ~graceful[HubOf(f)]
      BY <2>1, <2>2, <2>4 DEF EndpointOK, StageInv, TypeOK, Launched, Stopping
    <3>3. f \in refused' => f \in refused \/ ledger[HubOf(f)] = "sealed"
      BY <1>22, <2>4 DEF TaskDropped, Unregister, Recorded
    <3>4. /\ stage[HubOf(f)] # "idle"
          /\ stage[HubOf(f)] = "failed" => ledger[HubOf(f)] # "sealed"
      BY <2>1, <2>2, <2>4, <3>2 DEF EndpointOK
    <3>5. stage[HubOf(f)] = "binding" => f[2] <= bound[HubOf(f)]
      BY <2>1, <2>2, <2>4 DEF EndpointOK
    <3>q. QED
      BY <2>1, <2>2, <3>1, <3>2, <3>3, <3>4, <3>5 DEF EndpointOK
  <2>q. QED
    BY <2>3, <2>4
<1>23. ASSUME NEW e \in Endpoint, ServerEnds(e) PROVE EndpointInv'
  BY <1>23, EndpointFacts
     DEF ServerEnds, supVars, hubVars, TypeOK, StageInv, EndpointInv, EndpointOK, Stopping,
         Launched
<1>24. CASE UNCHANGED vars
  BY <1>24 DEF vars, EndpointInv, EndpointOK
<1>q. QED
  BY <1>1, <1>2, <1>3, <1>4, <1>5, <1>6, <1>7, <1>8, <1>9, <1>10, <1>11, <1>12, <1>13, <1>14,
     <1>15, <1>16, <1>17, <1>18, <1>19, <1>20, <1>21, <1>22, <1>23, <1>24, <1>17a
     DEF Next, HubStep, EndpointStep

\* A connection comes with a task that is up, and goes before its server does.
LEMMA ConnNext ==
  ASSUME LifeInv, TypeOK', [Next]_vars
  PROVE  ConnInv'
<1> USE HubFacts DEF LifeInv
<1> SUFFICES ASSUME NEW f \in Endpoint PROVE ConnOK(f)'
  BY DEF ConnInv
<1>1. ConnOK(f) /\ HubOf(f) \in Hubs
  BY EndpointFacts DEF ConnInv
<1>2. CASE ep' = ep /\ conn' = conn
  BY <1>1, <1>2 DEF ConnOK
<1>3. ASSUME NEW h \in Hubs, BindEndpoint(h) PROVE ConnOK(f)'
  <2>1. conn' = conn /\ stage[h] = "binding"
    BY <1>3 DEF BindEndpoint
  <2>2. CASE HubOf(f) = h /\ f[2] = bound[h] + 1
    <3>1. ep[f] = "none"
      BY <2>1, <2>2, EndpointFacts DEF EndpointInv, EndpointOK, TypeOK
    <3>q. QED
      BY <1>1, <2>1, <3>1 DEF ConnOK, TypeOK
  <2>3. CASE ~(HubOf(f) = h /\ f[2] = bound[h] + 1)
    <3>1. ep'[f] = ep[f]
      BY <1>3, <2>3, BindFacts
    <3>q. QED
      BY <1>1, <2>1, <3>1 DEF ConnOK
  <2>q. QED
    BY <2>2, <2>3
<1>4. ASSUME NEW h \in Hubs, StartPtys(h) PROVE ConnOK(f)'
  BY <1>1, <1>4 DEF StartPtys, ConnOK, TypeOK
<1>5. ASSUME NEW h \in Hubs, StartFails(h) \/ BeginShutdown(h) \/ BeginDrop(h) PROVE ConnOK(f)'
  <2>1. ep' = Halted(h) /\ conn' = conn
    BY <1>5 DEF StartFails, BeginShutdown, BeginDrop
  <2>2. \/ ep'[f] = ep[f]
        \/ ep[f] \in {"up", "stopping"} /\ ep'[f] = "stopping"
        \/ ep[f] \in {"none", "prepared"}
    <3>1. ep[f] \in {"none", "prepared", "up", "stopping", "down"}
      BY DEF TypeOK
    <3>2. /\ HubOf(f) # h => Halted(h)[f] = ep[f]
          /\ HubOf(f) = h /\ ep[f] \in {"up", "stopping"} => Halted(h)[f] = "stopping"
          /\ HubOf(f) = h /\ ep[f] = "down" => Halted(h)[f] = "down"
      BY HaltedFacts
    <3>q. QED
      BY <2>1, <3>1, <3>2
  <2>q. QED
    BY <1>1, <2>1, <2>2 DEF ConnOK
<1>6. ASSUME NEW e \in Endpoint, EndpointStep(e) PROVE ConnOK(f)'
  <2>1. CASE f # e
    <3>1. ep'[f] = ep[f] /\ conn'[f] = conn[f]
      BY <1>6, <2>1
         DEF EndpointStep, Accept, Joins, Follows, RequestServed, PeerCloses, Cancelled,
             PtyRegisters, PtyFails, TaskDropped, ServerEnds, Register, Unregister, TypeOK
    <3>q. QED
      BY <1>1, <3>1 DEF ConnOK
  <2>2. CASE f = e
    <3>1. CASE Accept(e) \/ Joins(e) \/ Follows(e) \/ RequestServed(e) \/ PtyRegisters(e)
      BY <1>1, <2>2, <3>1
         DEF Accept, Joins, Follows, RequestServed, PtyRegisters, Register, ConnOK, TypeOK
    <3>2. CASE PeerCloses(e) \/ Cancelled(e) \/ PtyFails(e)
      BY <1>1, <2>2, <3>2
         DEF PeerCloses, Cancelled, PtyFails, Unregister, ConnOK, TypeOK
    <3>3. CASE TaskDropped(e) \/ ServerEnds(e)
      BY <1>1, <2>2, <3>3 DEF TaskDropped, ServerEnds, Unregister, ConnOK, TypeOK
    <3>q. QED
      BY <1>6, <3>1, <3>2, <3>3 DEF EndpointStep
  <2>q. QED
    BY <2>1, <2>2
<1>q. QED
  BY <1>2, <1>3, <1>4, <1>5, <1>6
     DEF Next, HubStep, vars, ValidateProfiles, CtrlC, DropSupervisor, OpenLedger, StartOwner,
         HubReady, TasksAwaited, ServersAwaited, SealLedger, OwnerEnds, LastReferenceDropped

\* Nothing is started past a collision.
LEMMA SelNext ==
  ASSUME LifeInv, TypeOK', [Next]_vars
  PROVE  SelInv'
<1>1. CASE ValidateProfiles
  <2>1. sel' = sel /\ stage' = stage
    BY <1>1 DEF ValidateProfiles, hubVars
  <2>2. NoCollision' <=> NoCollision
    BY <2>1 DEF NoCollision, Collides
  <2>3. sup' = "starting" => NoCollision
    BY <1>1 DEF ValidateProfiles, NoCollision
  <2>q. QED
    BY <2>1, <2>2, <2>3 DEF LifeInv, SelInv
<1>2. CASE ~ValidateProfiles
  <2>1. sel' = sel
    BY <1>2 DEF Next, HubStep, EndpointStep, vars, supVars, CtrlC, DropSupervisor, OpenLedger,
      BindEndpoint, StartOwner, StartPtys, HubReady, StartFails, BeginShutdown, TasksAwaited,
      ServersAwaited, BeginDrop, SealLedger, OwnerEnds, LastReferenceDropped, Accept, Joins, Follows,
      RequestServed, PeerCloses, Cancelled, PtyRegisters, PtyFails, TaskDropped, ServerEnds
  <2>2. sup' = "starting" => sup = "starting"
    BY <1>2 DEF Next, HubStep, EndpointStep, vars, supVars, CtrlC, DropSupervisor, OpenLedger,
      BindEndpoint, StartOwner, StartPtys, HubReady, StartFails, RollBackFrom, BeginShutdown,
      TasksAwaited, ServersAwaited, BeginDrop, SealLedger, NextHub, OwnerEnds,
      LastReferenceDropped, Accept, Joins, Follows, RequestServed, PeerCloses, Cancelled, PtyRegisters,
      PtyFails, TaskDropped, ServerEnds
  <2>3. \/ stage' = stage
        \/ sup = "starting"
        \/ \E h \in Hubs : stage[h] # "idle"
    BY <1>2 DEF Next, HubStep, EndpointStep, vars, hubVars, CtrlC, DropSupervisor, OpenLedger,
      BindEndpoint, StartOwner, StartPtys, HubReady, StartFails, Starting, BeginShutdown,
      TasksAwaited, ServersAwaited, BeginDrop, SealLedger, OwnerEnds, LastReferenceDropped,
      Accept, Joins, Follows, RequestServed, PeerCloses, Cancelled, PtyRegisters, PtyFails, TaskDropped,
      ServerEnds
  <2>4. NoCollision' <=> NoCollision
    BY <2>1 DEF NoCollision, Collides
  <2>q. QED
    BY <2>2, <2>3, <2>4 DEF LifeInv, SelInv
<1>q. QED
  BY <1>1, <1>2

\* Every step keeps the invariant.
LEMMA LifeNext == LifeInv /\ [Next]_vars => LifeInv'
<1> SUFFICES ASSUME LifeInv, [Next]_vars PROVE LifeInv'
  OBVIOUS
<1>1. TypeOK'
  BY TypeNext DEF LifeInv
<1>q. QED
  BY <1>1, SupNext, StageNext, EndpointNext, ConnNext, SelNext DEF LifeInv

-----------------------------------------------------------------------------
(* Every variable keeps its type.                                           *)
THEOREM TypeCorrect == Spec => []TypeOK
<1>1. Init => TypeOK
  BY InitInv DEF LifeInv
<1>q. QED
  BY <1>1, TypeNext, PTL DEF Spec

(* Where the supervisor, each hub and each endpoint are agrees always.      *)
THEOREM LifeInvariance == Spec => []LifeInv
  BY InitInv, LifeNext, PTL DEF Spec

\* The thread exists only from "launching" on, when everything is bound.
LEMMA DeviceLastHolds == LifeInv => DeviceLast
<1> SUFFICES ASSUME LifeInv, NEW h \in Hubs
             PROVE  /\ owner[h] # "none" => \A e \in EndpointsOf(h) : ep[e] # "none"
                    /\ stage[h] = "failed" => owner[h] = "none"
  BY DEF DeviceLast
<1>1. ASSUME owner[h] # "none" PROVE stage[h] \in Launched \cup {"joining", "stopped"}
  BY <1>1 DEF LifeInv, TypeOK, StageInv, Launched
<1>q. QED
  BY <1>1 DEF LifeInv, StageInv, EndpointInv, EndpointOK, EndpointsOf

(* No start that fails has touched a device.                                *)
THEOREM DeviceIsLast == Spec => []DeviceLast
  BY LifeInvariance, DeviceLastHolds, PTL

\* The four kinds of endpoint.
LEMMA KindFacts ==
  ASSUME NEW e \in Endpoint
  PROVE  KindOf(e) \in Kinds
BY CatalogAssumption, EndpointFacts DEF KindOf, HubOf, Hubs

\* A connection beside a task that has ended was told to end, or only its peer can end it.
LEMMA LeftoverConn ==
  ASSUME LifeInv, NEW e \in Endpoint, conn[e] # "none", ep[e] = "down"
  PROVE  KindOf(e) # "pty" /\ (Reached(e) \/ KeptByPeer(e))
<1>1. EndpointOK(e) /\ ConnOK(e)
  BY DEF LifeInv, EndpointInv, ConnInv
<1>2. KindOf(e) # "pty"
  BY <1>1 DEF EndpointOK
<1>3. KindOf(e) \in {"api", "tcp", "pty", "rfc2217"}
  BY KindFacts DEF Kinds
<1>4. conn[e] \in {"none", "accepted", "registered", "following"}
  BY DEF LifeInv, TypeOK
<1>q. QED
  BY <1>1, <1>2, <1>3, <1>4 DEF ConnOK, Reached, KeptByPeer

\* A supervisor that has ended leaves no hub between idle and stopped.
LEMMA LeftoversHold == LifeInv => WhatAStopLeaves
<1> SUFFICES ASSUME LifeInv, Ended, NEW h \in Hubs
             PROVE  /\ OnlyLeftovers(h)
                    /\ graceful[h] => stage[h] = "stopped" /\ Awaited(h)
                    /\ stage[h] = "stopped" => ledger[h] = "sealed"
                    /\ stage[h] = "failed" /\ ledger[h] = "sealed" =>
                         \A e \in EndpointsOf(h) : ep[e] \in {"none", "down"} /\ conn[e] = "none"
  BY DEF WhatAStopLeaves
<1>1. stage[h] \in {"idle", "failed", "stopped"}
  BY DEF LifeInv, SupInv, Ended
<1>2. owner[h] \in {"none", "gone"} /\ (stage[h] = "stopped" => ledger[h] = "sealed")
  BY <1>1 DEF LifeInv, StageInv
<1>3. graceful[h] => stage[h] = "stopped"
  BY <1>1 DEF LifeInv, StageInv, Stopping
<1>4. ASSUME NEW e \in EndpointsOf(h)
      PROVE  e \in Endpoint /\ HubOf(e) = h /\ EndpointOK(e) /\ ConnOK(e)
  BY <1>4 DEF EndpointsOf, LifeInv, EndpointInv, ConnInv
<1>5. OnlyLeftovers(h)
  <2>1. ASSUME NEW e \in EndpointsOf(h) PROVE ep[e] \in {"none", "stopping", "down"}
    BY <1>1, <1>4, <2>1 DEF EndpointOK, LifeInv, TypeOK, Stopping
  <2>2. ASSUME NEW e \in EndpointsOf(h), conn[e] # "none"
        PROVE  ep[e] = "stopping" \/ Reached(e) \/ KeptByPeer(e)
    BY <1>4, <2>1, <2>2, LeftoverConn DEF ConnOK
  <2>q. QED
    BY <1>1, <1>2, <2>1, <2>2 DEF OnlyLeftovers
<1>6. graceful[h] => Awaited(h)
  <2>1. ASSUME graceful[h], NEW e \in EndpointsOf(h) PROVE ep[e] = "down"
    BY <1>3, <1>4, <2>1 DEF EndpointOK
  <2>q. QED
    BY <1>4, <2>1, LeftoverConn DEF Awaited
<1>7. ASSUME stage[h] = "failed", ledger[h] = "sealed", NEW e \in EndpointsOf(h)
      PROVE  ep[e] \in {"none", "down"} /\ conn[e] = "none"
  BY <1>4, <1>7 DEF EndpointOK
<1>q. QED
  BY <1>2, <1>3, <1>5, <1>6, <1>7

(* What a start that failed or a stop that finished leaves: no owner, nothing that was not  *)
(* told to end, no unsealed ledger of a stopped hub; connections of some kinds it may leave. *)
THEOREM LeftoversAreKnown == Spec => []WhatAStopLeaves
  BY LifeInvariance, LeftoversHold, PTL

\* A running or stopping owner belongs to a stage whose ledger is open.
LEMMA EvidenceHolds == LifeInv => EvidenceOutlivesOwner
  BY DEF LifeInv, TypeOK, StageInv, Launched, EvidenceOutlivesOwner

(* The ledger of a hub is open as long as its owner thread runs.            *)
THEOREM EvidenceIsKept == Spec => []EvidenceOutlivesOwner
  BY LifeInvariance, EvidenceHolds, PTL

\* A PTY's client is refused only by the ledger of a hub that was dropped.
LEMMA PtyEvidenceHolds == LifeInv => PtyEvidenceKept
<1> SUFFICES ASSUME LifeInv, NEW e \in Endpoint, KindOf(e) = "pty",
                    graceful[HubOf(e)] \/ stage[HubOf(e)] # "stopped"
             PROVE  /\ e \notin refused
                    /\ stage[HubOf(e)] = "stopped" => conn[e] = "none"
  BY DEF PtyEvidenceKept
<1>q. QED
  BY DEF LifeInv, EndpointInv, EndpointOK

(* No client event of a PTY is lost to a graceful shutdown.                 *)
THEOREM PtyEvidenceIsKept == Spec => []PtyEvidenceKept
  BY LifeInvariance, PtyEvidenceHolds, PTL

\* Two owners mean two started hubs, whose selectors do not collide.
LEMMA OneOwnerHolds == LifeInv => OneOwnerPerDevice
<1> SUFFICES ASSUME LifeInv, NEW g \in Hubs, NEW h \in Hubs, g # h,
                    owner[g] \in {"running", "stopping"}
             PROVE  Opens(g) \cap Opens(h) = {}
  BY DEF OneOwnerPerDevice
<1>1. stage[g] # "idle"
  BY DEF LifeInv, StageInv
<1>2. NoCollision
  BY <1>1 DEF LifeInv, SelInv
<1>3. g < h \/ h < g
  BY HubFacts
<1>4. sel[g] # sel[h] /\ sel[g] # AnySerial /\ sel[h] # AnySerial
  BY <1>2, <1>3 DEF NoCollision, Collides
<1>q. QED
  BY <1>4 DEF Opens

(* No two running owners select the same device.                            *)
THEOREM OwnersAreApart == Spec => []OneOwnerPerDevice
  BY LifeInvariance, OneOwnerHolds, PTL

=============================================================================
