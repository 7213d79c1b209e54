----------------------------- MODULE MCCluster ------------------------------
(***************************************************************************)
(* How the processes find each other, for model checking: the bus and the  *)
(* index it routes by, the hub's view of the cluster, and the supervisor   *)
(* of the media servers.  They share no variable in the model, so each     *)
(* behaviour follows one of them (focus); the variables of the others are  *)
(* not in use (Off).                                                       *)
(***************************************************************************)
EXTENDS Integers, Sequences, FiniteSets, TLC

CONSTANTS Focus,                                              \* the components to follow
          n1, n2, cl, t1, me, a, b, r1

CONSTANTS Routers, Clients, Rank, Seeds, Watchers, Keys, StartToken, Topic, Svc, Subscribers, Servers, Local,
          ReqCap, DataCap, Declarers, Putters, Getters, Flaky, Crashing, MaxSno, MaxFault, MaxCall,   \* Mesh
          Subs, Letters, Plain, MaxChunks,                    \* KeyIndex
          Me, Others, Rooms, Score, MaxRooms, MaxChange,      \* HubView
          IntensityMax, MaxBoot, MaxReq                       \* Supervisor

VARIABLES core, hs, faults, busCmds, puts
VARIABLES exprs, exact, wild
VARIABLES links, hubs, inst, hosts, nodeQ, roomQ, nodes, routing, seenOther, isolated,
          held, pending, quiet, graced, selfDeclared, duplicates, wasIsolated, creating,
          changes
VARIABLES st, pc, cmds, children, boot, local, attempts, counted, stopping,
          nodeDeclared, reqs
VARIABLE focus

busVars == <<core, hs, faults, busCmds, puts>>
keyVars == <<exprs, exact, wild>>
viewVars == <<links, hubs, inst, hosts, nodeQ, roomQ, nodes, routing, seenOther, isolated, held, pending,
              quiet, graced, selfDeclared, duplicates, wasIsolated, creating, changes>>
unitVars == <<st, pc, cmds, children, boot, local, attempts, counted, stopping, nodeDeclared, reqs>>

Bus == INSTANCE Mesh WITH cmds <- busCmds, MaxCmd <- MaxCall
Key == INSTANCE KeyIndex
View == INSTANCE HubView
Unit == INSTANCE Supervisor

----------------------------------------------------------------------------
(* The instances.                                                          *)

\* Two routers that name each other as seeds, and a client of the first; the
\* second holds a token, and the client may declare another of the same key.
MCRank == n1 :> 1 @@ n2 :> 2 @@ cl :> 3
MCSeeds == n1 :> {n2} @@ n2 :> {n1} @@ cl :> {n1}
MCStartToken == n1 :> {} @@ n2 :> {t1} @@ cl :> {}
MCMaxSno == n1 :> 1 @@ n2 :> 1 @@ cl :> 2

MCScore == <<me, r1>> :> 1 @@ <<a, r1>> :> 3 @@ <<b, r1>> :> 2

----------------------------------------------------------------------------
Off == "off"

busOff == core = Off /\ hs = Off /\ faults = Off /\ busCmds = Off /\ puts = Off
keyOff == exprs = Off /\ exact = Off /\ wild = Off
viewOff == /\ links = Off /\ hubs = Off /\ inst = Off /\ hosts = Off /\ nodeQ = Off /\ roomQ = Off
           /\ nodes = Off /\ routing = Off /\ seenOther = Off /\ isolated = Off /\ held = Off
           /\ pending = Off /\ quiet = Off /\ graced = Off /\ selfDeclared = Off /\ duplicates = Off
           /\ wasIsolated = Off /\ creating = Off /\ changes = Off
unitOff == /\ st = Off /\ pc = Off /\ cmds = Off /\ children = Off /\ boot = Off /\ local = Off
           /\ attempts = Off /\ counted = Off /\ stopping = Off /\ nodeDeclared = Off /\ reqs = Off

Init ==
    /\ focus \in Focus
    /\ IF focus = "bus" THEN Bus!Init ELSE busOff
    /\ IF focus = "key" THEN Key!Init ELSE keyOff
    /\ IF focus = "view" THEN View!Init ELSE viewOff
    /\ IF focus = "unit" THEN Unit!Init ELSE unitOff

Next ==
    \/ /\ focus = "bus" /\ Bus!Next
       /\ UNCHANGED <<focus, keyVars, viewVars, unitVars>>
    \/ /\ focus = "key" /\ Key!Next
       /\ UNCHANGED <<focus, busVars, viewVars, unitVars>>
    \/ /\ focus = "view" /\ View!Next
       /\ UNCHANGED <<focus, busVars, keyVars, unitVars>>
    \/ /\ focus = "unit" /\ Unit!Next
       /\ UNCHANGED <<focus, busVars, keyVars, viewVars>>

vars == <<focus, busVars, keyVars, viewVars, unitVars>>

Spec == Init /\ [][Next]_vars

----------------------------------------------------------------------------
(* The properties of the components.                                       *)

\* The state of the component is of its type; among other things routes lead to
\* nodes and dials to routers.
ClusterTypesOK ==
    CASE focus = "bus" -> Bus!MeshTypeOK
      [] focus = "key" -> Key!KeysTypeOK
      [] focus = "view" -> View!TypeOK
      [] focus = "unit" -> Unit!TypeOK

\* Core::on_ev, install, close: the two ends of a link agree on its session.
SessionsAgree == focus = "bus" => Bus!SessionsAgree

\* accept_verdict: dials that cross leave one session, never none.
DialsSettle == focus = "bus" => Bus!DialsSettle

\* Core::declare and forget: tokens are counted as they are declared.
TokensConverge == focus = "bus" => Bus!TokensConverge

\* Core::close: no query waits for a session that is gone.
QueriesLive == focus = "bus" => Bus!QueriesLive

\* Core::route_put: a put reaches a subscriber at most once.
PutOnce == focus = "bus" => Bus!PutOnce

\* SubIndex and intersects: a put reaches exactly the subscriptions meant.
RoutesExact == focus = "key" => Key!RoutesExact

\* View::settle: a hub that was never isolated and has judged all it heard
\* routes exactly the rooms it can see.
ViewConverges == focus = "view" => View!ViewConverges

\* View::settle: a room of another node does not lose its route blindly.
NoBlindDrop == [][focus = "view" => View!NoBlindDrop]_vars

\* run_unit: at most one media server per unit, and the bus calls that one.
OneMediaServer == focus = "unit" => Unit!OneMediaServer
=============================================================================
