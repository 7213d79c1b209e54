------------------------------- MODULE HubView -------------------------------
(***************************************************************************)
(* What one hub knows of the cluster (oxhubd/src/bus/view.rs), fed by the  *)
(* two token subscriptions of bus/mod.rs, and what it does with it: room   *)
(* creation and placement (oxhubd/src/room/mod.rs, bus/placement.rs).      *)
(*                                                                         *)
(* links, hubs, inst and hosts are the cluster outside the hub Me: hub n   *)
(* runs as instance hubs[n], its media server as inst[n] with the rooms    *)
(* hosts[n]; the tokens of both are visible at Me while the link to n is   *)
(* up.  Each change of what is visible puts token events on the node queue *)
(* and on the room queue, which two tasks drain independently.             *)
(* An event is taken within SETTLE_MS (quiet needs both queues empty).     *)
(* Time is otherwise left out: quiet stands for "SETTLE_MS without an      *)
(* event", graced[n] for gone_at + grace_ms still being ahead.             *)
(***************************************************************************)
EXTENDS Integers, Sequences, FiniteSets, FiniteSetsExt, SequencesExt

CONSTANTS Me, Others, Rooms,
          Score,        \* placement score: node, room -> number, all different
          MaxRooms,     \* policy.quota.max_rooms, 0 for no quota
          MaxChange     \* bound on the changes outside the hub

VARIABLES links, hubs, inst, hosts,            \* the cluster
          nodeQ, roomQ,                        \* token events on their way
          nodes, routing, seenOther, isolated, held, pending,
          quiet, graced, selfDeclared, duplicates, wasIsolated,
          creating, changes

cluster == <<links, hubs, inst, hosts>>
view == <<nodes, routing, seenOther, isolated, held, pending, quiet, graced, duplicates, wasIsolated>>
vars == <<cluster, nodeQ, roomQ, view, selfDeclared, creating, changes>>

Node == Others \cup {Me}

NoCreate == [step |-> "idle"]

\* View::new, with nothing heard of yet.
Init ==
    /\ links = {} /\ hubs = [n \in Node |-> 1] /\ inst = [n \in Node |-> 1] /\ hosts = [n \in Node |-> {}]
    /\ nodeQ = <<>> /\ roomQ = <<>>
    /\ nodes = [n \in {} |-> 0] /\ routing = [r \in {} |-> 0]
    /\ seenOther = FALSE /\ isolated = FALSE /\ wasIsolated = FALSE
    /\ held = {} /\ pending = {} /\ quiet = TRUE /\ graced = {}
    /\ selfDeclared = FALSE /\ duplicates = 0
    /\ creating = NoCreate /\ changes = 0

----------------------------------------------------------------------------
(* The tokens that are visible at Me, and the events a change makes.       *)

NodeTokens(l, b, d) == {[node |-> n, inst |-> b[n]] : n \in l \cup (IF d THEN {Me} ELSE {})}

RoomTokens(l, i, h) ==
    UNION {{[room |-> r, node |-> n, inst |-> i[n]] : r \in h[n]} : n \in l \cup {Me}}

Puts(S) == SetToSeq({[put |-> TRUE, tok |-> t] : t \in S})
Dels(S) == SetToSeq({[put |-> FALSE, tok |-> t] : t \in S})

\* The token subscription of the bus: a delete for each token that goes out
\* of sight, a put for each one that comes into sight.
Emit(l, b, i, h, d) ==
    LET oldN == NodeTokens(links, hubs, selfDeclared)   newN == NodeTokens(l, b, d)
        oldR == RoomTokens(links, inst, hosts)          newR == RoomTokens(l, i, h)
    IN /\ nodeQ' = nodeQ \o Dels(oldN \ newN) \o Puts(newN \ oldN)
       /\ roomQ' = roomQ \o Dels(oldR \ newR) \o Puts(newR \ oldR)
       /\ links' = l /\ hubs' = b /\ inst' = i /\ hosts' = h /\ selfDeclared' = d

Change == changes < MaxChange /\ changes' = changes + 1

\* The bus session to n comes up, or some of them go down at once.
LinkUp(n) ==
    /\ n \in Others \ links /\ Change
    /\ Emit(links \cup {n}, hubs, inst, hosts, selfDeclared)
    /\ UNCHANGED <<view, creating>>

LinksDown(S) ==
    /\ S # {} /\ S \subseteq links /\ Change
    /\ Emit(links \ S, hubs, inst, hosts, selfDeclared)
    /\ UNCHANGED <<view, creating>>

\* The media server of n ends and comes back as a new instance without rooms.
SfudRestart(n) ==
    /\ hosts[n] # {} /\ Change
    /\ Emit(links, hubs, [inst EXCEPT ![n] = @ + 1], [hosts EXCEPT ![n] = {}], selfDeclared)
    /\ UNCHANGED <<view, creating>>

\* The hub of n ends, its media server with it, and comes back as a new
\* instance; the link has to come up again.
HubRestart(n) ==
    /\ n \in links /\ Change
    /\ Emit(links \ {n}, [hubs EXCEPT ![n] = @ + 1], [inst EXCEPT ![n] = @ + 1],
            [hosts EXCEPT ![n] = {}], selfDeclared)
    /\ UNCHANGED <<view, creating>>

\* Another hub has a room created on n, or n drops an expired one.
OthersCreate(n, r) ==
    /\ r \notin hosts[n] /\ Change
    /\ Emit(links, hubs, inst, [hosts EXCEPT ![n] = @ \cup {r}], selfDeclared)
    /\ UNCHANGED <<view, creating>>

RoomEnds(n, r) ==
    /\ r \in hosts[n] /\ Change
    /\ Emit(links, hubs, inst, [hosts EXCEPT ![n] = @ \ {r}], selfDeclared)
    /\ UNCHANGED <<view, creating>>

\* Bus::declare_self, when the first media server of this node answers.
DeclareSelf ==
    /\ ~selfDeclared
    /\ Emit(links, hubs, inst, hosts, TRUE)
    /\ UNCHANGED <<view, creating, changes>>

----------------------------------------------------------------------------
(* View::on_token.                                                         *)

Set(f, x, v) == [y \in DOMAIN f \cup {x} |-> IF y = x THEN v ELSE f[y]]
Without(f, S) == [y \in DOMAIN f \ S |-> f[y]]

\* A put cancels the delete of the same token that has not been judged yet.
FaultCancel(tok) == pending
Cancel(tok) == pending \ {tok}

OnNode ==
    /\ nodeQ # <<>>
    /\ LET e == Head(nodeQ)  n == e.tok.node IN
       IF e.put
       THEN /\ pending' = Cancel(e.tok)
            /\ nodes' = Set(nodes, n, [inst |-> e.tok.inst, live |-> TRUE])
            /\ graced' = graced \ {n}
            /\ seenOther' = (seenOther \/ n # Me)
            /\ isolated' = (isolated /\ n = Me)
       ELSE pending' = pending \cup {e.tok} /\ UNCHANGED <<nodes, graced, seenOther, isolated>>
    /\ nodeQ' = Tail(nodeQ) /\ quiet' = FALSE
    /\ UNCHANGED <<cluster, roomQ, routing, held, selfDeclared, duplicates, wasIsolated, creating, changes>>

OnRoom ==
    /\ roomQ # <<>>
    /\ LET e == Head(roomQ)  r == e.tok.room IN
       IF e.put
       THEN /\ pending' = Cancel(e.tok)
            /\ duplicates' = duplicates +
                 (IF r \in DOMAIN routing THEN IF routing[r].node # e.tok.node THEN 1 ELSE 0 ELSE 0)
            /\ held' = held \ {r}
            /\ routing' = Set(routing, r, e.tok)
       ELSE pending' = pending \cup {e.tok} /\ UNCHANGED <<duplicates, held, routing>>
    /\ roomQ' = Tail(roomQ) /\ quiet' = FALSE
    /\ UNCHANGED <<cluster, nodeQ, nodes, seenOther, isolated, graced, selfDeclared, wasIsolated, creating, changes>>

\* SETTLE_MS without a token event.
Quieten ==
    /\ ~quiet /\ nodeQ = <<>> /\ roomQ = <<>>
    /\ quiet' = TRUE
    /\ UNCHANGED <<cluster, nodeQ, roomQ, nodes, routing, seenOther, isolated, held, pending,
                   graced, duplicates, wasIsolated, selfDeclared, creating, changes>>

----------------------------------------------------------------------------
(* View::settle and View::release_held, run every 200 ms.                  *)

Live(ns, n) == n \in DOMAIN ns /\ ns[n].live

\* release_held: a held room whose owner is back keeps its route.
Released(ns, hs) ==
    {r \in hs : LET n == routing[r].node IN ~(IF n \in DOMAIN ns THEN ns[n].live ELSE n = Me)}

FaultIsolating(ns, lost) == FALSE
\* All the other nodes this hub has ever seen went at once.
Isolating(ns, lost) == seenOther /\ lost \ {Me} # {} /\ \A n \in Others : ~Live(ns, n)

Settle ==
    LET lost == {n \in DOMAIN nodes : [node |-> n, inst |-> nodes[n].inst] \in pending}
        ns == [n \in DOMAIN nodes |-> [nodes[n] EXCEPT !.live = @ /\ n \notin lost]]
        iso == isolated \/ Isolating(ns, lost)
        gone == {r \in DOMAIN routing : routing[r] \in pending}
        hold == IF iso THEN {r \in gone : routing[r].node # Me} ELSE {}
        left == DOMAIN routing \ (gone \ hold)
        out == IF iso THEN {} ELSE Released(ns, (held \cup hold) \cap left)
    IN /\ quiet
       /\ pending # {}
       /\ pending' = {}
       /\ nodes' = ns /\ graced' = graced \cup lost
       /\ isolated' = iso /\ wasIsolated' = (wasIsolated \/ iso)
       /\ held' = IF iso THEN held \cup hold ELSE {}
       /\ routing' = Without(routing, (gone \ hold) \cup out)
       /\ UNCHANGED <<cluster, nodeQ, roomQ, seenOther, quiet, selfDeclared, duplicates, creating, changes>>

\* The first branch of settle: nothing pending, isolation over, rooms held.
Release ==
    /\ quiet /\ pending = {} /\ ~isolated /\ held # {}
    /\ routing' = Without(routing, Released(nodes, held))
    /\ held' = {}
    /\ UNCHANGED <<cluster, nodeQ, roomQ, nodes, seenOther, isolated, pending, quiet, graced,
                   selfDeclared, duplicates, wasIsolated, creating, changes>>

\* The grace period of a node that went is over.
GraceOver(n) ==
    /\ n \in graced
    /\ graced' = graced \ {n}
    /\ UNCHANGED <<cluster, nodeQ, roomQ, nodes, routing, seenOther, isolated, held, pending, quiet,
                   duplicates, wasIsolated, selfDeclared, creating, changes>>

----------------------------------------------------------------------------
(* room::create, Bus::place, Bus::call.                                    *)

NodeLive(n) == IF n = Me THEN selfDeclared ELSE Live(nodes, n)

Candidates == {Me} \cup {n \in Node : Live(nodes, n) \/ n \in graced}

Pick(S, r) == CHOOSE n \in S : \A m \in S : Score[n, r] >= Score[m, r]

Place(r) == Pick(Candidates, r)

\* Where the request goes: the known route, else the placement, if it is live.
CreateRoute(r) ==
    /\ creating.step = "idle"
    /\ changes < MaxChange
    /\ LET known == r \in DOMAIN routing
           n == IF known THEN routing[r].node ELSE Place(r)
           over == MaxRooms > 0 /\ Cardinality(DOMAIN routing) >= MaxRooms /\ ~known
       IN /\ ~over
          /\ known \/ NodeLive(n)
          /\ creating' = [step |-> "call", room |-> r, node |-> n]
    /\ UNCHANGED <<cluster, nodeQ, roomQ, view, selfDeclared, changes>>

\* Bus::call: refused when the node is not live any more or does not answer;
\* otherwise its media server has the room, old or new.
CreateCall ==
    /\ creating.step = "call"
    /\ creating' = NoCreate
    /\ LET n == creating.node  reach == n = Me \/ (NodeLive(n) /\ n \in links)
       IN \/ /\ reach /\ creating.room \notin hosts[n] /\ Change
             /\ Emit(links, hubs, inst, [hosts EXCEPT ![n] = @ \cup {creating.room}], selfDeclared)
          \/ /\ ~reach \/ creating.room \in hosts[n]
             /\ UNCHANGED <<cluster, nodeQ, roomQ, selfDeclared, changes>>
    /\ UNCHANGED view

Next ==
    \/ \E n \in Node : LinkUp(n) \/ HubRestart(n) \/ SfudRestart(n) \/ GraceOver(n)
    \/ \E S \in SUBSET links : LinksDown(S)
    \/ \E n \in Node, r \in Rooms : OthersCreate(n, r) \/ RoomEnds(n, r)
    \/ DeclareSelf \/ OnNode \/ OnRoom \/ Quieten \/ Settle \/ Release
    \/ \E r \in Rooms : CreateRoute(r)
    \/ CreateCall

Spec == Init /\ [][Next]_vars

----------------------------------------------------------------------------
(* Properties.                                                             *)

TypeOK ==
    /\ links \subseteq Others /\ \A n \in Node : hosts[n] \subseteq Rooms
    /\ DOMAIN nodes \subseteq Node /\ DOMAIN routing \subseteq Rooms
    /\ \A n \in DOMAIN nodes : nodes[n] \in [inst : Nat \ {0}, live : BOOLEAN]
    /\ \A r \in DOMAIN routing : routing[r] \in [room : {r}, node : Node, inst : Nat \ {0}]
    /\ held \subseteq DOMAIN routing /\ graced \subseteq Node
    /\ creating.step \in {"idle", "call"}

\* View::on_token and settle over any history of links, restarts and rooms: a
\* hub that was never isolated and never saw a room on two nodes, and that has
\* judged everything it heard, routes exactly the visible rooms to their owners
\* and takes exactly the visible nodes for live.
ViewConverges ==
    (~wasIsolated /\ duplicates = 0 /\ nodeQ = <<>> /\ roomQ = <<>> /\ pending = {}) =>
        /\ {routing[r] : r \in DOMAIN routing} = RoomTokens(links, inst, hosts)
        /\ {n \in Node : Live(nodes, n)} = {t.node : t \in NodeTokens(links, hubs, selfDeclared)}

\* View::settle: a room of another node loses its route (and its members here
\* their subscription) only while some other node is still in sight, unless none
\* ever was, and only if the room's token is out of sight or its return has not
\* been read yet.  A hub cut off from everyone keeps its routes.
NoBlindDrop ==
    \A r \in DOMAIN routing \ DOMAIN routing' : routing[r].node # Me =>
        /\ seenOther => \E n \in Others : Live(nodes', n)
        /\ \/ routing[r] \notin RoomTokens(links, inst, hosts)
           \/ [put |-> TRUE, tok |-> routing[r]] \in ToSet(roomQ)
=============================================================================
