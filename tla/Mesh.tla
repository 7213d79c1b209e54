-------------------------------- MODULE Mesh --------------------------------
(***************************************************************************)
(* The message bus (crates/oxmesh): one Core task per process holds all    *)
(* the state of that process; routers (one per node, inside oxhubd) form   *)
(* a one-hop mesh, a client (oxsfud) hangs on one router.  A session is    *)
(* one TCP stream named by (dialer, boot, sno).                            *)
(*                                                                         *)
(* core[n] is the state of n's Core.  Its outboxes live in it too: ob[u]   *)
(* is what n has queued on stream u and the other end has not taken yet,   *)
(* one FIFO per lane (a lane keeps its order, lanes overtake each other),  *)
(* and `end', the close frame or the bare shutdown that follows.  Each     *)
(* event of the Core's select loop is one action.  Addresses are node      *)
(* names, key expressions are keys matched by equality (KeyIndex has the   *)
(* matching); keepalives, DeclareDone, BatchEnd and the diagnostics        *)
(* (partial, info) carry no state.                                         *)
(***************************************************************************)
EXTENDS Integers, Sequences, FiniteSets, FiniteSetsExt, TLC

CONSTANTS Routers, Clients,
          Rank,       \* the order of the node names
          Seeds,      \* node -> the nodes its `connect' list names
          Watchers,   \* the nodes whose process holds a token subscription
          Keys,       \* token keys
          StartToken, \* node -> the keys its process holds from the start
          Topic, Svc, \* the key of the puts; the key of the queryable
          Subscribers, Servers,
          Local,      \* this process itself as asker or answerer
          ReqCap, DataCap,
          Declarers, Putters, Getters,  \* who declares tokens, puts and asks
          Flaky,      \* the nodes whose sessions expire and dials fail
          Crashing,   \* the nodes that die and come back
          MaxSno, MaxFault, MaxCmd

VARIABLES core, hs, faults, cmds, puts

vars == <<core, hs, faults, cmds, puts>>

Node == Routers \cup Clients

PeerOf(n, u) == IF u.d = n THEN u.to ELSE u.d

EmptyLanes == [decl |-> <<>>, req |-> <<>>, data |-> <<>>, end |-> "open"]

Drop(f, S) == [x \in DOMAIN f \ S |-> f[x]]

Put(f, x, v) == [y \in DOMAIN f \cup {x} |-> IF y = x THEN v ELSE f[y]]

\* Core::new, and what the process declares when it starts: its subscription
\* to Topic, its queryable and, if it has one, a token.
NewCore(n, boot) ==
    LET subs == IF n \in Subscribers THEN {[kind |-> "sub", id |-> 1, expr |-> Topic]} ELSE {}
        qabl == IF n \in Servers THEN {[kind |-> "qabl", id |-> 2, expr |-> Svc]} ELSE {}
        toks == {[kind |-> "token", id |-> 3, expr |-> k] : k \in Keys \cap StartToken[n]}
        all == subs \cup qabl \cup toks
    IN [boot |-> boot, sno |-> 1, nid |-> 4, known |-> {}, learned |-> {}, busy |-> {},
        sess |-> <<>>, byPeer |-> <<>>, ob |-> <<>>,
        ldecl |-> all, out |-> IF n \in Routers THEN all ELSE {}, south |-> {},
        tok |-> [k \in Keys |-> IF n \in Routers /\ k \in StartToken[n] THEN 1 ELSE 0],
        view |-> IF n \in Routers \cap Watchers THEN StartToken[n] ELSE {}, pend |-> <<>>,
        got |-> 0]

Init ==
    /\ core = [n \in Node |-> NewCore(n, 1)]
    /\ hs = {}
    /\ faults = 0 /\ cmds = 0 /\ puts = 0

----------------------------------------------------------------------------
(* Outbox::push, Core::announce, Core::broadcast_peers.                    *)

Cap(lane) == CASE lane = "req" -> ReqCap [] lane = "data" -> DataCap [] OTHER -> -1

Fits(q, lane) == Cap(lane) < 0 \/ Len(q[lane]) < Cap(lane)

Accepts(c, u, lane) == u \in DOMAIN c.ob /\ c.ob[u].end = "open" /\ Fits(c.ob[u], lane)

PushAll(c, us, lane, m) ==
    [c EXCEPT !.ob = [u \in DOMAIN c.ob |->
        IF u \in us /\ Accepts(c, u, lane) THEN [c.ob[u] EXCEPT ![lane] = Append(@, m)] ELSE c.ob[u]]]

Push(c, u, lane, m) == PushAll(c, {u}, lane, m)

RouterSess(n, c) == {u \in DOMAIN c.sess : PeerOf(n, u) \in Routers}

Announce(n, c, m) == IF n \in Routers THEN PushAll(c, RouterSess(n, c), "decl", m) ELSE c

PeerList(n, c) == {PeerOf(n, u) : u \in RouterSess(n, c)}

BroadcastPeers(n, c) == PushAll(c, RouterSess(n, c), "decl", [t |-> "peers", list |-> PeerList(n, c)])

----------------------------------------------------------------------------
(* The token table: a count per key, the watchers told at 0 <-> 1.         *)

TokNotify(n, c, kind, k) ==
    LET d == IF n \in Watchers
             THEN [c EXCEPT !.view = IF kind = "put" THEN @ \cup {k} ELSE @ \ {k}] ELSE c
    IN PushAll(d, {u \in DOMAIN c.sess : c.sess[u].tsub}, "decl", [t |-> "evt", kind |-> kind, key |-> k])

TokAdd(n, c, k) ==
    LET d == [c EXCEPT !.tok[k] = @ + 1]
    IN IF c.tok[k] = 0 THEN TokNotify(n, d, "put", k) ELSE d

TokDel(n, c, k) ==
    CASE c.tok[k] = 0 -> c
      [] c.tok[k] = 1 -> TokNotify(n, [c EXCEPT !.tok[k] = 0], "del", k)
      [] OTHER -> [c EXCEPT !.tok[k] = @ - 1]

----------------------------------------------------------------------------
(* Declarations of the other end of a session.                             *)

\* A plausible slip: the token count is not given back.
FaultForgetDecl(n, u, d, c) ==
    LET mine == {x \in c.south : x.u = u /\ x.kind = d.kind /\ x.id = d.id}
        rids == {x.rid : x \in mine}
        c2 == [c EXCEPT !.south = @ \ mine, !.out = {o \in @ : o.id \notin rids}]
    IN IF mine = {} THEN c
       ELSE Announce(n, c2, [t |-> "undecl", kind |-> d.kind, id |-> CHOOSE r \in rids : TRUE])

\* What a declaration of session u leaves behind in the router: the token
\* count, and the router's own announcement of a client's declaration.
ForgetDecl(n, u, d, c) ==
    LET c1 == IF d.kind = "token" THEN TokDel(n, c, d.expr) ELSE c
        mine == {x \in c.south : x.u = u /\ x.kind = d.kind /\ x.id = d.id}
        rids == {x.rid : x \in mine}
        c2 == [c1 EXCEPT !.south = @ \ mine, !.out = {o \in @ : o.id \notin rids}]
    IN IF mine = {} THEN c1
       ELSE Announce(n, c2, [t |-> "undecl", kind |-> d.kind, id |-> CHOOSE r \in rids : TRUE])

RemoteDeclare(n, c, u, d) ==
    LET known == \E x \in c.sess[u].decls : x.kind = d.kind /\ x.id = d.id
        c1 == [c EXCEPT !.sess[u].decls = @ \cup {d}]
        c2 == IF d.kind = "token" THEN TokAdd(n, c1, d.expr) ELSE c1
        r == [kind |-> d.kind, id |-> c.nid, expr |-> d.expr]
        c3 == [c2 EXCEPT !.nid = @ + 1, !.out = @ \cup {r},
                         !.south = @ \cup {[u |-> u, kind |-> d.kind, id |-> d.id, rid |-> c.nid]}]
    IN CASE n \notin Routers \/ known -> c
         [] PeerOf(n, u) \in Clients -> Announce(n, c3, [t |-> "decl", d |-> r])
         [] OTHER -> c2

RemoteUndeclare(n, c, u, kind, id) ==
    LET ds == {x \in c.sess[u].decls : x.kind = kind /\ x.id = id}
    IN FoldSet(LAMBDA d, acc : ForgetDecl(n, u, d, acc),
               [c EXCEPT !.sess[u].decls = @ \ ds], ds)

----------------------------------------------------------------------------
(* Queries: Core::pending, finish, target_done.                            *)

Finish(c, q) ==
    LET p == c.pend[q]
        d == [c EXCEPT !.pend = Drop(@, {q})]
    IN IF p.from # Local /\ p.from \in DOMAIN c.sess
       THEN Push(d, p.from, "req", [t |-> "final", q |-> p.theirs]) ELSE d

TargetDone(c, q, t) ==
    IF q \notin DOMAIN c.pend \/ t \notin c.pend[q].targets THEN c
    ELSE LET d == [c EXCEPT !.pend[q].targets = @ \ {t}]
         IN IF d.pend[q].targets = {} THEN Finish(d, q) ELSE d

\* A reply for the process itself ends in its channel.
ForwardReply(c, q) ==
    IF q \notin DOMAIN c.pend \/ c.pend[q].from = Local THEN c
    ELSE Push(c, c.pend[q].from, "req", [t |-> "reply", q |-> c.pend[q].theirs])

----------------------------------------------------------------------------
(* Core::close and Core::install.                                          *)

Said == {"shutdown", "replaced", "refused", "duplicate", "protocol"}

\* A plausible slip: a query goes on waiting for the closed session.
FaultDropTarget(u, q, c) == c

\* What close() does to the queries: those asked by the closed session are
\* dropped, the others stop waiting for it.
DropTarget(u, q, c) == TargetDone(c, q, u)

ClosePending(c, u) ==
    LET asked == {q \in DOMAIN c.pend : c.pend[q].from = u}
        d == [c EXCEPT !.pend = Drop(@, asked)]
    IN FoldSet(LAMBDA q, acc : DropTarget(u, q, acc), d, DOMAIN d.pend)

Close(n, c, u, reason) ==
    LET p == PeerOf(n, u)
        c1 == [c EXCEPT !.sess = Drop(@, {u}),
                        !.byPeer = IF p \in DOMAIN @ /\ @[p] = u THEN Drop(@, {p}) ELSE @,
                        !.ob[u].end = IF @ # "open" THEN @ ELSE IF reason \in Said THEN reason ELSE "io"]
        c2 == FoldSet(LAMBDA d, acc : ForgetDecl(n, u, d, acc), c1, c.sess[u].decls)
        c3 == IF n \in Clients THEN [c2 EXCEPT !.view = {}] ELSE c2
        c4 == ClosePending(c3, u)
    IN IF u \notin DOMAIN c.sess THEN c
       ELSE IF n \in Routers /\ p \in Routers THEN BroadcastPeers(n, c4) ELSE c4

\* A plausible slip: a client is remembered as a router to dial.
FaultInstall(n, c, u, peers) ==
    LET p == PeerOf(n, u)
        c1 == [c EXCEPT !.sess = Put(@, u, [decls |-> {}, tsub |-> FALSE]),
                        !.byPeer = Put(@, p, u),
                        !.known = @ \cup ((peers \cup {p}) \ {n})]
        mine == IF n \in Routers THEN c.out ELSE c.ldecl
        c2 == Push(c1, u, "decl", [t |-> "decls", ds |-> mine])
    IN CASE n \in Routers /\ p \in Routers -> BroadcastPeers(n, c2)
         [] n \in Clients -> IF n \in Watchers THEN Push(c2, u, "decl", [t |-> "tsub"]) ELSE c2
         [] OTHER -> c1

\* The declarations a new session starts with are pushed, and read, as one burst.
Install(n, c, u, peers) ==
    LET p == PeerOf(n, u)
        c1 == [c EXCEPT !.sess = Put(@, u, [decls |-> {}, tsub |-> FALSE]),
                        !.byPeer = Put(@, p, u),
                        !.known = @ \cup ((peers \cup ({p} \cap Routers)) \ {n})]
        mine == IF n \in Routers THEN c.out ELSE c.ldecl
        c2 == Push(c1, u, "decl", [t |-> "decls", ds |-> mine])
    IN CASE n \in Routers /\ p \in Routers -> BroadcastPeers(n, c2)
         [] n \in Clients -> IF n \in Watchers THEN Push(c2, u, "decl", [t |-> "tsub"]) ELSE c2
         [] OTHER -> c1

\* A closed outbox that nobody reads or will read is gone with its stream.
Collect(cs, pending) ==
    [n \in Node |-> [cs[n] EXCEPT !.ob = Drop(@, {u \in DOMAIN @ :
        /\ @[u].end # "open"
        /\ u \notin DOMAIN cs[PeerOf(n, u)].sess
        /\ \A h \in pending : h.u # u})]]

----------------------------------------------------------------------------
(* Dialling: Core::dial_wanted, Core::on_ev, Core::accept_verdict.         *)

SeedWanted(n, c, m) == m \in Seeds[n] /\ ~(m \in c.learned /\ m \in DOMAIN c.byPeer)

Wanted(n, c, m) ==
    IF n \in Clients THEN m \in Seeds[n] /\ DOMAIN c.sess = {}
    ELSE \/ SeedWanted(n, c, m)
         \/ m \in c.known /\ Rank[m] > Rank[n] /\ m \notin DOMAIN c.byPeer

Dial(n, m) ==
    /\ Wanted(n, core[n], m)
    /\ m \notin core[n].busy
    /\ core[n].sno <= MaxSno[n]
    /\ LET u == [d |-> n, b |-> core[n].boot, s |-> core[n].sno, to |-> m] IN
       /\ core' = [core EXCEPT ![n].busy = @ \cup {m}, ![n].sno = @ + 1,
                               ![n].ob = Put(@, u, EmptyLanes)]
       /\ hs' = hs \cup {[u |-> u, phase |-> "syn", peers |-> PeerList(n, core[n])]}
    /\ UNCHANGED <<faults, cmds, puts>>

Newer(u, v) == u.b > v.b \/ (u.b = v.b /\ u.s > v.s)

\* A plausible slip: the acceptor breaks the tie the same way round as the dialer.
FaultAcceptVerdict(m, c, u) ==
    IF m \notin Routers THEN "protocol"
    ELSE IF u.d \notin DOMAIN c.byPeer THEN "none"
    ELSE LET v == c.byPeer[u.d]
         IN IF v.d = u.d THEN (IF Newer(u, v) THEN "none" ELSE "refused")
            ELSE IF Rank[u.d] > Rank[m] THEN "none" ELSE "duplicate"

\* Core::accept_verdict: why the acceptor m turns the dialled stream u away,
\* or "none".
AcceptVerdict(m, c, u) ==
    IF m \notin Routers THEN "protocol"
    ELSE IF u.d \notin DOMAIN c.byPeer THEN "none"
    ELSE LET v == c.byPeer[u.d]
         IN CASE v.d = u.d -> IF Newer(u, v) THEN "none" ELSE "refused"
              [] v.d # u.d /\ Rank[u.d] < Rank[m] -> "none"
              [] OTHER -> "duplicate"

\* A plausible slip: the session that is superseded stays open.
FaultSupersede(n, c, p, reason) == c

\* An older session with the same peer is closed before the new one is installed.
Supersede(n, c, p, reason) ==
    IF p \in DOMAIN c.byPeer THEN Close(n, c, c.byPeer[p], reason) ELSE c

\* Ev::Accepted: the hello goes back in any case, then the verdict.
Accept(h) ==
    LET u == h.u
        m == u.to
        c == core[m]
        r == AcceptVerdict(m, c, u)
        theirs == u.d \in DOMAIN c.byPeer /\ c.byPeer[u.d].d = u.d
        c1 == Supersede(m, c, u.d, IF theirs THEN "replaced" ELSE "duplicate")
        box == [c1 EXCEPT !.ob = Put(@, u, EmptyLanes)]
    IN /\ h.phase = "syn"
       /\ core' = [core EXCEPT ![m] =
             IF r # "none" THEN [c EXCEPT !.ob = Put(@, u, [EmptyLanes EXCEPT !.end = r])]
             ELSE Install(m, box, u, h.peers)]
       /\ hs' = (hs \ {h}) \cup {[u |-> u, phase |-> "hello", peers |-> PeerList(m, c)]}
       /\ UNCHANGED <<faults, cmds, puts>>

\* Which of two sessions with the same peer the dialer keeps.
KeepOld(n, c, u) ==
    /\ u.to \in DOMAIN c.byPeer
    /\ LET v == c.byPeer[u.to] IN IF v.d = n THEN v.s > u.s ELSE Rank[n] > Rank[u.to]

\* Ev::Dialed with an answer.
Dialed(h) ==
    LET u == h.u
        n == u.d
        c == [core[n] EXCEPT !.busy = @ \ {u.to}, !.learned = @ \cup {u.to}]
        c1 == Supersede(n, c, u.to, "duplicate")
        turned == n \in Clients /\ u.to \notin Routers
    IN /\ h.phase = "hello"
       /\ hs' = hs \ {h}
       /\ core' = Collect([core EXCEPT ![n] =
             CASE turned -> [c EXCEPT !.ob[u].end = "protocol"]
               [] ~turned /\ KeepOld(n, c, u) -> [c EXCEPT !.ob[u].end = "duplicate"]
               [] OTHER -> Install(n, c1, u, h.peers)], hs')
       /\ UNCHANGED <<faults, cmds, puts>>

\* Ev::Dialed with nothing: refused, unreachable or silent for HANDSHAKE.
DialFailed(h) ==
    /\ h.u.d \in Flaky /\ faults < MaxFault
    /\ faults' = faults + 1
    /\ hs' = hs \ {h}
    /\ core' = Collect([core EXCEPT ![h.u.d].busy = @ \ {h.u.to}, ![h.u.d].ob[h.u].end = "io"], hs')
    /\ UNCHANGED <<cmds, puts>>

----------------------------------------------------------------------------
(* Core::on_msg, one action per lane and one for the close.                *)

\* The reader of session u at n takes the head of a lane of the other end.
Take(n, u, lane) ==
    /\ u \in DOMAIN core[n].sess
    /\ u \in DOMAIN core[PeerOf(n, u)].ob
    /\ core[PeerOf(n, u)].ob[u][lane] # <<>>

Deliver(n, u, lane, c) ==
    core' = [core EXCEPT ![PeerOf(n, u)].ob[u][lane] = Tail(@), ![n] = c]

OnTokenSub(n, c, u) ==
    LET hist == {k \in Keys : c.tok[k] > 0}
        d == FoldSet(LAMBDA k, acc : Push(acc, u, "decl", [t |-> "evt", kind |-> "put", key |-> k]), c, hist)
    IN IF n \in Routers /\ PeerOf(n, u) \in Clients THEN [d EXCEPT !.sess[u].tsub = TRUE] ELSE c

OnTokenEvt(n, c, m) ==
    IF n \in Routers THEN c
    ELSE [c EXCEPT !.view = IF m.kind = "put" THEN @ \cup {m.key} ELSE @ \ {m.key}]

RecvDecl(n, u) ==
    /\ Take(n, u, "decl")
    /\ LET c == core[n]
           m == Head(core[PeerOf(n, u)].ob[u].decl)
       IN Deliver(n, u, "decl",
            CASE m.t = "decls" -> FoldSet(LAMBDA d, acc : RemoteDeclare(n, acc, u, d), c, m.ds)
              [] m.t = "decl" -> RemoteDeclare(n, c, u, m.d)
              [] m.t = "undecl" -> RemoteUndeclare(n, c, u, m.kind, m.id)
              [] m.t = "tsub" -> OnTokenSub(n, c, u)
              [] m.t = "evt" -> OnTokenEvt(n, c, m)
              [] m.t = "peers" -> [c EXCEPT !.known = @ \cup (m.list \ {n})])
    /\ UNCHANGED <<hs, faults, cmds, puts>>

\* A plausible slip: a put goes back over the session it came from.
FaultPutTargets(n, c, from) ==
    LET fromRouter == from # Local /\ PeerOf(n, from) \in Routers
    IN {u \in DOMAIN c.sess :
          /\ \E d \in c.sess[u].decls : d.kind = "sub" /\ d.expr = Topic
          /\ ~(fromRouter /\ PeerOf(n, u) \in Routers)}

\* Core::route_put: to the local subscriber, and to every session that
\* declared the topic except the one it came from and, when it came from a
\* router, the other routers (one hop).
PutTargets(n, c, from) ==
    LET fromRouter == from # Local /\ PeerOf(n, from) \in Routers
    IN {u \in DOMAIN c.sess :
          /\ \E d \in c.sess[u].decls : d.kind = "sub" /\ d.expr = Topic
          /\ u # from
          /\ ~(fromRouter /\ PeerOf(n, u) \in Routers)}

RoutePut(n, c, from) ==
    LET d == IF n \in Subscribers THEN [c EXCEPT !.got = @ + 1] ELSE c
        up == IF n \in Clients /\ from = Local THEN DOMAIN c.sess ELSE {}
    IN PushAll(d, PutTargets(n, c, from) \cup up, "data", [t |-> "put"])

RecvData(n, u) ==
    /\ Take(n, u, "data")
    /\ Deliver(n, u, "data", RoutePut(n, core[n], u))
    /\ UNCHANGED <<hs, faults, cmds, puts>>

\* Core::route_get: the sessions a query goes to.
GetTargets(n, c, from) ==
    LET fromRouter == from # Local /\ PeerOf(n, from) \in Routers
    IN {u \in DOMAIN c.sess \ {from} :
          IF n \in Routers
          THEN /\ ~(fromRouter /\ PeerOf(n, u) \in Routers)
               /\ \E d \in c.sess[u].decls : d.kind = "qabl" /\ d.expr = Svc
          ELSE from = Local}

RouteGet(n, c, from, theirs) ==
    LET q == c.nid
        local == IF n \in Servers THEN {Local} ELSE {}
        remote == GetTargets(n, c, from)
        c1 == [c EXCEPT !.nid = @ + 1,
                        !.pend = Put(@, q, [from |-> from, theirs |-> theirs, targets |-> local \cup remote])]
        full == {u \in remote : ~Accepts(c, u, "req")}
        c2 == PushAll(c1, remote \ full, "req", [t |-> "get", q |-> q])
        c3 == FoldSet(LAMBDA u, acc : TargetDone(ForwardReply(acc, q), q, u), c2, full)
    IN IF q \in DOMAIN c3.pend /\ c3.pend[q].targets = {} THEN Finish(c3, q) ELSE c3

RecvReq(n, u) ==
    /\ Take(n, u, "req")
    /\ LET c == core[n]
           m == Head(core[PeerOf(n, u)].ob[u].req)
           awaited == m.q \in DOMAIN c.pend /\ u \in c.pend[m.q].targets
       IN Deliver(n, u, "req",
            CASE m.t = "get" -> RouteGet(n, c, u, m.q)
              [] m.t = "reply" -> IF awaited THEN ForwardReply(c, m.q) ELSE c
              [] m.t = "final" -> TargetDone(c, m.q, u))
    /\ UNCHANGED <<hs, faults, cmds, puts>>

\* The other end closed the stream or turned it away: what it still had queued
\* is lost.
RecvClose(n, u) ==
    LET p == PeerOf(n, u) IN
    /\ u \in DOMAIN core[n].sess
    /\ u \in DOMAIN core[p].ob /\ core[p].ob[u].end # "open"
    /\ core' = Collect([core EXCEPT ![n] = Close(n, core[n], u, core[p].ob[u].end)], hs)
    /\ UNCHANGED <<hs, faults, cmds, puts>>

----------------------------------------------------------------------------
(* Core::on_tick (lease, fence), the end of the process, local commands.   *)

\* The lease of one session ran out, or a gap between ticks fenced them all.
Expire(n) ==
    /\ n \in Flaky /\ faults < MaxFault
    /\ faults' = faults + 1
    /\ \E us \in {{u} : u \in DOMAIN core[n].sess} \cup {DOMAIN core[n].sess} :
          /\ us # {}
          /\ core' = Collect([core EXCEPT ![n] =
                                  FoldSet(LAMBDA u, acc : Close(n, acc, u, "expired"), core[n], us)], hs)
    /\ UNCHANGED <<hs, cmds, puts>>

\* The process dies and comes back with a new boot: every stream it had ends,
\* and so do its dials and the dials it had not answered.
Restart(n) ==
    LET gone == {h \in hs : h.u.d = n \/ (h.u.to = n /\ h.phase = "syn")} IN
    /\ n \in Crashing /\ faults < MaxFault
    /\ faults' = faults + 1
    /\ hs' = hs \ gone
    /\ core' = Collect([m \in Node |->
          IF m = n THEN [NewCore(n, core[n].boot + 1) EXCEPT
                            !.ob = [u \in DOMAIN core[n].ob |-> [EmptyLanes EXCEPT !.end = "io"]]]
          ELSE LET cut == {h.u : h \in {g \in gone : g.u.d = m}}
               IN [core[m] EXCEPT !.busy = @ \ {u.to : u \in cut},
                                  !.ob = [u \in DOMAIN @ |-> IF u \in cut THEN [@[u] EXCEPT !.end = "io"] ELSE @[u]]]],
          hs')
    /\ UNCHANGED <<cmds, puts>>

\* The process gives its Core at most MaxCmd commands.
Command == cmds < MaxCmd /\ cmds' = cmds + 1

\* Cmd::DeclareToken.
DeclareToken(n, k) ==
    LET c == core[n]
        d == [kind |-> "token", id |-> c.nid, expr |-> k]
        c1 == [c EXCEPT !.nid = @ + 1, !.ldecl = @ \cup {d}]
        m == [t |-> "decl", d |-> d]
    IN /\ n \in Declarers /\ Command
       /\ core' = [core EXCEPT ![n] =
             IF n \in Routers THEN Announce(n, [TokAdd(n, c1, k) EXCEPT !.out = @ \cup {d}], m)
             ELSE PushAll(c1, DOMAIN c.sess, "decl", m)]
       /\ UNCHANGED <<hs, faults, puts>>

\* Cmd::Undeclare of a token: the handle was dropped.
UndeclareToken(n, d) ==
    LET c == core[n]
        c1 == [c EXCEPT !.ldecl = @ \ {d}]
        m == [t |-> "undecl", kind |-> "token", id |-> d.id]
    IN /\ n \in Declarers /\ d \in c.ldecl /\ d.kind = "token" /\ Command
       /\ core' = [core EXCEPT ![n] =
             IF n \in Routers THEN Announce(n, [TokDel(n, c1, d.expr) EXCEPT !.out = @ \ {d}], m)
             ELSE PushAll(c1, DOMAIN c.sess, "decl", m)]
       /\ UNCHANGED <<hs, faults, puts>>

\* Cmd::Put, Cmd::Get.
LocalPut(n) ==
    /\ n \in Putters /\ Command
    /\ core' = [core EXCEPT ![n] = RoutePut(n, core[n], Local)]
    /\ puts' = puts + 1
    /\ UNCHANGED <<hs, faults>>

LocalGet(n) ==
    /\ n \in Getters /\ Command
    /\ core' = [core EXCEPT ![n] = RouteGet(n, core[n], Local, 0)]
    /\ UNCHANGED <<hs, faults, puts>>

\* Cmd::LocalReply and Cmd::LocalFinal: the process answers the query, or drops
\* it unanswered.
LocalAnswer(n, q) ==
    /\ q \in DOMAIN core[n].pend /\ Local \in core[n].pend[q].targets
    /\ \E c \in {core[n], ForwardReply(core[n], q)} :
          core' = [core EXCEPT ![n] = TargetDone(c, q, Local)]
    /\ UNCHANGED <<hs, faults, cmds, puts>>

\* The deadline of a query passed; it counts as one of the MaxFault faults.
QueryLate(n, q) ==
    /\ q \in DOMAIN core[n].pend
    /\ faults < MaxFault
    /\ faults' = faults + 1
    /\ core' = [core EXCEPT ![n] = Finish(core[n], q)]
    /\ UNCHANGED <<hs, cmds, puts>>

Streams == UNION {DOMAIN core[n].ob : n \in Node}

Next ==
    \/ \E n, m \in Node : Dial(n, m)
    \/ \E h \in hs : Accept(h) \/ Dialed(h) \/ DialFailed(h)
    \/ \E u \in Streams : \E n \in {u.d, u.to} :
          RecvDecl(n, u) \/ RecvData(n, u) \/ RecvReq(n, u) \/ RecvClose(n, u)
    \/ \E n \in Node : Expire(n) \/ Restart(n)
    \/ cmds < MaxCmd /\ \E n \in Node :
          \/ LocalPut(n) \/ LocalGet(n)
          \/ \E k \in Keys : DeclareToken(n, k)
          \/ \E d \in core[n].ldecl : UndeclareToken(n, d)
    \/ \E n \in Node : \E q \in DOMAIN core[n].pend : LocalAnswer(n, q) \/ QueryLate(n, q)

Spec == Init /\ [][Next]_vars

----------------------------------------------------------------------------
(* Properties.                                                             *)

Decl == [kind : {"token", "sub", "qabl"}, id : Nat, expr : Keys \cup {Topic, Svc}]

MeshTypeOK ==
    /\ \A n \in Node :
          /\ core[n].boot \in 1 .. MaxFault + 1 /\ core[n].sno \in 1 .. MaxSno[n] + 1
          /\ core[n].known \subseteq Routers /\ core[n].busy \subseteq Routers
          /\ core[n].tok \in [Keys -> Nat] /\ core[n].view \subseteq Keys
          /\ core[n].ldecl \subseteq Decl /\ core[n].out \subseteq Decl
          /\ DOMAIN core[n].sess \subseteq DOMAIN core[n].ob
    /\ faults \in 0 .. MaxFault

Between(u, n, m) == {u.d, u.to} = {n, m}

\* No handshake between n and m is under way and no close is still unread.
Settled(n, m) ==
    /\ \A h \in hs : ~Between(h.u, n, m)
    /\ \A x \in {n, m} : \A u \in DOMAIN core[x].sess : Between(u, n, m) =>
          LET p == PeerOf(x, u) IN u \in DOMAIN core[p].ob /\ core[p].ob[u].end = "open"

Linked(n, m) == m \in DOMAIN core[n].byPeer

\* Core::on_ev, accept_verdict, install and close, at both ends of a link: once
\* the handshakes and closes between two processes have been read, either both
\* hold the same session or neither holds one, and no session is left over that
\* by_peer does not name.
SessionsAgree ==
    \A n, m \in Node : n # m /\ Settled(n, m) =>
        /\ Linked(n, m) <=> Linked(m, n)
        /\ Linked(n, m) => core[n].byPeer[m] = core[m].byPeer[n]
        /\ \A u \in DOMAIN core[n].sess : Between(u, n, m) => Linked(n, m) /\ core[n].byPeer[m] = u

\* The tie-break of simultaneous dials (accept_verdict against the dialer's own
\* rule): as long as no stream failed, two processes one of which has dialled
\* the other end up linked; the two rules never turn away both streams.
DialsSettle ==
    \A n, m \in Node :
        faults = 0 /\ n # m /\ m \in core[n].learned /\ Settled(n, m) => Linked(n, m)

Tokens(n) == {d \in core[n].ldecl : d.kind = "token"}

\* The token declarations a router should know of: its own, and over each
\* session the other end's, a router's including those of its clients.
Reported(n) ==
    UNION {{<<p, d.id, d.expr>> : d \in Tokens(p)} : p \in {n} \cup {m \in Clients : Linked(n, m)}}

VisibleTokens(n) == Reported(n) \cup UNION {Reported(p) : p \in {m \in Routers : Linked(n, m)}}

DeclsRead == \A n \in Node : \A u \in DOMAIN core[n].sess : core[n].ob[u].decl = <<>>

\* Declarations after any history of reconnects, restarts, re-declarations and
\* duplicate sessions: when all declarations and closes have been read, every
\* router counts each key exactly as often as it is declared within one hop, and
\* the token subscribers (a hub's view, a media server's home watch) see exactly
\* the keys with a positive count.
TokensConverge ==
    hs = {} /\ DeclsRead /\ (\A n, m \in Node : n # m => Settled(n, m)) =>
        /\ \A n \in Routers, k \in Keys :
              core[n].tok[k] = Cardinality({t \in VisibleTokens(n) : t[3] = k})
        /\ \A n \in Watchers : core[n].view =
              {k \in Keys : \E r \in Routers : (r = n \/ (n \in Clients /\ Linked(n, r))) /\ core[r].tok[k] > 0}

\* Core::close and Core::pending: no query waits for a session that is gone or
\* for nobody, and none is kept for a session that is gone; so the end of the
\* last answerer ends the query instead of its deadline.
QueriesLive ==
    \A n \in Node : \A q \in DOMAIN core[n].pend :
        LET p == core[n].pend[q] IN
        /\ p.targets # {}
        /\ p.targets \ {Local} \subseteq DOMAIN core[n].sess
        /\ p.from = Local \/ p.from \in DOMAIN core[n].sess

\* Core::route_put, one hop: a put reaches a subscriber at most once, by
\* whichever way it came.
PutOnce == \A n \in Node : core[n].got <= puts
=============================================================================
