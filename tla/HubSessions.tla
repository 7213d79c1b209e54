----------------------------- MODULE HubSessions -----------------------------
(***************************************************************************)
(* Signalling sessions on the hubs (oxhubd/src/ses/mod.rs, ses/conn.rs):   *)
(* BIND with a token or with a session id, the hand-over of a session to   *)
(* another hub, eviction, the resume window, and the room requests of a    *)
(* session, with the reference-counted room subscription of bus/mod.rs     *)
(* (interest).  One room on one media server.                              *)
(*                                                                         *)
(* A step is what a task does between two awaits that can suspend it.  A   *)
(* session object (obj) is a hub's Arc<Session>; the same sid gets a new   *)
(* object on the hub it moves to.  A connection runs a reader (pc, the     *)
(* bind and then the socket) and a processor (req, one request at a time). *)
(***************************************************************************)
EXTENDS Integers, Sequences, FiniteSets, FiniteSetsExt

CONSTANTS Hubs, Users,
          Conns,       \* the connections in order of arrival: [user, hubs it may go to,
                       \* start: "new", or bound at the start and "open" or "joined"]
          MaxCmd       \* room requests, LEAVEs, lost calls and answers, admin cuts,
                       \* shutdowns, destroyed rooms, together

\* What the proofs assume of the connections: the ones bound at the start come first.
SessionBounds ==
    /\ Conns \in Seq([user : Users, hubs : (SUBSET Hubs) \ {{}}, start : {"new", "open", "joined"}])
    /\ \A c \in DOMAIN Conns : Conns[c].start # "new" => \A d \in 1 .. c : Conns[d].start # "new"

VARIABLES obj, bySid, byUser, toks, interest, conn, member, gone, sids, spent,
          handed, late, drops

vars == <<obj, bySid, byUser, toks, interest, conn, member, gone, sids, spent, handed, late, drops>>

\* Sids are drawn at random, no two alike: a sid is named after the connection it
\* is drawn for.
Sid == DOMAIN Conns

UserOf(c) == Conns[c].user
HubOf(c) == conn[c].hub

NewConn(h) == [pc |-> "new", hub |-> h, obj |-> 0, data |-> <<>>, req |-> "none", code |-> "none"]

NewSession(h, u, s, room, touched, c) ==
    [hub |-> h, user |-> u, sid |-> s, bound |-> c # 0, live |-> c # 0, resumed |-> FALSE, conn |-> c,
     dropped |-> FALSE, room |-> room, touched |-> touched]

\* The first connections may be bound at the start, connection c with session c
\* in object c.  sids[u] is the session id the client of u was last given.
Init ==
    LET open == {c \in DOMAIN Conns : Conns[c].start # "new"}
        hub == [c \in DOMAIN Conns |-> CHOOSE h \in Conns[c].hubs : TRUE]
        in == [c \in DOMAIN Conns |-> Conns[c].start = "joined"]
        of(u) == {c \in open : UserOf(c) = u}
    IN /\ obj = [c \in open |-> NewSession(hub[c], UserOf(c), c, in[c], in[c], c)]
       /\ bySid = [h \in Hubs |-> [s \in Sid |-> IF s \in open /\ hub[s] = h THEN s ELSE 0]]
       /\ byUser = [h \in Hubs |-> [u \in Users |-> Max({0} \cup {c \in of(u) : hub[c] = h})]]
       /\ toks = [h \in Hubs |-> {c \in open : hub[c] = h}]
       /\ interest = [h \in Hubs |-> Cardinality({c \in open : hub[c] = h /\ in[c]})]
       /\ conn = [c \in DOMAIN Conns |->
                    IF c \in open THEN [NewConn(hub[c]) EXCEPT !.pc = "open", !.obj = c] ELSE NewConn(hub[c])]
       /\ member = [u \in Users |-> Max({0} \cup {c \in of(u) : in[c]})]
       /\ gone = {} /\ sids = [u \in Users |-> Max({0} \cup of(u))]
       /\ spent = 0 /\ handed = FALSE /\ late = {} /\ drops = {}

Registered(o) == bySid[obj[o].hub][obj[o].sid] = o

Spend == spent < MaxCmd /\ spent' = spent + 1

NewSid(c) == c

----------------------------------------------------------------------------
(* Bus::interest with -1, unregister, dispose: no await suspends them, so   *)
(* each is part of one step.  They map the hub state w to the next one.     *)

Hub == [obj |-> obj, bySid |-> bySid, byUser |-> byUser, toks |-> toks,
        interest |-> interest, gone |-> gone, conn |-> conn]

Becomes(w) ==
    /\ obj' = w.obj /\ bySid' = w.bySid /\ byUser' = w.byUser /\ toks' = w.toks
    /\ interest' = w.interest /\ gone' = w.gone /\ conn' = w.conn

Minus(n) == IF n = 0 THEN 0 ELSE n - 1

\* Conn::leave on the session's connection: the socket will be closed with this code.
Kick(w, o, code) ==
    LET c == w.obj[o].conn
    IN IF c = 0 THEN w ELSE [w EXCEPT !.conn[c].code = IF @ = "none" THEN code ELSE @]

FaultUnregister(w, o) ==
    LET s == w.obj[o]
    IN IF w.bySid[s.hub][s.sid] = 0 THEN w
       ELSE [w EXCEPT !.byUser[s.hub][s.user] = IF @ = s.sid THEN 0 ELSE @,
                      !.toks[s.hub] = @ \ {s.sid},
                      !.interest[s.hub] = IF s.room THEN Minus(@) ELSE @]

Unregister(w, o) ==
    LET s == w.obj[o]
    IN IF w.bySid[s.hub][s.sid] = 0 THEN w
       ELSE [w EXCEPT !.bySid[s.hub][s.sid] = 0,
                      !.byUser[s.hub][s.user] = IF @ = s.sid THEN 0 ELSE @,
                      !.toks[s.hub] = @ \ {s.sid},
                      !.interest[s.hub] = IF s.room THEN Minus(@) ELSE @]

FaultDispose(w, o) ==
    [Unregister(w, o) EXCEPT !.obj[o] = [@ EXCEPT !.live = FALSE, !.bound = FALSE, !.resumed = FALSE,
                                                  !.conn = 0, !.room = FALSE]]

\* Every media server the session ever called is told, by a task of its own.
Dispose(w, o) ==
    [Unregister(w, o) EXCEPT !.obj[o] = [@ EXCEPT !.live = FALSE, !.bound = FALSE, !.resumed = FALSE,
                                                  !.conn = 0, !.room = FALSE],
                             !.gone = IF w.obj[o].touched THEN @ \cup {w.obj[o].sid} ELSE @]

\* evict_sid, cut, and the local eviction of a new bind.
Evict(w, o, code) == Dispose(Kick(w, o, code), o)

FaultSetRoom(w, o, in) ==
    LET h == w.obj[o].hub
    IN [w EXCEPT !.obj[o].room = in, !.interest[h] = IF in THEN @ + 1 ELSE Minus(@)]

\* set_rooms: the server said which rooms the user is in.
SetRoom(w, o, in) ==
    LET h == w.obj[o].hub  was == w.obj[o].room
    IN [w EXCEPT !.obj[o].room = in,
                 !.interest[h] = CASE in /\ ~was -> @ + 1
                                   [] ~in /\ was -> Minus(@)
                                   [] OTHER -> @]

\* The loops of sweep, shutdown_all and room_dropped over the sessions of a hub.
Visit(what, w, o) ==
    CASE what = "dispose" -> Dispose(w, o)
      [] what = "shutdown" -> Kick(w, o, "shutdown")
      [] what = "dropped" -> SetRoom(w, o, FALSE)

VisitAll(what, O) == FoldSet(LAMBDA o, w : Visit(what, w, o), Hub, O)

----------------------------------------------------------------------------
(* conn::serve and bind.                                                    *)

\* bind, resume branch: this socket takes the session over.
Attach(w, c, o) ==
    LET w1 == IF w.obj[o].conn = c THEN w ELSE Kick(w, o, "duplicate")
    IN [w1 EXCEPT !.obj[o] = [@ EXCEPT !.conn = c, !.bound = TRUE, !.resumed = TRUE,
                                       !.live = TRUE, !.dropped = FALSE],
                  !.conn[c] = [@ EXCEPT !.pc = "open", !.obj = o]]

\* bind with a token: an older session of the user on this hub is evicted.
BindNew(w, c) ==
    LET h == w.conn[c].hub  s == w.byUser[h][UserOf(c)]
        o == IF s = 0 THEN 0 ELSE w.bySid[h][s]
    IN [(IF o = 0 THEN w ELSE Evict(w, o, "duplicate")) EXCEPT !.conn[c].pc = "lookup"]

\* BIND arrives on a hub: with a session id known there, with one to be looked
\* for, or with a token only.
Bind(c, h, resume) ==
    LET s == sids[UserOf(c)]
        known == s # 0 /\ resume
        w == [Hub EXCEPT !.conn[c].hub = h]
    IN /\ conn[c].pc = "new"
       /\ \A d \in 1 .. c - 1 : conn[d].pc # "new"
       /\ Becomes(IF known /\ bySid[h][s] # 0 THEN Attach(w, c, bySid[h][s])
                  ELSE IF known THEN [w EXCEPT !.conn[c].pc = "find"]
                  ELSE BindNew(w, c))
       /\ UNCHANGED <<member, sids, spent, handed, late, drops>>

\* find_sess: the token of the session on another hub, or fall back to the token.
Find(c) ==
    LET s == sids[UserOf(c)]
        at == {h \in Hubs : s \in toks[h]}
    IN /\ conn[c].pc = "find"
       /\ \/ \E h \in at \ {HubOf(c)} :
                Becomes([Hub EXCEPT !.conn[c].pc = "ask", !.conn[c].data = [from |-> h, sid |-> s]])
          \/ (at = {} \/ HubOf(c) \in at) /\ Becomes(BindNew(Hub, c))
       /\ UNCHANGED <<member, sids, spent, handed, late, drops>>

\* hand_over on the other hub: it lets the socket and the session go and gives
\* the session's data away; null if it no longer has it.  The asking hub falls
\* back to the token on null, and also when the answer is lost.
HandOver(c) ==
    LET h == conn[c].data.from  s == conn[c].data.sid
        o == bySid[h][s]
        data == [sid |-> s, room |-> obj[o].room, touched |-> obj[o].touched]
        w == Unregister([Kick(Hub, o, "duplicate") EXCEPT !.obj[o].conn = 0], o)
    IN /\ conn[c].pc = "ask"
       /\ \/ o = 0 /\ Becomes(BindNew(Hub, c)) /\ UNCHANGED <<spent, handed, late>>
          \/ /\ o # 0 /\ handed' = TRUE
             /\ Becomes([w EXCEPT !.conn[c].pc = "adopt", !.conn[c].data = data])
             /\ UNCHANGED <<spent, late>>
          \/ /\ o # 0 /\ handed' = TRUE
             /\ Spend /\ late' = late \cup {s}
             /\ Becomes(BindNew(w, c))
       /\ UNCHANGED <<member, sids, drops>>

\* resume_session, register: the token is declared, then the session is entered
\* and the room subscribed to.
Adopt(c) ==
    LET d == conn[c].data
    IN /\ conn[c].pc = "adopt"
       /\ Becomes([Hub EXCEPT !.toks[HubOf(c)] = @ \cup {d.sid}, !.conn[c].pc = "enter"])
       /\ UNCHANGED <<member, sids, spent, handed, late, drops>>

Enter(c) ==
    LET d == conn[c].data  h == HubOf(c)  o == Len(obj) + 1
        w == [Hub EXCEPT !.obj = Append(@, NewSession(h, UserOf(c), d.sid, d.room, d.touched, 0))]
    IN /\ conn[c].pc = "enter"
       /\ Becomes([w EXCEPT !.bySid[h][d.sid] = o, !.byUser[h][UserOf(c)] = d.sid,
                            !.interest[h] = IF d.room THEN @ + 1 ELSE @,
                            !.conn[c] = [@ EXCEPT !.pc = "attach", !.data = <<>>, !.obj = o]])
       /\ UNCHANGED <<member, sids, spent, handed, late, drops>>

AttachAdopted(c) ==
    /\ conn[c].pc = "attach"
    /\ Becomes(Attach(Hub, c, conn[c].obj))
    /\ UNCHANGED <<member, sids, spent, handed, late, drops>>

\* sessions_of_user: the tokens of the user's sessions on other hubs, which are
\* then asked one by one to evict them.
Lookup(c) ==
    /\ conn[c].pc = "lookup"
    /\ LET h == HubOf(c)
           there == {x \in Hubs \X Sid : x[1] # h /\ x[2] \in toks[x[1]]
                                         /\ \E o \in DOMAIN obj : obj[o].sid = x[2] /\ obj[o].user = UserOf(c)}
       IN Becomes([Hub EXCEPT !.conn[c].pc = "evict", !.conn[c].data = there])
    /\ UNCHANGED <<member, sids, spent, handed, late, drops>>

EvictThere(c) ==
    /\ conn[c].pc = "evict"
    /\ \E x \in conn[c].data :
         LET o == bySid[x[1]][x[2]]
             w == IF o = 0 THEN Hub ELSE Evict(Hub, o, "duplicate")
         IN \/ Becomes([w EXCEPT !.conn[c].data = @ \ {x}]) /\ UNCHANGED spent
            \/ Becomes([Hub EXCEPT !.conn[c].data = @ \ {x}]) /\ Spend
    /\ UNCHANGED <<member, sids, handed, late, drops>>

\* The new session: its token is declared, then it is entered and answered.
Declare(c) ==
    LET s == NewSid(c) IN
    /\ conn[c].pc = "evict" /\ conn[c].data = {}
    /\ LET w == [Hub EXCEPT !.obj = Append(@, NewSession(HubOf(c), UserOf(c), s, FALSE, FALSE, c))]
       IN Becomes([w EXCEPT !.toks[HubOf(c)] = @ \cup {s},
                            !.conn[c] = [@ EXCEPT !.pc = "register", !.data = <<>>, !.obj = Len(w.obj)]])
    /\ UNCHANGED <<member, sids, spent, handed, late, drops>>

FaultRegisterNew(c) ==
    LET o == conn[c].obj  s == obj[o].sid  last == sids[UserOf(c)] IN
    /\ conn[c].pc = "register"
    /\ Becomes([Hub EXCEPT !.bySid[HubOf(c)][last] = o, !.byUser[HubOf(c)][UserOf(c)] = s, !.conn[c].pc = "open"])
    /\ sids' = [sids EXCEPT ![UserOf(c)] = s]
    /\ UNCHANGED <<member, spent, handed, late, drops>>

RegisterNew(c) ==
    LET o == conn[c].obj  s == obj[o].sid IN
    /\ conn[c].pc = "register"
    /\ Becomes([Hub EXCEPT !.bySid[HubOf(c)][s] = o, !.byUser[HubOf(c)][UserOf(c)] = s, !.conn[c].pc = "open"])
    /\ sids' = [sids EXCEPT ![UserOf(c)] = s]
    /\ UNCHANGED <<member, spent, handed, late, drops>>

----------------------------------------------------------------------------
(* The end of a connection.                                                 *)

\* unregister goes by the sid: through an object left behind by a hand-over it takes
\* away the session that came back, whose calls this object knows nothing of.
Stale(o) ==
    LET s == obj[o] IN IF bySid[s.hub][s.sid] \in {0, o} THEN {} ELSE {s.sid}

\* The socket ends, or the client says LEAVE: the session is disposed of while
\* the processor may still be waiting for an answer.
SocketEnds(c) ==
    /\ conn[c].pc = "open"
    /\ \/ Becomes([Hub EXCEPT !.conn[c].pc = "drain"]) /\ UNCHANGED <<spent, late>>
       \/ /\ Becomes([Dispose(Hub, conn[c].obj) EXCEPT !.conn[c].pc = "left"]) /\ Spend
          /\ late' = late \cup Stale(conn[c].obj)
    /\ UNCHANGED <<member, sids, handed, drops>>

FaultDropped(w, o, c) == [w EXCEPT !.obj[o] = [@ EXCEPT !.bound = FALSE, !.conn = 0]]

\* socket_dropped for a session this socket still has: reclaimed at once after a
\* revocation or a shutdown, else kept for the resume window.
Dropped(w, o, c) ==
    IF w.conn[c].code \in {"revoked", "shutdown"} THEN Dispose(w, o)
    ELSE [w EXCEPT !.obj[o] = [@ EXCEPT !.bound = FALSE, !.conn = 0, !.dropped = TRUE]]

\* After the processor has drained.
SocketDropped(c) ==
    LET o == conn[c].obj  mine == obj[o].conn = c /\ bySid[HubOf(c)][obj[o].sid] # 0
        w == IF mine THEN Dropped(Hub, o, c) ELSE Hub
    IN /\ conn[c].pc = "drain" /\ conn[c].req = "none"
       /\ Becomes([w EXCEPT !.conn[c].pc = "closed"])
       /\ late' = IF mine THEN late \cup Stale(o) ELSE late
       /\ UNCHANGED <<member, sids, spent, handed, drops>>

\* sweep, once the resume window of the dropped sessions of h is over.
Sweep(h) ==
    LET due == {o \in DOMAIN obj : obj[o].hub = h /\ Registered(o) /\ ~obj[o].bound /\ obj[o].dropped}
    IN /\ due # {}
       /\ Becomes(VisitAll("dispose", due))
       /\ UNCHANGED <<member, sids, spent, handed, late, drops>>

\* cut, on behalf of the admin surface.
Cut(h, u) ==
    LET s == byUser[h][u]  o == IF s = 0 THEN 0 ELSE bySid[h][s]
    IN /\ o # 0 /\ Spend
       /\ Becomes(Evict(Hub, o, "revoked"))
       /\ UNCHANGED <<member, sids, handed, late, drops>>

\* shutdown_all
Shutdown(h) ==
    LET all == {o \in DOMAIN obj : obj[o].hub = h /\ Registered(o)}
    IN /\ Spend
       /\ Becomes(VisitAll("shutdown", all))
       /\ UNCHANGED <<member, sids, handed, late, drops>>

----------------------------------------------------------------------------
(* The processor: route for ROOM_JOIN, ROOM_LEAVE and RESUME.               *)

Anywhere(s) == \E h \in Hubs : bySid[h][s] # 0

\* The call goes out; a join holds the room subscription while it runs.
Ask(c, op) ==
    LET o == conn[c].obj IN
    /\ conn[c].pc \in {"open", "left", "drain"} /\ conn[c].req = "none" /\ Spend
    /\ op = "resume" => obj[o].bound /\ obj[o].live /\ obj[o].resumed /\ obj[o].room
    /\ Becomes([Hub EXCEPT !.conn[c].req = op,
                           !.obj[o].touched = @ \/ op # "resume",
                           !.interest[HubOf(c)] = IF op = "join" THEN @ + 1 ELSE @])
    /\ UNCHANGED <<member, sids, handed, late, drops>>

\* The media server (oxsfud/src/ops/rooms.rs): a join replaces a peer of another
\* session of the user, leave and resume go by the user alone.
Serve(c) ==
    LET u == UserOf(c)  s == obj[conn[c].obj].sid
        in == member[u] # 0
    IN /\ \/ /\ conn[c].req = "join"
             /\ member' = [member EXCEPT ![u] = s]
             /\ late' = IF Registered(conn[c].obj) THEN late \ {s} ELSE late \cup {s}
             /\ Becomes([Hub EXCEPT !.conn[c].req = "joined"])
          \/ /\ conn[c].req = "leave"
             /\ member' = [member EXCEPT ![u] = 0] /\ UNCHANGED late
             /\ Becomes([Hub EXCEPT !.conn[c].req = IF in THEN "out" ELSE "failed"])
          \/ /\ conn[c].req = "resume"
             /\ Becomes([Hub EXCEPT !.conn[c].req = IF in THEN "in" ELSE "out"])
             /\ UNCHANGED <<member, late>>
       /\ UNCHANGED <<sids, spent, handed, drops>>

\* The call fails or its answer is lost.
CallFails(c) ==
    /\ conn[c].req \in {"join", "leave", "resume", "joined", "out", "in"} /\ Spend
    /\ Becomes([Hub EXCEPT !.conn[c].req = IF @ \in {"join", "joined"} THEN "nojoin" ELSE "failed"])
    /\ UNCHANGED <<member, sids, handed, late, drops>>

\* The answer is applied to the session object the request came with.
Answered(c) ==
    LET o == conn[c].obj  h == HubOf(c)  r == conn[c].req
        w == CASE r = "joined" -> [SetRoom(Hub, o, TRUE) EXCEPT !.interest[h] = Minus(@)]
               [] r = "nojoin" -> [Hub EXCEPT !.interest[h] = Minus(@)]
               [] r = "out" -> SetRoom(Hub, o, FALSE)
               [] r = "in" -> SetRoom(Hub, o, TRUE)
               [] r = "failed" -> Hub
    IN /\ r \in {"joined", "nojoin", "out", "in", "failed"}
       /\ Becomes([w EXCEPT !.conn[c].req = "none"])
       /\ UNCHANGED <<member, sids, spent, handed, late, drops>>

\* SessionGone reaches the media server.
GoneServed(s) ==
    /\ s \in gone
    /\ gone' = gone \ {s}
    /\ member' = [u \in Users |-> IF member[u] = s THEN 0 ELSE member[u]]
    /\ UNCHANGED <<obj, bySid, byUser, toks, interest, conn, sids, spent, handed, late, drops>>

\* The room is destroyed, and with it its membership; each hub hears of it when
\* the room's token leaves its view.
RoomDestroyed ==
    /\ Spend
    /\ member' = [u \in Users |-> 0] /\ drops' = Hubs
    /\ UNCHANGED <<obj, bySid, byUser, toks, interest, conn, gone, sids, handed, late>>

\* room_dropped
RoomDropped(h) ==
    LET in == {o \in DOMAIN obj : obj[o].hub = h /\ Registered(o) /\ obj[o].room}
    IN /\ h \in drops /\ drops' = drops \ {h}
       /\ Becomes(VisitAll("dropped", in))
       /\ UNCHANGED <<member, sids, spent, handed, late>>

Next ==
    \/ \E c \in DOMAIN Conns :
         \/ conn[c].pc = "new" /\ \E h \in Conns[c].hubs, resume \in BOOLEAN : Bind(c, h, resume)
         \/ Find(c) \/ HandOver(c) \/ Adopt(c) \/ Enter(c) \/ AttachAdopted(c)
         \/ Lookup(c) \/ EvictThere(c) \/ Declare(c) \/ RegisterNew(c)
         \/ SocketEnds(c) \/ SocketDropped(c)
         \/ spent < MaxCmd /\ \E op \in {"join", "leave", "resume"} : Ask(c, op)
         \/ Serve(c) \/ CallFails(c) \/ Answered(c)
    \/ \E h \in Hubs : Sweep(h) \/ RoomDropped(h)
    \/ spent < MaxCmd /\ \E h \in Hubs : Shutdown(h) \/ \E u \in Users : Cut(h, u)
    \/ \E s \in Sid : GoneServed(s)
    \/ RoomDestroyed

Spec == Init /\ [][Next]_vars

----------------------------------------------------------------------------
(* Properties.                                                              *)

SessionsTypeOK ==
    /\ \A o \in DOMAIN obj :
         /\ obj[o].sid \in Sid /\ obj[o].user \in Users /\ obj[o].hub \in Hubs
         /\ obj[o].conn \in {0} \cup DOMAIN Conns
         /\ obj[o].conn # 0 => UserOf(obj[o].conn) = obj[o].user
    /\ \A h \in Hubs :
         /\ toks[h] \subseteq Sid /\ interest[h] \in Nat
         /\ \A s \in Sid : bySid[h][s] # 0 => obj[bySid[h][s]].hub = h /\ obj[bySid[h][s]].sid = s
    /\ gone \subseteq Sid /\ late \subseteq Sid

\* A hub keeps its subscription to the room's notices as long as one of its
\* sessions is in the room: the count of interest_room is at least the number
\* of those sessions, whatever requests, binds, evictions and sweeps overlap.
\* (Once a session has been handed over this no longer holds; see InterestKept.)
InterestHeld ==
    handed \/ \A h \in Hubs :
        interest[h] >= Cardinality({o \in DOMAIN obj : obj[o].hub = h /\ Registered(o) /\ obj[o].room})

\* The same without the exception: the room's notices reach this hub while one
\* of its sessions is in the room.
InterestKept ==
    \A h \in Hubs :
        interest[h] >= Cardinality({o \in DOMAIN obj : obj[o].hub = h /\ Registered(o) /\ obj[o].room})

\* A member the media server keeps for a session that exists on no hub, with
\* nothing left under way that would remove it, has one of three causes: its join
\* was carried out for a session object that had already ended or been handed
\* over, the answer that carried the session to another hub was lost, or the
\* session was ended through an object that an earlier hand-over had left behind.
NoGhost ==
    \A u \in Users :
        LET s == member[u] IN
        \/ s = 0 \/ Anywhere(s) \/ s \in gone \/ s \in late
        \/ \E c \in DOMAIN Conns : conn[c].pc \in {"adopt", "enter"} /\ conn[c].data.sid = s

\* A registered session can always be reclaimed: a connection still serves it,
\* or a bind is about to attach one, or it is marked dropped, which the sweep
\* looks for.
NoOrphan ==
    \A o \in DOMAIN obj : Registered(o) =>
        \/ obj[o].dropped
        \/ \E c \in DOMAIN Conns : conn[c].obj = o /\ conn[c].pc = "attach"
        \/ obj[o].conn # 0 /\ conn[obj[o].conn].pc \in {"open", "drain"}

\* A session id lives on one hub at a time: hand_over takes it out of the old
\* hub before the new one enters it.
OneHome == \A s \in Sid : Cardinality({h \in Hubs : bySid[h][s] # 0}) <= 1
=============================================================================
