------------------------------ MODULE RoomLife ------------------------------
(***************************************************************************)
(* Rooms, members and peers of a media server: the room requests           *)
(* (oxsfud/src/ops/rooms.rs, ops/media.rs affiliation), the rooms          *)
(* (room/mod.rs), reclaiming (gc/mod.rs), expiry (ops/timers.rs) and the   *)
(* room tokens (bus/mod.rs).                                               *)
(*                                                                         *)
(* The handlers run on the threads of the control runtime and take one     *)
(* lock at a time, so a step here is what a thread does under one lock (or *)
(* with nothing of interest in between).  A room instance and a peer are   *)
(* the objects behind the Arcs; rooms and peerOf are the maps to them.     *)
(* Streams and subscription tables are the subject of Tracks.              *)
(***************************************************************************)
EXTENDS Integers, Sequences, FiniteSets, SequencesExt, TLC

CONSTANTS Threads, Users, Rooms,
          Sids,       \* user -> its session ids, oldest first
          Capacity,   \* of every room
          Start,      \* room -> users who are members at the start, in their first session
          MaxOp       \* operations started

VARIABLES rooms, inst, peerOf, peer, load, tokens, told, thr, ops, clash, fell

vars == <<rooms, inst, peerOf, peer, load, tokens, told, thr, ops, clash, fell>>

Idle == [pc |-> "idle"]

NewPeer(u, s) == [user |-> u, sid |-> s, rooms |-> {}, pub |-> "none", open |-> TRUE]
NewRoom(r) == [room |-> r, members |-> {}, ever |-> FALSE, since |-> TRUE, raced |-> FALSE]

\* All rooms exist at the start; the peers of the members are numbered first.
Init ==
    LET in(u) == {r \in Rooms : u \in Start[r]}
        seq == SetToSeq({u \in Users : in(u) # {}})
        rs == SetToSeq(Rooms)
    IN /\ rooms = [r \in Rooms |-> CHOOSE k \in DOMAIN rs : rs[k] = r]
       /\ inst = [k \in DOMAIN rs |-> [NewRoom(rs[k]) EXCEPT !.members = Start[rs[k]],
                                       !.ever = Start[rs[k]] # {}, !.since = Start[rs[k]] = {}]]
       /\ peer = [k \in DOMAIN seq |-> [NewPeer(seq[k], Head(Sids[seq[k]])) EXCEPT !.rooms = in(seq[k])]]
       /\ peerOf = [u \in Users |-> IF in(u) = {} THEN 0 ELSE CHOOSE k \in DOMAIN seq : seq[k] = u]
       /\ load = Len(seq) /\ tokens = Rooms
       /\ told = [k \in DOMAIN rs |-> Start[rs[k]]]
       /\ thr = [t \in Threads |-> Idle] /\ ops = 0 /\ clash = {} /\ fell = {}

Go(t, f) == thr' = [thr EXCEPT ![t] = f]
Finish(t) == Go(t, Idle)

Free(t) == ops < MaxOp /\ thr[t] = Idle

Start1(t, f) == Free(t) /\ ops' = ops + 1 /\ Go(t, f)

\* Two threads work for the same user at once.
Overlap(t, u) ==
    clash' = IF \E o \in Threads \ {t} : thr[o] # Idle /\ "user" \in DOMAIN thr[o] /\ thr[o].user = u
             THEN clash \cup {u} ELSE clash

----------------------------------------------------------------------------
(* gc::leave and gc::reap, as a thread's subroutine: it leaves the rooms of *)
(* todo for peer p, then, for evict, reaps p, and goes on with next.        *)

Leaving(p, todo, keep, evict, quiet, next) ==
    [pc |-> "gone", user |-> peer[p].user, peer |-> p, todo |-> todo, keep |-> keep, evict |-> evict,
     quiet |-> quiet, next |-> next]

Minus(n) == IF n = 0 THEN 0 ELSE n - 1

\* reap runs once when the last room was left and again at the end of evict.
Reap(p) ==
    /\ peerOf' = IF peerOf[peer[p].user] = p THEN [peerOf EXCEPT ![peer[p].user] = 0] ELSE peerOf
    /\ load' = Minus(load)

\* The next room to leave: found, or not; its publishing room is cleared.
LeaveFind(t) ==
    /\ thr[t].pc = "gone" /\ thr[t].todo # {}
    /\ \E r \in thr[t].todo :
         LET p == thr[t].peer  rest == thr[t].todo \ {r} IN
         IF rooms[r] = 0
         THEN Go(t, [thr[t] EXCEPT !.todo = rest]) /\ UNCHANGED peer
         ELSE /\ peer' = [peer EXCEPT ![p].pub = IF @ = r THEN "none" ELSE @]
              /\ Go(t, [thr[t] EXCEPT !.pc = "roster", !.todo = rest] @@ [room |-> r, inst |-> rooms[r]])
    /\ UNCHANGED <<rooms, inst, peerOf, load, tokens, told, ops, clash, fell>>

Cut(f, S) == [x \in DOMAIN f \ S |-> f[x]]

\* Out of the roster, unless it is kept for a rejoin; a member that is not in it
\* ends the procedure for this room.
LeaveRoster(t) ==
    LET k == thr[t].inst  u == thr[t].user  keep == thr[t].keep = thr[t].room IN
    /\ thr[t].pc = "roster"
    /\ \/ /\ keep /\ UNCHANGED inst /\ Go(t, [thr[t] EXCEPT !.pc = "rooms"])
       \/ /\ ~keep /\ u \in inst[k].members
          /\ inst' = [inst EXCEPT ![k].members = @ \ {u}]
          /\ Go(t, [thr[t] EXCEPT !.pc = "rooms"])
       \/ /\ ~keep /\ u \notin inst[k].members
          /\ Go(t, [Cut(thr[t], {"room", "inst"}) EXCEPT !.pc = "gone"])
          /\ UNCHANGED inst
    /\ UNCHANGED <<rooms, peerOf, peer, load, tokens, told, ops, clash, fell>>

\* Out of the peer's set; the last room takes the peer with it.
LeaveRooms(t) ==
    LET p == thr[t].peer  left == peer[p].rooms \ {thr[t].room} IN
    /\ thr[t].pc = "rooms"
    /\ peer' = [peer EXCEPT ![p].rooms = left]
    /\ Go(t, [thr[t] EXCEPT !.pc = IF left = {} THEN "reap" ELSE "tell"])
    /\ UNCHANGED <<rooms, inst, peerOf, load, tokens, told, ops, clash, fell>>

LeaveReap(t) ==
    LET p == thr[t].peer IN
    /\ thr[t].pc = "reap" /\ Reap(p)
    /\ peer' = [peer EXCEPT ![p].open = FALSE]
    /\ Go(t, [thr[t] EXCEPT !.pc = "tell"])
    /\ UNCHANGED <<rooms, inst, tokens, told, ops, clash, fell>>

FaultLeaveTell(t) ==
    /\ thr[t].pc = "tell"
    /\ told' = IF thr[t].quiet \/ thr[t].keep = thr[t].room \/ peer[thr[t].peer].open THEN told
               ELSE [told EXCEPT ![thr[t].inst] = @ \ {thr[t].user}]
    /\ Go(t, [Cut(thr[t], {"room", "inst"}) EXCEPT !.pc = "gone"])
    /\ UNCHANGED <<rooms, inst, peerOf, peer, load, tokens, ops, clash, fell>>

\* The members are told, unless the roster was kept or the room is being destroyed.
LeaveTell(t) ==
    /\ thr[t].pc = "tell"
    /\ told' = IF thr[t].quiet \/ thr[t].keep = thr[t].room THEN told
               ELSE [told EXCEPT ![thr[t].inst] = @ \ {thr[t].user}]
    /\ Go(t, [Cut(thr[t], {"room", "inst"}) EXCEPT !.pc = "gone"])
    /\ UNCHANGED <<rooms, inst, peerOf, peer, load, tokens, ops, clash, fell>>

\* The end of leave, or of evict.
LeaveEnds(t) ==
    LET p == thr[t].peer IN
    /\ thr[t].pc = "gone" /\ thr[t].todo = {}
    /\ IF thr[t].evict THEN Reap(p) /\ peer' = [peer EXCEPT ![p].open = FALSE]
       ELSE UNCHANGED <<peerOf, load, peer>>
    /\ Go(t, thr[t].next)
    /\ UNCHANGED <<rooms, inst, tokens, told, ops, clash, fell>>

----------------------------------------------------------------------------
(* ops::rooms::join.                                                        *)

StartJoin(t, u, s, r) ==
    /\ rooms[r] # 0
    /\ Start1(t, [pc |-> "old", user |-> u, sid |-> s, room |-> r, inst |-> rooms[r], rejoin |-> FALSE])
    /\ Overlap(t, u)
    /\ UNCHANGED <<rooms, inst, peerOf, peer, load, tokens, told, fell>>

\* What becomes of the peer the user already has.  A join of the same session
\* either repeats the one before it or, by its join id, replaces it.
JoinOld(t) ==
    LET j == thr[t]  p == peerOf[j.user]
        in == IF p = 0 THEN FALSE ELSE j.room \in peer[p].rooms
        same == IF p = 0 THEN FALSE ELSE peer[p].sid = j.sid
    IN /\ j.pc = "old"
       /\ \/ in /\ same /\ Finish(t)
          \/ in /\ Go(t, Leaving(p, peer[p].rooms, j.room, TRUE, FALSE, [j EXCEPT !.pc = "rejoin"]))
          \/ ~in /\ p # 0 /\ ~same
             /\ Go(t, Leaving(p, peer[p].rooms, "none", TRUE, FALSE, [j EXCEPT !.pc = "room"]))
          \/ ~in /\ (p = 0 \/ same) /\ Go(t, [j EXCEPT !.pc = "room"])
       /\ UNCHANGED <<rooms, inst, peerOf, peer, load, tokens, told, ops, clash, fell>>

JoinRejoin(t) ==
    /\ thr[t].pc = "rejoin"
    /\ Go(t, [thr[t] EXCEPT !.pc = "room", !.rejoin = thr[t].user \in inst[thr[t].inst].members])
    /\ UNCHANGED <<rooms, inst, peerOf, peer, load, tokens, told, ops, clash, fell>>

FaultFull(k) == Cardinality(inst[k].members) > Capacity
Full(k) == Cardinality(inst[k].members) >= Capacity

\* Another join of the same room runs.
Race(t) ==
    \E o \in Threads \ {t} : thr[o].pc \in {"room", "add", "enter"} /\ thr[o].inst = thr[t].inst

\* Room for one more, and a peer: the user's or a new one.
JoinPeer(t) ==
    LET j == thr[t]  p == peerOf[j.user] IN
    /\ j.pc = "room"
    /\ \/ /\ ~j.rejoin /\ Full(j.inst)
          /\ Finish(t) /\ UNCHANGED <<inst, peer, peerOf, load>>
       \/ /\ j.rejoin \/ ~Full(j.inst)
          /\ inst' = [inst EXCEPT ![j.inst].raced = @ \/ Race(t)]
          /\ IF p # 0 THEN Go(t, [j EXCEPT !.pc = "add"] @@ [peer |-> p]) /\ UNCHANGED <<peer, peerOf, load>>
             ELSE /\ peer' = Append(peer, NewPeer(j.user, j.sid))
                  /\ peerOf' = [peerOf EXCEPT ![j.user] = Len(peer) + 1]
                  /\ load' = load + 1
                  /\ Go(t, [j EXCEPT !.pc = "add"] @@ [peer |-> Len(peer) + 1])
    /\ UNCHANGED <<rooms, tokens, told, ops, clash, fell>>

\* The room is added to the peer's set and the table synchronised with it.
JoinAdd(t) ==
    /\ thr[t].pc = "add"
    /\ peer' = [peer EXCEPT ![thr[t].peer].rooms = @ \cup {thr[t].room}]
    /\ \/ Go(t, [thr[t] EXCEPT !.pc = "enter"])
       \/ Go(t, [thr[t] EXCEPT !.pc = "undo"])            \* not enough m-lines
    /\ UNCHANGED <<rooms, inst, peerOf, load, tokens, told, ops, clash, fell>>

\* Undone: the peer goes if this was its only room, and with it the roster
\* entry that was kept for the rejoin.
JoinUndo(t) ==
    LET j == thr[t]  left == peer[j.peer].rooms \ {j.room}
        drop == j.rejoin /\ j.user \in inst[j.inst].members
    IN /\ j.pc = "undo"
       /\ peer' = [peer EXCEPT ![j.peer].rooms = left, ![j.peer].open = left # {}]
       /\ IF left = {} THEN Reap(j.peer) ELSE UNCHANGED <<peerOf, load>>
       /\ inst' = IF drop THEN [inst EXCEPT ![j.inst].members = @ \ {j.user}] ELSE inst
       /\ told' = IF drop THEN [told EXCEPT ![j.inst] = @ \ {j.user}] ELSE told
       /\ Finish(t)
       /\ UNCHANGED <<rooms, tokens, ops, clash, fell>>

\* Room::join: the roster, the clock of its emptiness and the notice in one.
JoinEnter(t) ==
    LET j == thr[t] IN
    /\ j.pc = "enter"
    /\ inst' = [inst EXCEPT ![j.inst].members = @ \cup {j.user}, ![j.inst].ever = TRUE, ![j.inst].since = FALSE]
    /\ told' = IF j.rejoin THEN told ELSE [told EXCEPT ![j.inst] = @ \cup {j.user}]
    /\ Go(t, [j EXCEPT !.pc = "select"])
    /\ UNCHANGED <<rooms, peerOf, peer, load, tokens, ops, clash, fell>>

\* move_pub to the room, if the request selects it and the tracks fit.
JoinSelect(t) ==
    LET j == thr[t] IN
    /\ j.pc = "select"
    /\ peer' \in {peer, [peer EXCEPT ![j.peer].pub = j.room]}
    /\ Finish(t)
    /\ UNCHANGED <<rooms, inst, peerOf, load, tokens, told, ops, clash, fell>>

----------------------------------------------------------------------------
(* The other requests, the admin surface and the periodic tasks.            *)

\* leave, and the admin's removal of a member.
StartLeave(t, u, r) ==
    LET p == peerOf[u] IN
    /\ rooms[r] # 0 /\ p # 0
    /\ r \in peer[p].rooms
    /\ Start1(t, Leaving(p, {r}, "none", FALSE, FALSE, Idle))
    /\ Overlap(t, u)
    /\ UNCHANGED <<rooms, inst, peerOf, peer, load, tokens, told, fell>>

\* session_gone, and home_lost for a peer whose hub has been away too long.
StartGone(t, u, s) ==
    LET p == peerOf[u] IN
    /\ p # 0
    /\ peer[p].sid = s
    /\ Start1(t, Leaving(p, peer[p].rooms, "none", TRUE, FALSE, Idle))
    /\ Overlap(t, u)
    /\ UNCHANGED <<rooms, inst, peerOf, peer, load, tokens, told, fell>>

\* affiliation: the publishing room is moved to a joined room, or cleared.
StartAffiliate(t, u, r) ==
    LET p == peerOf[u] IN
    /\ p # 0
    /\ r \in peer[p].rooms
    /\ Start1(t, [pc |-> "aff", user |-> u, peer |-> p, to |-> r])
    /\ Overlap(t, u)
    /\ UNCHANGED <<rooms, inst, peerOf, peer, load, tokens, told, fell>>

Affiliate(t) ==
    LET a == thr[t] IN
    /\ a.pc = "aff"
    /\ peer' = [peer EXCEPT ![a.peer].pub = IF @ = a.to THEN "none" ELSE IF rooms[a.to] = 0 THEN @ ELSE a.to]
    /\ Finish(t)
    /\ UNCHANGED <<rooms, inst, peerOf, load, tokens, told, ops, clash, fell>>

\* admin destroy: the members it lists are led out one after the other.
StartDestroy(t, r) ==
    /\ rooms[r] # 0
    /\ Start1(t, [pc |-> "members", inst |-> rooms[r], todo |-> inst[rooms[r]].members])
    /\ UNCHANGED <<rooms, inst, peerOf, peer, load, tokens, told, clash, fell>>

DestroyMember(t) ==
    LET d == thr[t]  r == inst[d.inst].room IN
    /\ d.pc = "members" /\ d.todo # {}
    /\ \E u \in d.todo :
         LET next == [d EXCEPT !.todo = @ \ {u}] IN
         /\ IF peerOf[u] # 0 THEN Go(t, Leaving(peerOf[u], {r}, "none", FALSE, TRUE, next)) /\ UNCHANGED inst
            ELSE /\ inst' = [inst EXCEPT ![d.inst].members = @ \ {u}]
                 /\ Go(t, next)
         /\ Overlap(t, u)
    /\ UNCHANGED <<rooms, peerOf, peer, load, tokens, told, ops, fell>>

DestroyMembersDone(t) ==
    /\ thr[t].pc = "members" /\ thr[t].todo = {}
    /\ Go(t, [pc |-> "destroy", inst |-> thr[t].inst])
    /\ UNCHANGED <<rooms, inst, peerOf, peer, load, tokens, told, ops, clash, fell>>

\* sweep and ttl_due: a room that has just become empty is noted first.
SweepNote(k) ==
    /\ rooms[inst[k].room] = k /\ inst[k].members = {} /\ inst[k].ever /\ ~inst[k].since
    /\ inst' = [inst EXCEPT ![k].since = TRUE]
    /\ UNCHANGED <<rooms, peerOf, peer, load, tokens, told, thr, ops, clash, fell>>

StartSweep(t, k) ==
    /\ rooms[inst[k].room] = k /\ inst[k].members = {} /\ inst[k].since
    /\ Start1(t, [pc |-> "destroy", inst |-> k])
    /\ UNCHANGED <<rooms, inst, peerOf, peer, load, tokens, told, clash, fell>>

FaultDestroyRoom(t) ==
    LET r == inst[thr[t].inst].room IN
    /\ thr[t].pc = "destroy"
    /\ rooms' = [rooms EXCEPT ![r] = 0]
    /\ Finish(t)
    /\ UNCHANGED <<inst, peerOf, peer, load, tokens, told, ops, clash, fell>>

\* Another thread works in room r, or is about to.
InUse(t, r) ==
    \E o \in Threads \ {t} :
        LET uses(f) == \/ "inst" \in DOMAIN f /\ inst[f.inst].room = r
                       \/ f.pc = "gone" /\ r \in f.todo
                       \/ f.pc = "declare" /\ f.room = r
                       \/ f.pc = "aff" /\ f.to = r
        IN uses(thr[o]) \/ ("next" \in DOMAIN thr[o] /\ uses(thr[o].next))

\* destroy_room: whatever instance has the name is removed with its token.
DestroyRoom(t) ==
    LET k == thr[t].inst  r == inst[k].room IN
    /\ thr[t].pc = "destroy"
    /\ fell' = IF rooms[r] # k \/ inst[k].members # {} \/ InUse(t, r) THEN fell \cup {r} ELSE fell
    /\ rooms' = [rooms EXCEPT ![r] = 0]
    /\ tokens' = tokens \ {r}
    /\ Finish(t)
    /\ UNCHANGED <<inst, peerOf, peer, load, told, ops, clash>>

\* create: the map keeps the instance that is there; the token follows.
StartCreate(t, r) ==
    /\ rooms[r] = 0
    /\ Start1(t, [pc |-> "declare", room |-> r, todo |-> {}])
    /\ inst' = Append(inst, NewRoom(r)) /\ told' = Append(told, {})
    /\ rooms' = [rooms EXCEPT ![r] = Len(inst) + 1]
    /\ UNCHANGED <<peerOf, peer, load, tokens, clash, fell>>

\* redeclare_rooms, when the local hub's token is back.
StartRedeclare(t) ==
    /\ tokens # {}
    /\ Start1(t, [pc |-> "again", todo |-> tokens])
    /\ UNCHANGED <<rooms, inst, peerOf, peer, load, tokens, told, clash, fell>>

Redeclare(t) ==
    /\ thr[t].pc = "again"
    /\ IF thr[t].todo = {} THEN Finish(t) /\ UNCHANGED tokens
       ELSE \E r \in thr[t].todo :
              LET rest == thr[t].todo \ {r} IN
              IF r \in tokens
              THEN tokens' = tokens \ {r} /\ Go(t, [pc |-> "declare", room |-> r, todo |-> rest])
              ELSE UNCHANGED tokens /\ Go(t, [pc |-> "again", todo |-> rest])
    /\ UNCHANGED <<rooms, inst, peerOf, peer, load, told, ops, clash, fell>>

Declare(t) ==
    /\ thr[t].pc = "declare"
    /\ tokens' = tokens \cup {thr[t].room}
    /\ Go(t, IF thr[t].todo = {} THEN Idle ELSE [pc |-> "again", todo |-> thr[t].todo])
    /\ UNCHANGED <<rooms, inst, peerOf, peer, load, told, ops, clash, fell>>

Next ==
    \/ \E t \in Threads :
         \/ LeaveFind(t) \/ LeaveRoster(t) \/ LeaveRooms(t) \/ LeaveReap(t) \/ LeaveTell(t) \/ LeaveEnds(t)
         \/ JoinOld(t) \/ JoinRejoin(t) \/ JoinPeer(t) \/ JoinAdd(t) \/ JoinUndo(t) \/ JoinEnter(t) \/ JoinSelect(t)
         \/ Affiliate(t) \/ DestroyMember(t) \/ DestroyMembersDone(t) \/ DestroyRoom(t)
         \/ Redeclare(t) \/ Declare(t)
    \/ \E t \in Threads : Free(t) /\
         \/ StartRedeclare(t)
         \/ \E u \in Users, r \in Rooms :
              \/ \E s \in Range(Sids[u]) : StartJoin(t, u, s, r)
              \/ StartLeave(t, u, r) \/ StartAffiliate(t, u, r)
         \/ \E u \in Users : \E s \in Range(Sids[u]) : StartGone(t, u, s)
         \/ \E r \in Rooms : StartDestroy(t, r) \/ StartCreate(t, r)
         \/ \E k \in DOMAIN inst : StartSweep(t, k)
    \/ \E k \in DOMAIN inst : SweepNote(k)

Spec == Init /\ [][Next]_vars

----------------------------------------------------------------------------
(* Properties.                                                              *)

Quiet == \A t \in Threads : thr[t] = Idle

RoomsTypeOK ==
    /\ \A r \in Rooms : rooms[r] \in 0 .. Len(inst) /\ (rooms[r] # 0 => inst[rooms[r]].room = r)
    /\ \A k \in DOMAIN inst : inst[k].members \subseteq Users /\ told[k] \subseteq Users
    /\ \A p \in DOMAIN peer : peer[p].rooms \subseteq Rooms /\ peer[p].pub \in Rooms \cup {"none"}
    /\ \A u \in Users : peerOf[u] # 0 => peer[peerOf[u]].user = u /\ peer[peerOf[u]].open
    /\ tokens \subseteq Rooms /\ load \in Nat

\* When the joins, departures, evictions and removals that ran are done, the
\* roster of a room, the members' own sets of rooms and what the members were
\* told agree, and a member publishes only into a room it is in (for users no
\* two operations of whom overlapped, and rooms that were not destroyed under an
\* operation that was using them).
RosterSettles ==
    Quiet => \A u \in Users \ clash :
        LET mine == IF peerOf[u] = 0 THEN {} ELSE peer[peerOf[u]].rooms IN
        /\ \A r \in Rooms \ fell :
             LET here == rooms[r] # 0 /\ u \in inst[rooms[r]].members
             IN here = (r \in mine) /\ (rooms[r] # 0 => here = (u \in told[rooms[r]]))
        /\ peerOf[u] # 0 => peer[peerOf[u]].pub \in mine \cup fell \cup {"none"}

\* Only joins of a room that run at once may each find its last place free, and
\* then no more than one place per further thread is given away beyond the
\* capacity: full_for looks at the roster before the member is added to it.
CapacityBound ==
    \A k \in DOMAIN inst :
        Cardinality(inst[k].members) <= Capacity + (IF inst[k].raced THEN Cardinality(Threads) - 1 ELSE 0)

\* Once all is quiet nothing is left behind: no transport stays open without a
\* peer that can be found and evicted, the workers count no connection that has
\* gone, and exactly the rooms that exist have a token on the bus.
NothingLeaks ==
    Quiet =>
        /\ \A p \in DOMAIN peer : peer[p].open => peerOf[peer[p].user] = p \/ peer[p].user \in clash
        /\ clash = {} => load <= Cardinality({p \in DOMAIN peer : peer[p].open})
        /\ \A r \in Rooms \ fell : r \in tokens <=> rooms[r] # 0
=============================================================================
