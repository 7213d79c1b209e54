------------------------------- MODULE Tracks -------------------------------
(***************************************************************************)
(* Published streams and one subscriber's m-line table: publishing and the *)
(* subscription pipeline (oxsfud/src/ops/media.rs), the table (sub/mod.rs),*)
(* streams (pub/mod.rs, trk/mod.rs) and what leaving does to them          *)
(* (gc/mod.rs).                                                            *)
(*                                                                         *)
(* A row of the table is an m-line of the subscriber.  Every change of a   *)
(* row carries the revision (since) it was made at; the server sends on a  *)
(* row only while since <= acked, the greatest revision the subscriber has *)
(* confirmed with READY.  The candidates of a synchronisation are computed *)
(* before the table's lock is taken and its changes are applied to the     *)
(* streams after it is released, and two threads may do this at once.      *)
(* The subscriber is external: it keeps the table with the greatest        *)
(* revision and confirms what it has kept.                                 *)
(***************************************************************************)
EXTENDS Integers, Sequences, FiniteSets, FiniteSetsExt, SequencesExt, TLC

CONSTANTS Threads, Rooms,
          Info,        \* track -> [user, kind, codec, sim]
          RoomCodec,   \* room -> its video codec
          FullCap,     \* kind -> rows for individual tracks (FULL_AUDIO, FULL_VIDEO)
          SlotBudget, RowLimit,
          Home,        \* user -> the room it publishes into at the start
          Early,       \* sets of tracks published before the subscriber enters
          MaxOp

VARIABLES str, fan, pubRoom,   \* streams and slots with the rows attached; rooms published into
          tabs, cur,           \* the subscriber's tables so far, and the one in use (0: none)
          roster, floor,       \* rooms it is a member of; Tables::floors of its session
          cli, msgs,           \* the subscriber's copy; tables on their way to it
          thr, ops,
          mixed, stray, hushed \* operations overlapped; a request named another room than its
                               \* stream's; the cleanup of a refused join changed a table

vars == <<str, fan, pubRoom, tabs, cur, roster, floor, cli, msgs, thr, ops, mixed, stray, hushed>>

Ids == DOMAIN Info
Kinds == {"audio", "video"}
Publishers == {Info[t].user : t \in Ids}
Idle == [pc |-> "idle"]
tab == tabs[cur]

NewTable(arev) ==
    [mine |-> {}, rows |-> <<>>, arev |-> arev, acked |-> 0,
     prefs |-> [t \in Ids |-> "low"]]

----------------------------------------------------------------------------
(* cands_for, and Table::sync on a table w that also collects its changes.  *)

CodecOf(r, k) == IF k = "audio" THEN "opus" ELSE RoomCodec[r]

Listed(t, r) == str[t].st = "live" /\ str[t].listed /\ str[t].room = r

CandsFor(b) ==
    {[track |-> "slot", room |-> x[1], kind |-> x[2], class |-> "slot", codec |-> CodecOf(x[1], x[2]), pref |-> "low"]
        : x \in b.mine \X Kinds}
    \cup {[track |-> x[1], room |-> x[2], kind |-> Info[x[1]].kind, class |-> "full", codec |-> Info[x[1]].codec,
           pref |-> b.prefs[x[1]]] : x \in {y \in Ids \X b.mine : Listed(y[1], y[2]) /\ ~str[y[1]].half}}

Loaded(row) == row.track # "none"
Where(w, P(_)) == {i \in DOMAIN w.rows : P(w.rows[i])}

Change(w, i, c) ==
    [w EXCEPT !.rows[i].track = c.track, !.rows[i].room = c.room, !.rows[i].since = w.arev + 1,
              !.ch = Append(@, [row |-> i, class |-> w.rows[i].class,
                                old |-> <<w.rows[i].track, w.rows[i].room>>, new |-> <<c.track, c.room>>])]

Load(w, i, c) == [Change(w, i, c) EXCEPT !.rows[i].at = w.arev + 1]
Unload(w, i) == IF Loaded(w.rows[i]) THEN Change(w, i, [track |-> "none", room |-> "none"]) ELSE w

NewRow(w, kind, class, codec) ==
    [w EXCEPT !.rows = Append(@, [kind |-> kind, class |-> class, codec |-> codec,
                                  track |-> "none", room |-> "none", since |-> 0, at |-> 0])]
Retune(w, i, codec) == [w EXCEPT !.rows[i].codec = codec, !.tuned = TRUE]

HasSlot(w, c) == Where(w, LAMBDA x : x.class = "slot" /\ x.kind = c.kind /\ Loaded(x) /\ x.room = c.room) # {}
Unwanted(w, slots) ==
    Where(w, LAMBDA x : x.class = "slot" /\ Loaded(x) /\ ~\E c \in slots : c.room = x.room /\ c.kind = x.kind)
SlotRows(w) == Cardinality(Where(w, LAMBDA x : x.class = "slot"))
FreeSlots(w, c, or) ==
    Where(w, LAMBDA x : x.class = "slot" /\ x.kind = c.kind /\ x.codec = c.codec /\ ~Loaded(x))
    \cup {i \in or : w.rows[i].kind = c.kind /\ w.rows[i].codec = c.codec}

\* How many new rows the slots need: those that no row, free or about to be
\* freed and not claimed by another slot, can take.
FreshSlotRows(w, slots) ==
    FoldSet(LAMBDA c, a : LET free == FreeSlots(w, c, Unwanted(w, slots)) \ a.claimed IN
                          IF HasSlot(w, c) THEN a
                          ELSE IF free = {} THEN [a EXCEPT !.fresh = @ + 1]
                          ELSE [a EXCEPT !.claimed = @ \cup {Min(free)}],
            [claimed |-> {}, fresh |-> 0], slots).fresh

PlaceSlot(c, w) ==
    LET free == FreeSlots(w, c, {}) IN
    IF w.late \/ HasSlot(w, c) THEN w
    ELSE IF free # {} THEN Load(w, Min(free), c)
    ELSE IF SlotRows(w) >= SlotBudget \/ Len(w.rows) >= RowLimit THEN [w EXCEPT !.late = TRUE]
    ELSE Load(NewRow(w, c.kind, "slot", c.codec), Len(w.rows) + 1, c)

\* Of the tracks wanted, those that get a row: by rank (a video's priority; how
\* recently someone spoke, so any, for audio), then those that have a row.
Targets(w, want, kind) ==
    LET n == IF Cardinality(want) < FullCap[kind] THEN Cardinality(want) ELSE FullCap[kind]
        has(c) == \E i \in DOMAIN w.rows : w.rows[i].track = c.track /\ w.rows[i].room = c.room
        above(c, d) == kind = "video" /\ (IF c.pref = d.pref THEN has(c) /\ ~has(d) ELSE c.pref = "high")
    IN {T \in kSubset(n, want) : ~\E c \in want \ T, d \in T : above(c, d)}

PlaceFull(c, w) ==
    LET free == Where(w, LAMBDA x : x.class = "full" /\ x.kind = c.kind /\ ~Loaded(x))
        same == {i \in free : w.rows[i].codec = c.codec}
        full == Where(w, LAMBDA x : x.class = "full" /\ x.kind = c.kind)
        old == CHOOSE i \in free : \A j \in free : w.rows[i].at < w.rows[j].at \/ (w.rows[i].at = w.rows[j].at /\ i <= j)
    IN IF Where(w, LAMBDA x : x.class = "full" /\ x.track = c.track /\ x.room = c.room) # {} THEN w
       ELSE IF same # {} THEN Load(w, Min(same), c)
       ELSE IF Cardinality(full) < FullCap[c.kind] /\ Len(w.rows) < RowLimit
            THEN Load(NewRow(w, c.kind, "full", c.codec), Len(w.rows) + 1, c)
       ELSE IF free # {} THEN Load(Retune(w, old, c.codec), old, c)
       ELSE w

\* The individual tracks of one kind; one outcome for each choice among equals.
FillKind(w, cands, kind) ==
    LET want == {c \in cands : c.class = "full" /\ c.kind = kind /\ c.pref # "paused"}
        here(u, i) == u.rows[i].class = "full" /\ u.rows[i].kind = kind /\ Loaded(u.rows[i])
        gone(u, i, S) == here(u, i) /\ ~\E c \in S : c.track = u.rows[i].track /\ c.room = u.rows[i].room
        all == {c \in cands : c.class = "full"}
        rehome(u, i) == IF gone(u, i, all) /\ \E c \in want : c.track = u.rows[i].track
                        THEN Change(u, i, CHOOSE c \in want : c.track = u.rows[i].track) ELSE u
        idx(u) == [i \in 1 .. Len(u.rows) |-> i]
        v == FoldLeft(rehome, w, idx(w))
    IN {LET emptied == FoldLeft(LAMBDA u, i : IF gone(u, i, T) THEN Unload(u, i) ELSE u, v, idx(v))
        IN FoldSet(PlaceFull, emptied, T) : T \in Targets(v, want, kind)}

\* All outcomes of sync.
Sync(b, cands) ==
    LET w0 == b @@ [ch |-> <<>>, late |-> FALSE, tuned |-> FALSE, limit |-> FALSE]
        slots == {c \in cands : c.class = "slot"}
        fresh == FreshSlotRows(w0, slots)
        w1 == FoldLeft(LAMBDA w, i : IF i \in Unwanted(w, slots) THEN Unload(w, i) ELSE w, w0,
                       [i \in 1 .. Len(w0.rows) |-> i])
        w2 == FoldSet(PlaceSlot, w1, slots)
        done(w) == IF w.ch # <<>> \/ Len(w.rows) # Len(b.rows) \/ w.tuned THEN [w EXCEPT !.arev = @ + 1] ELSE w
    IN IF fresh > 0 /\ (SlotRows(w0) + fresh > SlotBudget \/ Len(w0.rows) + fresh > RowLimit)
       THEN {[w0 EXCEPT !.limit = TRUE]}
       ELSE IF w2.late THEN {[w2 EXCEPT !.ch = <<>>, !.limit = TRUE]}
       ELSE {done(w) : w \in UNION {FillKind(a, cands, "video") : a \in FillKind(w2, cands, "audio")}}

\* The subscriber enters its first room: the table is filled, nothing is applied yet.
Init ==
    \E r \in Rooms, live \in Early, t \in Threads :
    LET b == [NewTable(0) EXCEPT !.mine = {r}] IN
    /\ str = [k \in Ids |-> IF k \in live
                             THEN [st |-> "live", room |-> Home[Info[k].user], half |-> FALSE, listed |-> TRUE, rows |-> {}]
                             ELSE [st |-> "none", room |-> "none", half |-> FALSE, listed |-> FALSE, rows |-> {}]]
    /\ fan = [x \in Rooms |-> {}] /\ pubRoom = Home
    /\ \E w \in Sync(b, CandsFor(b)) :
         /\ tabs = <<[x \in DOMAIN b |-> w[x]]>> /\ cur = 1
         /\ thr = [o \in Threads |-> IF o # t THEN Idle
                     ELSE [pc |-> "apply", todo |-> <<>>, note |-> FALSE, then |-> "join", room |-> r, gen |-> 1,
                           ch |-> w.ch, limit |-> w.limit, changed |-> TRUE, torn |-> FALSE]]
    /\ roster = {} /\ floor = 0
    /\ cli = [gen |-> 0, arev |-> 0, rows |-> <<>>, held |-> {}] /\ msgs = {}
    /\ ops = 0 /\ mixed = FALSE /\ stray = FALSE /\ hushed = FALSE

----------------------------------------------------------------------------
(* A thread: it synchronises the table once per entry of todo (a room whose *)
(* members are synchronised, or "peer"), then goes on with then.            *)

Resync(todo, note, then, room) ==
    IF todo = <<>> /\ then = "none" THEN Idle
    ELSE [pc |-> "next", todo |-> todo, note |-> note, then |-> then, room |-> room]

Go(t, f) == thr' = [thr EXCEPT ![t] = f]

Free(t) == ops < MaxOp /\ thr[t] = Idle

Begin(t, f) ==
    /\ Free(t) /\ ops' = ops + 1
    /\ mixed' = (mixed \/ \E o \in Threads : thr[o] # Idle)
    /\ Go(t, f)

\* resync_room finds the subscriber in the roster; then its candidates are read.
ReadCands(t) ==
    LET j == thr[t] IN
    /\ j.pc = "next" /\ j.todo # <<>>
    /\ Go(t, IF (Head(j.todo) = "peer" \/ Head(j.todo) \in roster) /\ cur # 0
             THEN [j EXCEPT !.pc = "sync", !.todo = Tail(@)] @@ [gen |-> cur, cands |-> CandsFor(tab)]
             ELSE [j EXCEPT !.todo = Tail(@)])
    /\ UNCHANGED <<str, fan, pubRoom, tabs, cur, roster, floor, cli, msgs, ops, mixed, stray, hushed>>

\* Under the lock of the table, which may have been dropped meanwhile.
SyncTable(t) ==
    LET j == thr[t]  b == tabs[j.gen] IN
    /\ j.pc = "sync"
    /\ \E w \in Sync(b, j.cands) :
         /\ tabs' = [tabs EXCEPT ![j.gen] = [x \in DOMAIN b |-> w[x]]]
         /\ hushed' = (hushed \/ (w.arev # b.arev /\ j.then = "undo"))
         /\ Go(t, [pc |-> "apply", todo |-> j.todo, note |-> j.note, then |-> j.then, room |-> j.room,
                   gen |-> j.gen, ch |-> w.ch, limit |-> w.limit, changed |-> w.arev # b.arev,
                   torn |-> w.limit /\ w.rows # b.rows])
    /\ UNCHANGED <<str, fan, pubRoom, cur, roster, floor, cli, msgs, ops, mixed, stray>>

\* apply_changes: the row is taken off the old source and put on the new one.
Applied(ch, g) ==
    LET row(c) == <<g, c.row>>
        onStr(s, c) == [t \in Ids |-> [s[t] EXCEPT !.rows =
            (IF c.class = "full" /\ c.old[1] = t THEN @ \ {row(c)} ELSE @)
            \cup (IF c.class = "full" /\ c.new[1] = t /\ s[t].st = "live" THEN {row(c)} ELSE {})]]
        onFan(f, c) == [r \in Rooms |->
            (IF c.class = "slot" /\ c.old[2] = r THEN f[r] \ {row(c)} ELSE f[r])
            \cup (IF c.class = "slot" /\ c.new[2] = r THEN {row(c)} ELSE {})]
    IN /\ str' = FoldLeft(onStr, str, ch)
       /\ fan' = FoldLeft(onFan, fan, ch)

Assigned(b) == [i \in DOMAIN b.rows |-> <<b.rows[i].track, b.rows[i].room>>]
Snapshot(g, join) == [gen |-> g, arev |-> tabs[g].arev, join |-> join, rows |-> Assigned(tabs[g])]

ApplyChanges(t) ==
    LET j == thr[t]
        on == [pc |-> "next", todo |-> j.todo, note |-> j.note, then |-> j.then, room |-> j.room]
    IN /\ j.pc = "apply"
       /\ Applied(j.ch, j.gen)
       /\ Go(t, IF j.then = "join" /\ j.limit THEN [on EXCEPT !.pc = "undo"]
                ELSE IF j.changed /\ j.note THEN [on EXCEPT !.pc = "note"] @@ [gen |-> j.gen]
                ELSE on)
       /\ UNCHANGED <<pubRoom, tabs, cur, roster, floor, cli, msgs, ops, mixed, stray, hushed>>

\* MLINE_EVENT with the table as it is by now.
Note(t) ==
    LET j == thr[t] IN
    /\ j.pc = "note"
    /\ msgs' = msgs \cup {Snapshot(j.gen, FALSE)}
    /\ Go(t, [pc |-> "next", todo |-> j.todo, note |-> j.note, then |-> j.then, room |-> j.room])
    /\ UNCHANGED <<str, fan, pubRoom, tabs, cur, roster, floor, cli, ops, mixed, stray, hushed>>

\* A refused join is taken back, and the table synchronised again without telling anyone.
Undo(t) ==
    /\ thr[t].pc = "undo"
    /\ tabs' = [tabs EXCEPT ![cur].mine = @ \ {thr[t].room}]
    /\ Go(t, Resync(<<"peer">>, FALSE, "undo", thr[t].room))
    /\ UNCHANGED <<str, fan, pubRoom, cur, roster, floor, cli, msgs, ops, mixed, stray, hushed>>

\* The end of the operation.  With the last room goes the table, and its
\* revision is kept for the session (reap).
Ends(t) ==
    LET j == thr[t]  drop == j.then \in {"leave", "undo"} /\ tab.mine = {} IN
    /\ j.pc = "next" /\ j.todo = <<>>
    /\ roster' = IF j.then = "join" THEN roster \cup {j.room} ELSE roster
    /\ msgs' = IF j.then = "join" THEN msgs \cup {Snapshot(cur, TRUE)} ELSE msgs
    /\ cur' = IF drop THEN 0 ELSE cur
    /\ floor' = IF drop /\ tab.arev > floor THEN tab.arev ELSE floor
    /\ Go(t, Idle)
    /\ UNCHANGED <<str, fan, pubRoom, tabs, cli, ops, mixed, stray, hushed>>

----------------------------------------------------------------------------
(* The subscriber's own requests; it changes its membership one at a time.  *)

Changing == \E o \in Threads : thr[o] # Idle /\ thr[o].then # "none"
Answered == ~\E m \in msgs : m.join

\* new_peer: a session that had a table before goes on counting its revisions.
FreshTable == NewTable(IF floor > 0 THEN floor + 1 ELSE 0)

\* join, once the room has admitted the subscriber.
Join(t, r) ==
    /\ ~Changing /\ Answered
    /\ IF cur = 0
       THEN tabs' = Append(tabs, [FreshTable EXCEPT !.mine = {r}]) /\ cur' = Len(tabs) + 1
       ELSE r \notin tab.mine /\ tabs' = [tabs EXCEPT ![cur].mine = @ \cup {r}] /\ UNCHANGED cur
    /\ Begin(t, Resync(<<"peer">>, FALSE, "join", r))
    /\ UNCHANGED <<str, fan, pubRoom, roster, floor, cli, msgs, stray, hushed>>

\* gc::leave of the subscriber.
Leave(t, r) ==
    /\ ~Changing /\ Answered /\ r \in roster
    /\ roster' = roster \ {r}
    /\ tabs' = [tabs EXCEPT ![cur].mine = @ \ {r}]
    /\ Begin(t, Resync(<<"peer">>, tab.mine # {r}, "leave", r))
    /\ UNCHANGED <<str, fan, pubRoom, cur, floor, cli, msgs, stray, hushed>>

Known == cur # 0 /\ cli.gen = cur

\* subscribe_layer, as far as the table is concerned.
Prefer(t, k, p) ==
    /\ Known /\ str[k].st = "live" /\ p # tab.prefs[k]
    /\ tabs' = [tabs EXCEPT ![cur].prefs[k] = p]
    /\ Begin(t, Resync(<<"peer">>, TRUE, "none", "none"))
    /\ UNCHANGED <<str, fan, pubRoom, cur, roster, floor, cli, msgs, stray, hushed>>

FaultAck(a) == tab.arev
Ack(a) == IF a < tab.arev THEN a ELSE tab.arev

\* READY with a revision the subscriber holds or held.
Ready(a) ==
    /\ Known
    /\ LET n == Ack(a) IN tabs' = [tabs EXCEPT ![cur].acked = IF n > @ THEN n ELSE @]
    /\ UNCHANGED <<str, fan, pubRoom, cur, roster, floor, cli, msgs, thr, ops, mixed, stray, hushed>>

\* A table reaches the subscriber, in any order; a join's answer also names the join.
Deliver(m) ==
    LET g == IF m.join THEN m.gen ELSE cli.gen
        new == m.arev > cli.arev
        a == IF new THEN m.arev ELSE cli.arev
    IN /\ msgs' = msgs \ {m}
       /\ cli' = [gen |-> g, arev |-> a, rows |-> IF new THEN m.rows ELSE cli.rows,
                  held |-> (IF g = cli.gen THEN cli.held ELSE {}) \cup {a}]
       /\ UNCHANGED <<str, fan, pubRoom, tabs, cur, roster, floor, thr, ops, mixed, stray, hushed>>

----------------------------------------------------------------------------
(* The publishers' requests.                                                *)

Matches(k, r) == Info[k].codec = CodecOf(r, Info[k].kind)

\* publish: an individual track goes to the room its user publishes into and is
\* listed at once unless it is simulcast; a half-duplex track is not, and is
\* never simulcast.
Publish(t, k, r, half) ==
    LET now == ~half /\ ~Info[k].sim IN
    /\ str[k].st = "none" /\ Matches(k, r) /\ (IF half THEN ~Info[k].sim ELSE pubRoom[Info[k].user] = r)
    /\ str' = [str EXCEPT ![k] = [st |-> "live", room |-> r, half |-> half, listed |-> now, rows |-> {}]]
    /\ Begin(t, Resync(IF now THEN <<r>> ELSE <<>>, TRUE, "none", "none"))
    /\ UNCHANGED <<fan, pubRoom, tabs, cur, roster, floor, cli, msgs, stray, hushed>>

\* simulcast_first_rtp: the stream is listed, and announced if it has a room.
Announced(k) == Resync(IF str[k].room = "none" THEN <<>> ELSE <<str[k].room>>, TRUE, "none", "none")

\* learn: the first packet of a layer of a simulcast stream.
FirstRtp(t, k) ==
    /\ str[k].st = "live" /\ Info[k].sim /\ ~str[k].listed
    /\ str' = [str EXCEPT ![k].listed = TRUE]
    /\ Begin(t, Announced(k))
    /\ UNCHANGED <<fan, pubRoom, tabs, cur, roster, floor, cli, msgs, stray, hushed>>

Dropped(s) == [s EXCEPT !.st = "gone", !.listed = FALSE, !.rows = {}]

\* unpublish and drop_stream.
Unpublish(t, k) ==
    /\ str[k].st = "live"
    /\ str' = [str EXCEPT ![k] = Dropped(@)]
    /\ Begin(t, Resync(IF str[k].listed /\ str[k].room # "none" THEN <<str[k].room>> ELSE <<>>, TRUE, "none", "none"))
    /\ UNCHANGED <<fan, pubRoom, tabs, cur, roster, floor, cli, msgs, stray, hushed>>

\* set_duplex_of, for a request in room r; full duplex only in the room published into.
SetDuplex(t, k, r) ==
    /\ str[k].st = "live" /\ ~Info[k].sim
    /\ str[k].half => pubRoom[Info[k].user] = r
    /\ str' = [str EXCEPT ![k].half = ~@, ![k].listed = TRUE]
    /\ stray' = (stray \/ str[k].room # r)
    /\ Begin(t, Resync(<<r>>, TRUE, "none", "none"))
    /\ UNCHANGED <<fan, pubRoom, tabs, cur, roster, floor, cli, msgs, hushed>>

Own(u) == {k \in Ids : Info[k].user = u /\ str[k].st = "live"}

FaultMovePub(t, u, to) ==
    /\ pubRoom[u] # to /\ (to # "none" => \A k \in Own(u) : Matches(k, to))
    /\ pubRoom' = [pubRoom EXCEPT ![u] = to]
    /\ str' = [k \in Ids |-> IF k \in Own(u) THEN [str[k] EXCEPT !.room = to] ELSE str[k]]
    /\ Begin(t, Resync(IF to # "none" /\ \E k \in Own(u) : str[k].listed THEN <<to>> ELSE <<>>, TRUE, "none", "none"))
    /\ UNCHANGED <<fan, tabs, cur, roster, floor, cli, msgs, stray, hushed>>

\* move_pub: all streams of the user go along; the members of the room left and
\* those of the room entered are synchronised.
MovePub(t, u, to) ==
    LET from == pubRoom[u]
        left == from # "none" /\ \E k \in Own(u) : str[k].listed /\ str[k].room # "none"
        came == to # "none" /\ \E k \in Own(u) : str[k].listed
    IN /\ from # to /\ (to # "none" => \A k \in Own(u) : Matches(k, to))
       /\ pubRoom' = [pubRoom EXCEPT ![u] = to]
       /\ str' = [k \in Ids |-> IF k \in Own(u) THEN [str[k] EXCEPT !.room = to] ELSE str[k]]
       /\ Begin(t, Resync((IF left THEN <<from>> ELSE <<>>) \o (IF came THEN <<to>> ELSE <<>>), TRUE, "none", "none"))
       /\ UNCHANGED <<fan, tabs, cur, roster, floor, cli, msgs, stray, hushed>>

\* gc::leave of a publisher: its individual tracks of the room go (with its last
\* room all of them), a listed half-duplex track stays without a room.
PubLeaves(t, u, r, last) ==
    LET here == {k \in Own(u) : str[k].room = r}
        drop == IF last THEN Own(u) ELSE {k \in here : ~str[k].half}
    IN /\ Own(u) # {} /\ (last => pubRoom[u] \in {r, "none"})
       /\ pubRoom' = [pubRoom EXCEPT ![u] = IF @ = r THEN "none" ELSE @]
       /\ str' = [k \in Ids |-> IF k \in drop THEN Dropped(str[k])
                                ELSE IF k \in here /\ str[k].listed THEN [str[k] EXCEPT !.room = "none"] ELSE str[k]]
       /\ Begin(t, Resync(IF \E k \in here : str[k].listed THEN <<r>> ELSE <<>>, TRUE, "none", "none"))
       /\ UNCHANGED <<fan, tabs, cur, roster, floor, cli, msgs, stray, hushed>>

Next ==
    \/ \E t \in Threads :
         \/ ReadCands(t) \/ SyncTable(t) \/ ApplyChanges(t) \/ Note(t) \/ Undo(t) \/ Ends(t)
         \/ Free(t) /\ \E r \in Rooms : Join(t, r) \/ Leave(t, r)
         \/ Free(t) /\ \E k \in Ids :
              \/ \E p \in {"low", "high", "paused"} : Prefer(t, k, p)
              \/ FirstRtp(t, k) \/ Unpublish(t, k)
              \/ \E r \in Rooms : SetDuplex(t, k, r) \/ \E half \in BOOLEAN : Publish(t, k, r, half)
         \/ Free(t) /\ \E u \in Publishers :
              \/ \E to \in Rooms \cup {"none"} : MovePub(t, u, to)
              \/ \E r \in Rooms, last \in BOOLEAN : PubLeaves(t, u, r, last)
    \/ \E a \in cli.held : Ready(a)
    \/ \E m \in msgs : Deliver(m)

Spec == Init /\ [][Next]_vars

----------------------------------------------------------------------------
(* Properties.                                                              *)

Quiet == \A t \in Threads : thr[t] = Idle

TracksTypeOK ==
    /\ cur \in 0 .. Len(tabs)
    /\ \A k \in Ids : str[k].st \in {"none", "live", "gone"} /\ str[k].room \in Rooms \cup {"none"}
    /\ \A g \in DOMAIN tabs :
        /\ Len(tabs[g].rows) <= RowLimit /\ tabs[g].acked <= tabs[g].arev
        /\ \A i \in DOMAIN tabs[g].rows :
            tabs[g].rows[i].track \in Ids \cup {"slot", "none"} /\ tabs[g].rows[i].since <= tabs[g].arev

\* The server may send on a row only what the subscriber knows the row to carry:
\* a row that is loaded and open (since <= acked) carries the track the
\* subscriber's own copy of the table names, whatever reassignments, threads,
\* late READYs and reordered tables came before.
OpenMeansAcked ==
    cur # 0 => \A i \in DOMAIN tab.rows :
        (Loaded(tab.rows[i]) /\ tab.rows[i].since <= tab.acked) =>
            i \in DOMAIN cli.rows /\ cli.rows[i] = Assigned(tab)[i]

\* When nothing runs and every table has arrived, the subscriber's copy is the
\* server's table, also after it left all rooms and came back, so the revisions
\* go on across tables (except that the cleanup of a refused join tells nobody).
ClientConverges ==
    (Quiet /\ msgs = {} /\ cur # 0 /\ ~hushed) => cli.arev = tab.arev /\ cli.rows = Assigned(tab)

\* Operations that did not overlap leave the table as the candidates demand: a
\* slot row per room and kind, a row for every listed individual track that is
\* not paused, as far as there are rows; and exactly these rows are attached to
\* the streams and slots that feed them.  A synchronisation that the limit
\* refuses is refused before it has changed a row.
RowsSettle ==
    /\ \A t \in Threads : thr[t].pc = "apply" => ~thr[t].torn
    /\ (Quiet /\ ~mixed /\ ~stray /\ cur # 0) =>
        LET rows == {i \in DOMAIN tab.rows : Loaded(tab.rows[i])}
            full == {i \in rows : tab.rows[i].class = "full"}
            want(k) == {x \in Ids : /\ Info[x].kind = k /\ tab.prefs[x] # "paused" /\ ~str[x].half
                                    /\ str[x].st = "live" /\ str[x].listed /\ str[x].room \in tab.mine}
        IN /\ {<<tab.rows[i].room, tab.rows[i].kind>> : i \in rows \ full} = tab.mine \X Kinds
           /\ \A r \in Rooms : fan[r] = {<<cur, i>> : i \in {j \in rows \ full : tab.rows[j].room = r}}
           /\ \A x \in Ids : str[x].rows = {<<cur, i>> : i \in {j \in full : tab.rows[j].track = x}}
           /\ \A k \in Kinds :
                LET has == {tab.rows[i].track : i \in {j \in full : tab.rows[j].kind = k}} IN
                /\ has \subseteq want(k)
                /\ has = want(k) \/ Cardinality(has) = FullCap[k] \/ Len(tab.rows) = RowLimit

\* The subscriber's copy and the rows attached to streams and slots both come to
\* what the table says, whatever requests, joins, leaves and packets came.
SubscriptionSettles == ClientConverges /\ RowsSettle
=============================================================================
