------------------------------ MODULE Downlink ------------------------------
(***************************************************************************)
(* One video row of a subscriber and the uplink tracks that feed it        *)
(* (oxsfud/src/fwd/mod.rs, fwd/core.rs, sim/mod.rs, rtcp/mod.rs,           *)
(* pub/mod.rs): reception and repair of uplink packets, the layer switch   *)
(* of a simulcast stream, reassignment of the row or change of the         *)
(* speaker, the ring between the publisher's and the subscriber's worker,  *)
(* the renumbering of the outgoing stream, and retransmission on request.  *)
(*                                                                         *)
(* A packet is [t, n]: the n-th packet of track t; its sequence number is  *)
(* n % M.  On its way it says whether it is of a key frame.  Steps of one  *)
(* worker are atomic; a publisher's worker reads the rows of the stream    *)
(* (Receive) before it tries the row (Forward), and the control thread may *)
(* change the row in between.  Timestamps, header extensions and key frame *)
(* requests are left out; a key frame may come at any time.                *)
(***************************************************************************)
EXTENDS Integers, Sequences, FiniteSets

CONSTANTS Info,        \* track -> [stream, half (duplex), rid (0, 1 or 2: no rid), from (its first number)]
          Simulcast,   \* the simulcast streams
          Slot,        \* is the row a slot's, a row of its own, or either: a set of Booleans
          M, Cache,    \* sequence numbers and cached packets: 2^16 and 1024 in the code
          RingLimit, MaxPkt, MaxCtl

VARIABLES slot, asg, up, lost, row, rw, fwd, ring, pkts, ctl,
          sentAs, first, newest, far, seam, rtx

vars == <<slot, asg, up, lost, row, rw, fwd, ring, pkts, ctl, sentAs, first, newest, far, seam, rtx>>

Tracks == DOMAIN Info
Streams == {Info[t].stream : t \in Tracks}
StreamOf(t) == Info[t].stream

\* Half-duplex tracks feed slot rows, the others rows of their own.
Feeds(t) == Info[t].half = slot
May(s) == \E t \in Tracks : StreamOf(t) = s /\ Feeds(t)
PAUSE == 255

None == -1
NoPkt == [t |-> "none", n |-> None]
NoFrame == [pkt |-> NoPkt, key |-> FALSE]

\* serial_after
After(a, b) == (a - b) % M \in 1 .. (M \div 2 - 1)

Init ==
    /\ slot \in Slot
    /\ asg \in {s \in Streams : May(s)}
    /\ up = [t \in Tracks |-> [n |-> Info[t].from, cache |-> [i \in 0 .. Cache - 1 |-> NoPkt]]]
    /\ lost = {}
    /\ row = [layer |-> PAUSE, target |-> 1, cap |-> 1, auto |-> 1, paused |-> FALSE,
              gate |-> FALSE, track |-> "none"]
    /\ rw = [src |-> "none", off |-> 0, last |-> None, boundary |-> None]
    /\ fwd = NoFrame /\ ring = <<>>
    /\ pkts = 0 /\ ctl = 0
    /\ sentAs = [i \in 0 .. M - 1 |-> NoPkt]
    /\ first = None /\ newest = [n |-> None, out |-> None]
    /\ far = FALSE /\ seam = TRUE /\ rtx = "none"

ghosts == <<sentAs, first, newest, far, seam>>

----------------------------------------------------------------------------
(* The uplink: on_rtp of the publisher's worker.                            *)

CachePut(c, p) == [c EXCEPT ![(p.n % M) % Cache] = p]

CacheGet(c, seq) ==
    LET p == c[seq % Cache] IN IF p # NoPkt /\ p.n % M = seq THEN p ELSE NoPkt

\* The rows of the stream, or the slot's while its publisher is the speaker, as
\* forward finds them: the row is tried later if it is among them.
Tried(p, key) == IF asg = StreamOf(p.t) THEN [pkt |-> p, key |-> key] ELSE NoFrame

\* on_ingress, then forward up to the row.
Receive(t, key) ==
    LET p == [t |-> t, n |-> up[t].n]
    IN /\ Feeds(t) /\ pkts < MaxPkt /\ pkts' = pkts + 1
       /\ fwd = NoFrame
       /\ up' = [up EXCEPT ![t] = [n |-> @.n + 1, cache |-> CachePut(@.cache, p)]]
       /\ fwd' = Tried(p, key)
       /\ rtx' = "none"
       /\ UNCHANGED <<slot, asg, lost, row, rw, ring, ctl, ghosts>>

\* The network loses a packet on the uplink.
Lose(t) ==
    /\ Feeds(t) /\ pkts < MaxPkt /\ pkts' = pkts + 1 /\ lost = {}
    /\ up' = [up EXCEPT ![t].n = @ + 1]
    /\ lost' = {[t |-> t, n |-> up[t].n]}
    /\ rtx' = "none"
    /\ UNCHANGED <<slot, asg, row, rw, fwd, ring, ctl, ghosts>>

\* It comes again, on the repair stream: unwrap_rtx, on_repair, forward.
Repair(p, key) ==
    /\ p \in lost /\ lost' = lost \ {p}
    /\ fwd = NoFrame
    /\ up' = [up EXCEPT ![p.t].cache = CachePut(@, p)]
    /\ fwd' = Tried(p, key)
    /\ rtx' = "none"
    /\ UNCHANGED <<slot, asg, row, rw, ring, pkts, ctl, ghosts>>

----------------------------------------------------------------------------
(* The layer switch of a simulcast stream: sim::pass and retarget.          *)

Min2(a, b) == IF a < b THEN a ELSE b

\* pending_since and last_rtp_ms against their limits are the two Booleans: has
\* the pending switch waited too long, and has the high layer been silent?
Pass(r, t, key, expired, silent) ==
    LET l == IF Info[t].rid = 2 THEN 1 ELSE Info[t].rid
        to(cur, tgt, ok) == [row |-> [r EXCEPT !.layer = cur, !.target = tgt], ok |-> ok]
        same(ok) == [row |-> r, ok |-> ok]
        demote == r.layer = 1 /\ l = 0 /\ silent
    IN CASE r.paused -> same(FALSE)
         [] ~r.paused /\ r.layer # r.target ->
              CASE r.layer # PAUSE /\ expired -> to(r.layer, r.layer, l = r.layer)
                [] ~(r.layer # PAUSE /\ expired) /\ l = r.target /\ key -> to(r.target, r.target, TRUE)
                [] r.layer = PAUSE /\ expired /\ l # r.target /\ key -> to(l, l, TRUE)
                [] OTHER -> same(l = r.layer)
         [] ~r.paused /\ r.layer = r.target ->
              CASE l = r.layer -> same(TRUE)
                [] l # r.layer /\ demote -> to(IF key THEN 0 ELSE r.layer, 0, key)
                [] OTHER -> same(FALSE)

Retarget(r) == [r EXCEPT !.target = Min2(r.cap, r.auto)]

\* The rest of forward: sim::pass for a simulcast stream, then the ring of the
\* subscriber's worker, which refuses the packet when it is full.
Forward(expired, silent) ==
    LET t == fwd.pkt.t
        v == IF StreamOf(t) \in Simulcast THEN Pass(row, t, fwd.key, expired, silent)
             ELSE [row |-> row, ok |-> TRUE]
    IN /\ fwd # NoFrame
       /\ fwd' = NoFrame
       /\ row' = v.row
       /\ ring' = IF v.ok /\ Len(ring) < RingLimit THEN Append(ring, fwd) ELSE ring
       /\ rtx' = "none"
       /\ UNCHANGED <<slot, asg, up, lost, rw, pkts, ctl, ghosts>>

----------------------------------------------------------------------------
(* The downlink: send_down and send_rtx of the subscriber's worker.         *)

FaultMap(r, p) ==
    LET seq == p.n % M
        new == r.src # p.t
        off == CASE ~new -> r.off [] new /\ r.last = None -> 0 [] OTHER -> (r.last + 1 - seq) % M
        out == (seq + off) % M
    IN [src |-> p.t, off |-> off, last |-> out, boundary |-> IF new THEN out ELSE r.boundary]

\* Rewriter::map
Map(r, p) ==
    LET seq == p.n % M
        new == r.src # p.t
        off == CASE ~new -> r.off [] new /\ r.last = None -> 0 [] OTHER -> (r.last + 1 - seq) % M
        out == (seq + off) % M
    IN [src |-> p.t, off |-> off,
        last |-> IF r.last = None \/ new \/ After(out, r.last) THEN out ELSE r.last,
        boundary |-> IF new THEN out ELSE r.boundary]

FaultUnmap(r, out) == (out - r.off) % M

\* Rewriter::unmap_nack
Unmap(r, out) == IF r.boundary # None /\ After(r.boundary, out) THEN None ELSE (out - r.off) % M

\* What the property remembers of the packet p sent with the rewriter going from rw to r.
Remember(p, key, r) ==
    LET out == (p.n + r.off) % M
        new == rw.src # p.t
    IN /\ sentAs' = [sentAs EXCEPT ![out] = p]
       /\ first' = IF new \/ first = None THEN p.n ELSE first
       /\ newest' = IF new \/ p.n > newest.n THEN [n |-> p.n, out |-> out] ELSE newest
       /\ far' = (far \/ (~new /\ p.n - newest.n >= M \div 2))
       /\ seam' = (seam /\ (new => key /\ (newest.out # None => out = (newest.out + 1) % M)))

\* A packet of another source than the last one is dropped unless it is a key
\* frame.  The packet may also meet a transport that cannot send now.
SendDown(can) ==
    LET p == Head(ring).pkt
        key == Head(ring).key
        r == Map(rw, p)
        go == can /\ (rw.src = p.t \/ key)
        switched == rw.src # p.t /\ (rw.src # "none" \/ rw.last # None)
    IN /\ ring # <<>> /\ ring' = Tail(ring)
       /\ rw' = IF go THEN r ELSE rw
       /\ row' = IF go /\ (switched \/ row.track = "none")
                 THEN [row EXCEPT !.gate = FALSE, !.track = p.t] ELSE row
       /\ IF go THEN Remember(p, key, r) ELSE UNCHANGED ghosts
       /\ rtx' = "none"
       /\ UNCHANGED <<slot, asg, up, lost, fwd, pkts, ctl>>

\* The subscriber misses a recent number and asks for it: on_rtcp, send_rtx.
Nack(out) ==
    LET seq == Unmap(rw, out)
        hit(t, n) == IF t = "none" THEN NoPkt ELSE CacheGet(up[t].cache, n % M)
        gave == IF row.gate \/ seq = None THEN NoPkt ELSE hit(row.track, seq)
        was == sentAs[out]
        owed == /\ was.t = rw.src /\ row.track = rw.src /\ asg = StreamOf(rw.src)
                /\ first # None /\ was.n >= first
                /\ hit(rw.src, was.n) = was
    IN /\ rw.last # None /\ (rw.last - out) % M < M \div 2
       /\ rtx' = CASE gave = NoPkt /\ owed -> "refused"
                   [] gave # NoPkt /\ was \notin {gave, NoPkt} -> "wrong"
                   [] OTHER -> "none"
       /\ UNCHANGED <<slot, asg, up, lost, row, rw, fwd, ring, pkts, ctl, ghosts>>

----------------------------------------------------------------------------
(* The control thread.                                                      *)

Control == ctl < MaxCtl /\ ctl' = ctl + 1

\* apply_changes: the row leaves the rows of its stream ...
Detach ==
    /\ ~slot /\ asg # "none" /\ Control
    /\ asg' = "none"
    /\ row' = [row EXCEPT !.track = "none", !.layer = PAUSE]
    /\ rtx' = "none"
    /\ UNCHANGED <<slot, up, lost, rw, fwd, ring, pkts, ghosts>>

\* ... and joins those of another.
Attach(s) ==
    /\ ~slot /\ asg = "none" /\ May(s)
    /\ asg' = s
    /\ row' = Retarget([row EXCEPT !.track = "none", !.layer = PAUSE])
    /\ rtx' = "none"
    /\ UNCHANGED <<slot, up, lost, rw, fwd, ring, pkts, ctl, ghosts>>

\* bind_media and release_media: the slot has this speaker, or none.
Speaker(s) ==
    /\ slot /\ asg # s /\ (May(s) \/ s = "none") /\ Control
    /\ asg' = s
    /\ row' = [row EXCEPT !.gate = TRUE]
    /\ first' = None /\ rtx' = "none"
    /\ UNCHANGED <<slot, up, lost, rw, fwd, ring, pkts, sentAs, newest, far, seam>>

\* subscribe_layer with a new cap or pause, and the automatic layer of sim::tick,
\* which only looks at rows with a source.
Steer(cap, auto, paused) ==
    LET r == [row EXCEPT !.cap = cap, !.auto = auto, !.paused = paused]
    IN /\ asg \in Simulcast /\ r # row /\ Control
       /\ auto # row.auto => row.track # "none" /\ cap = row.cap /\ paused = row.paused
       /\ row' = Retarget(r)
       /\ rtx' = "none"
       /\ UNCHANGED <<slot, asg, up, lost, rw, fwd, ring, pkts, ghosts>>

Next ==
    \/ pkts < MaxPkt /\ \E t \in Tracks : Lose(t) \/ \E key \in BOOLEAN : Receive(t, key)
    \/ \E p \in lost, key \in BOOLEAN : Repair(p, key)
    \/ fwd # NoFrame /\ \E expired, silent \in BOOLEAN : Forward(expired, silent)
    \/ \E can \in BOOLEAN : SendDown(can)
    \/ \E out \in 0 .. M - 1 : Nack(out)
    \/ Detach
    \/ \E s \in Streams : Attach(s)
    \/ ctl < MaxCtl /\ \E s \in Streams \cup {"none"} : Speaker(s)
    \/ ctl < MaxCtl /\ \E cap, auto \in {0, 1}, paused \in BOOLEAN : Steer(cap, auto, paused)

Spec == Init /\ [][Next]_vars

----------------------------------------------------------------------------
(* Properties.                                                              *)

DownlinkTypeOK ==
    /\ asg \in Streams \cup {"none"}
    /\ row.layer \in {0, 1, PAUSE} /\ row.target \in {0, 1}
    /\ row.track \in Tracks \cup {"none"} /\ rw.src \in Tracks \cup {"none"}
    /\ rw.last \in -1 .. M - 1 /\ rw.off \in 0 .. M - 1
    /\ Len(ring) <= RingLimit
    /\ row.track # "none" => row.track = rw.src

\* Rewriter::map, send_down: wherever the source of the row changes, the outgoing
\* stream goes on with the number after the newest one sent, and with a key
\* frame, however late or repaired packets came before.  The source must not
\* have been silent on the row for half the range of numbers (far).
SwitchFollows == far \/ seam

\* send_rtx: a retransmission under a number carries the packet last sent under
\* it, never one of another source, whatever switched between the two.
RtxFaithful == rtx # "wrong"

\* send_rtx, as documented: the server answers a request for a packet it sent
\* from the source of the row, since that source came on the row or since its
\* user last got the floor, while the packet is still in the cache.
NackAnswered == rtx # "refused"
=============================================================================
