------------------------------ MODULE MCClient ------------------------------
(***************************************************************************)
(* What serves the clients, for model checking: sessions and sockets in    *)
(* the hub, rooms, subscriptions and media in the media server.  These     *)
(* state machines share no variable in the model, so each behaviour        *)
(* follows one of them (focus); the variables of the others are not in use *)
(* (Off).                                                                  *)
(***************************************************************************)
EXTENDS Integers, Sequences, FiniteSets, TLC

CONSTANTS Focus,                                              \* the components to follow
          h1, h2, k1, k2

CONSTANTS Hubs, Users, Conns, MaxCmd,                         \* HubSessions
          Lanes, Window, QueueMax, AckTime, MaxNotice, MaxOut, \* ConnFlow
          Rooms,                                              \* RoomLife and Tracks
          Threads, Sids, Capacity, Start, MaxRoomOp,          \* RoomLife
          TrackInfo, RoomCodec, FullCap, SlotBudget, RowLimit, Home, Early, MaxTrackOp,   \* Tracks
          Info, Simulcast, Slot, M, Cache, RingLimit, MaxPkt, MaxCtl,                     \* Downlink
          Trs, Addrs, CmdLimit, MaxUfrag,                     \* Link
          Froms, RingCap, Limit, Weights, MaxPush,            \* Worker
          UpM, UpFirst, Span, NackMax, Resend, GiveUp, Throttle, MaxUp, MaxUpNow,         \* Uplink
          FbM, FbFirst, MinSequential, Dropout, Misorder, DeltaUnit, Reference, DeltaMax, Keep,
          MaxFb, MaxNet, MaxLoss, MaxFbNow                    \* Feedback

VARIABLES obj, bySid, byUser, toks, interest, conn, member, gone, sids, spent, handed,
          late, drops
VARIABLES rx, lanes, inflight, nextPid, wire, writer, leaveCode, answered, offered, outs
VARIABLES rooms, roomInst, peerOf, peer, load, tokens, told, roomThr, roomOps, clash,
          fell
VARIABLES str, fan, pubRoom, tabs, cur, roster, floor, cli, msgs, thr, ops, mixed,
          stray, hushed
VARIABLES slot, asg, up, lost, row, rw, fwd, ring, pkts, ctl, sentAs, first, newest,
          far, seam, rtx
VARIABLES creds, open, path, state, recvCmds, byUfrag, byAddr, check, linkCtl, given,
          owner, crossed
VARIABLES rings, queued, sleeping, token, prod, work, pushes
VARIABLES now, sent, net, nack, pli, asked, got, passed, quit, owed, fires
VARIABLES fbNow, fbSent, fbNet, recv, twcc, countedPkts, origin, seen, heard
VARIABLE focus

sesVars == <<obj, bySid, byUser, toks, interest, conn, member, gone, sids, spent, handed, late, drops>>
flowVars == <<rx, lanes, inflight, nextPid, wire, writer, leaveCode, answered, offered, outs>>
roomVars == <<rooms, roomInst, peerOf, peer, load, tokens, told, roomThr, roomOps, clash, fell>>
trkVars == <<str, fan, pubRoom, tabs, cur, roster, floor, cli, msgs, thr, ops, mixed, stray, hushed>>
downVars == <<slot, asg, up, lost, row, rw, fwd, ring, pkts, ctl, sentAs, first, newest, far, seam, rtx>>
linkVars == <<creds, open, path, state, recvCmds, byUfrag, byAddr, check, linkCtl, given, owner, crossed>>
workVars == <<rings, queued, sleeping, token, prod, work, pushes>>
upVars == <<now, sent, net, nack, pli, asked, got, passed, quit, owed, fires>>
fbVars == <<fbNow, fbSent, fbNet, recv, twcc, countedPkts, origin, seen, heard>>

Ses == INSTANCE HubSessions
Flow == INSTANCE ConnFlow
Room == INSTANCE RoomLife WITH MaxOp <- MaxRoomOp,
                               inst <- roomInst, thr <- roomThr, ops <- roomOps
Trk == INSTANCE Tracks WITH Info <- TrackInfo, MaxOp <- MaxTrackOp
Down == INSTANCE Downlink
Net == INSTANCE Link WITH cmds <- recvCmds, ctl <- linkCtl
Wrk == INSTANCE Worker
Up == INSTANCE Uplink WITH M <- UpM, First <- UpFirst, MaxPkt <- MaxUp, MaxNow <- MaxUpNow
Fb == INSTANCE Feedback WITH M <- FbM, First <- FbFirst, MaxPkt <- MaxFb, MaxNow <- MaxFbNow,
                             now <- fbNow, sent <- fbSent, net <- fbNet, counted <- countedPkts

\* The instance is one the proofs are about.
ASSUME ProvedBounds == Net!LinkBounds /\ Wrk!WorkerBounds /\ Ses!SessionBounds

----------------------------------------------------------------------------
(* The instances.                                                          *)

\* Two users in the room on the first hub; one of them comes again, on either.
MCConns ==
    <<[user |-> "u1", hubs |-> {h1}, start |-> "joined"],
      [user |-> "u2", hubs |-> {h1}, start |-> "joined"],
      [user |-> "u1", hubs |-> {h1, h2}, start |-> "new"]>>

\* One user in both rooms, who may come back in a second session; the rooms are full.
MCSids == [u1 |-> <<1, 2>>, u2 |-> <<3>>]
MCStart == [r1 |-> {"u1"}, r2 |-> {"u1"}]

\* Two publishers in rooms of different codecs, one row for each kind.
MCTrackInfo ==
    [a |-> [user |-> "u1", kind |-> "audio", codec |-> "opus", sim |-> FALSE],
     v |-> [user |-> "u1", kind |-> "video", codec |-> "H264", sim |-> FALSE],
     w |-> [user |-> "u2", kind |-> "video", codec |-> "VP8", sim |-> TRUE]]
MCRoomCodec == [r1 |-> "H264", r2 |-> "VP8"]
MCFullCap == [audio |-> 1, video |-> 1]
MCHome == [u1 |-> "r1", u2 |-> "r2"]
MCEarly == {{}, {"a", "v"}, {"v", "w"}}

\* A simulcast stream and a plain one, and two half-duplex ones for a slot.
MCTrack(s, half, rid, from) == [stream |-> s, half |-> half, rid |-> rid, from |-> from]
MCInfo ==
    [h |-> MCTrack("s1", FALSE, 1, 3), l |-> MCTrack("s1", FALSE, 0, 0), x |-> MCTrack("s2", FALSE, 2, 5),
     p |-> MCTrack("s3", TRUE, 2, 3), q |-> MCTrack("s4", TRUE, 2, 0)]

Symmetry == Permutations(Threads)

----------------------------------------------------------------------------
Off == "off"

sesOff == /\ obj = Off /\ bySid = Off /\ byUser = Off /\ toks = Off /\ interest = Off /\ conn = Off
          /\ member = Off /\ gone = Off /\ sids = Off /\ spent = Off /\ handed = Off /\ late = Off
          /\ drops = Off
flowOff == /\ rx = Off /\ lanes = Off /\ inflight = Off /\ nextPid = Off /\ wire = Off /\ writer = Off
           /\ leaveCode = Off /\ answered = Off /\ offered = Off /\ outs = Off
roomOff == /\ rooms = Off /\ roomInst = Off /\ peerOf = Off /\ peer = Off /\ load = Off /\ tokens = Off
           /\ told = Off /\ roomThr = Off /\ roomOps = Off /\ clash = Off /\ fell = Off
trkOff == /\ str = Off /\ fan = Off /\ pubRoom = Off /\ tabs = Off /\ cur = Off /\ roster = Off
          /\ floor = Off /\ cli = Off /\ msgs = Off /\ thr = Off /\ ops = Off /\ mixed = Off
          /\ stray = Off /\ hushed = Off
downOff == /\ slot = Off /\ asg = Off /\ up = Off /\ lost = Off /\ row = Off /\ rw = Off /\ fwd = Off
           /\ ring = Off /\ pkts = Off /\ ctl = Off /\ sentAs = Off /\ first = Off /\ newest = Off
           /\ far = Off /\ seam = Off /\ rtx = Off
linkOff == /\ creds = Off /\ open = Off /\ path = Off /\ state = Off /\ recvCmds = Off /\ byUfrag = Off
           /\ byAddr = Off /\ check = Off /\ linkCtl = Off /\ given = Off /\ owner = Off /\ crossed = Off
workOff == /\ rings = Off /\ queued = Off /\ sleeping = Off /\ token = Off /\ prod = Off /\ work = Off
           /\ pushes = Off
upOff == /\ now = Off /\ sent = Off /\ net = Off /\ nack = Off /\ pli = Off /\ asked = Off /\ got = Off
         /\ passed = Off /\ quit = Off /\ owed = Off /\ fires = Off
fbOff == /\ fbNow = Off /\ fbSent = Off /\ fbNet = Off /\ recv = Off /\ twcc = Off /\ countedPkts = Off
         /\ origin = Off /\ seen = Off /\ heard = Off

Init ==
    /\ focus \in Focus
    /\ IF focus = "ses" THEN Ses!Init ELSE sesOff
    /\ IF focus = "flow" THEN Flow!Init ELSE flowOff
    /\ IF focus = "room" THEN Room!Init ELSE roomOff
    /\ IF focus = "trk" THEN Trk!Init ELSE trkOff
    /\ IF focus = "down" THEN Down!Init ELSE downOff
    /\ IF focus = "link" THEN Net!Init ELSE linkOff
    /\ IF focus = "work" THEN Wrk!Init ELSE workOff
    /\ IF focus = "up" THEN Up!Init ELSE upOff
    /\ IF focus = "fb" THEN Fb!Init ELSE fbOff

Next ==
    \/ /\ focus = "ses" /\ Ses!Next
       /\ UNCHANGED <<focus, flowVars, roomVars, trkVars, downVars, linkVars, workVars, upVars, fbVars>>
    \/ /\ focus = "flow" /\ Flow!Next
       /\ UNCHANGED <<focus, sesVars, roomVars, trkVars, downVars, linkVars, workVars, upVars, fbVars>>
    \/ /\ focus = "room" /\ Room!Next
       /\ UNCHANGED <<focus, sesVars, flowVars, trkVars, downVars, linkVars, workVars, upVars, fbVars>>
    \/ /\ focus = "trk" /\ Trk!Next
       /\ UNCHANGED <<focus, sesVars, flowVars, roomVars, downVars, linkVars, workVars, upVars, fbVars>>
    \/ /\ focus = "down" /\ Down!Next
       /\ UNCHANGED <<focus, sesVars, flowVars, roomVars, trkVars, linkVars, workVars, upVars, fbVars>>
    \/ /\ focus = "link" /\ Net!Next
       /\ UNCHANGED <<focus, sesVars, flowVars, roomVars, trkVars, downVars, workVars, upVars, fbVars>>
    \/ /\ focus = "work" /\ Wrk!Next
       /\ UNCHANGED <<focus, sesVars, flowVars, roomVars, trkVars, downVars, linkVars, upVars, fbVars>>
    \/ /\ focus = "up" /\ Up!Next
       /\ UNCHANGED <<focus, sesVars, flowVars, roomVars, trkVars, downVars, linkVars, workVars, fbVars>>
    \/ /\ focus = "fb" /\ Fb!Next
       /\ UNCHANGED <<focus, sesVars, flowVars, roomVars, trkVars, downVars, linkVars, workVars, upVars>>

vars == <<focus, sesVars, flowVars, roomVars, trkVars, downVars, linkVars, workVars, upVars, fbVars>>

Spec == Init /\ [][Next]_vars

----------------------------------------------------------------------------
(* The properties of the components.                                       *)

\* The state of the component is of its type; among other things a session's
\* socket is one of its own user, and credentials belong to one transport.
ClientTypesOK ==
    CASE focus = "ses" -> Ses!SessionsTypeOK
      [] focus = "flow" -> Flow!FlowTypeOK
      [] focus = "room" -> Room!RoomsTypeOK
      [] focus = "trk" -> Trk!TracksTypeOK
      [] focus = "down" -> Down!DownlinkTypeOK
      [] focus = "link" -> Net!LinkTypeOK
      [] focus = "work" -> Wrk!WorkerTypeOK
      [] focus = "up" -> Up!UplinkTypeOK
      [] focus = "fb" -> Fb!FeedbackTypeOK

\* interest_room: the subscription outlives every session that needs it.
InterestHeld == focus = "ses" => Ses!InterestHeld

\* The same also after a session was handed over to another hub.
InterestKept == focus = "ses" => Ses!InterestKept

\* dispose and SessionGone: no member without a session, but for two known causes.
NoGhost == focus = "ses" => Ses!NoGhost

\* socket_dropped and sweep: every session can be reclaimed.
NoOrphan == focus = "ses" => Ses!NoOrphan

\* hand_over: a session id lives on one hub at a time.
OneHome == focus = "ses" => Ses!OneHome

\* Writer: notices flow in order while the client answers; a cut comes with a LEAVE.
NoticesFlow == focus = "flow" => Flow!NoticesFlow

\* join, leave, reap: rosters, peers and what the members were told agree at rest.
RosterSettles == focus = "room" => Room!RosterSettles

\* full_for and Room::join: only joins that run at once exceed the capacity of a room.
CapacityBound == focus = "room" => Room!CapacityBound

\* reap and destroy_room: worker loads and room tokens are given back.
NothingLeaks == focus = "room" => Room!NothingLeaks

\* DownRow::open: media flows on a row only as the subscriber has acknowledged it.
OpenMeansAcked == focus = "trk" => Trk!OpenMeansAcked

\* resync_peer and apply_changes: the subscriber and the streams follow its table.
SubscriptionSettles == focus = "trk" => Trk!SubscriptionSettles

\* Rewriter::map: a source switch goes on with the next number and a key frame.
SwitchFollows == focus = "down" => Down!SwitchFollows

\* send_rtx: a retransmission is the packet last sent under its number.
RtxFaithful == focus = "down" => Down!RtxFaithful

\* send_rtx, as documented: the server answers a request for a packet it has.
NackAnswered == focus = "down" => Down!NackAnswered

\* recv_loop: the receive thread knows exactly the live credentials.
IndexExact == focus = "link" => Net!IndexExact

\* Worker::push: no wake-up of a sleeping worker is lost.
NoLostWake == focus = "work" => Wrk!NoLostWake

\* NackUp and request_pli: every gap is pursued, every need for a key frame is served.
GapsPursued == focus = "up" => Up!GapsPursued

\* RecvStats and TwccRecv: what the publisher is told of its packets is true.
ReportsTrue == focus = "fb" => Fb!ReportsTrue
=============================================================================
