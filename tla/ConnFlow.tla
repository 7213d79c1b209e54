------------------------------ MODULE ConnFlow ------------------------------
(***************************************************************************)
(* The writer of a client's WebSocket in the hub (oxhubd/src/ses/conn.rs   *)
(* Writer, serve): notices wait in lanes and go out while fewer than       *)
(* Window of them are unanswered; replies go out at once; a connection     *)
(* that is cut gets a LEAVE first.                                         *)
(*                                                                         *)
(* Other tasks hand the writer work through an unbounded channel (rx).     *)
(* The client answers notices in any order, or never.  A notice is         *)
(* [lane, n], the n-th of its lane.                                        *)
(***************************************************************************)
EXTENDS Integers, Sequences, FiniteSets, Functions, SequencesExt

CONSTANTS Lanes,            \* number of lanes, the first goes first
          Window,           \* ws_flow_window
          QueueMax,         \* QUEUE_MAX
          AckTime,          \* T_ACK
          MaxNotice, MaxOut   \* bounds: notices of a lane, other items

VARIABLES
    rx,               \* the channel to the writer
    lanes, inflight,  \* Writer: waiting notices, and for each unanswered one its age
    nextPid,
    wire,             \* frames sent to the client
    writer,           \* "run", or why it ended: "left", "closed", "broken"
    leaveCode,        \* leave_code
    answered,         \* notices the client answered
    offered, outs     \* notices handed to the writer, by lane; other items so far

vars == <<rx, lanes, inflight, nextPid, wire, writer, leaveCode, answered, offered, outs>>

Lane == 1 .. Lanes
None == "none"
Frame(kind, lane, n, pid) == [kind |-> kind, lane |-> lane, n |-> n, pid |-> pid]

Init ==
    /\ rx = <<>> /\ lanes = [l \in Lane |-> <<>>] /\ inflight = <<>> /\ nextPid = 1
    /\ wire = <<>> /\ writer = "run" /\ leaveCode = None /\ answered = {}
    /\ offered = [l \in Lane |-> 0] /\ outs = 0

----------------------------------------------------------------------------
(* The tasks that hand out work; after the writer ended the channel is closed. *)

Offer(l) ==
    /\ writer = "run" /\ offered[l] < MaxNotice
    /\ offered' = [offered EXCEPT ![l] = @ + 1]
    /\ rx' = Append(rx, [kind |-> "notice", lane |-> l, n |-> offered[l] + 1])
    /\ UNCHANGED <<lanes, inflight, nextPid, wire, writer, leaveCode, answered, outs>>

\* A reply to a request, a LEAVE of the hub, or the end of the reader.
Hand(kind) ==
    /\ writer = "run" /\ outs < MaxOut /\ outs' = outs + 1
    /\ rx' = Append(rx, [kind |-> kind, lane |-> 0, n |-> 0])
    /\ UNCHANGED <<lanes, inflight, nextPid, wire, writer, leaveCode, answered, offered>>

\* The client answers a notice; the reader passes the answer on.
Answer(pid) ==
    /\ writer = "run" /\ pid \notin answered
    /\ answered' = answered \cup {pid}
    /\ rx' = Append(rx, [kind |-> "ack", lane |-> 0, n |-> pid])
    /\ UNCHANGED <<lanes, inflight, nextPid, wire, writer, leaveCode, offered, outs>>

----------------------------------------------------------------------------
(* The writer                                                               *)

Queued(q) == FoldLeft(LAMBDA s, l : s + Len(q[l]), 0, [l \in Lane |-> l])

\* The state of the writer that its loop changes.
W == [lanes |-> lanes, inflight |-> inflight, pid |-> nextPid, wire |-> wire]

\* Writer::next and Writer::pid: the first notice of the first lane that has one.
SendOne(w) ==
    LET l == CHOOSE l \in Lane : w.lanes[l] # <<>> /\ \A k \in 1 .. l - 1 : w.lanes[k] = <<>> IN
    [lanes |-> [w.lanes EXCEPT ![l] = Tail(@)],
     inflight |-> [p \in DOMAIN w.inflight \cup {w.pid} |-> IF p = w.pid THEN 0 ELSE w.inflight[p]],
     pid |-> w.pid + 1,
     wire |-> Append(w.wire, Frame("notice", l, w.lanes[l][1].n, w.pid))]

\* The loop at the end of every turn: notices go out while the window is open.
RECURSIVE Flush(_)
Flush(w) ==
    IF Cardinality(DOMAIN w.inflight) < Window /\ \E l \in Lane : w.lanes[l] # <<>>
    THEN Flush(SendOne(w)) ELSE w

Becomes(w) == lanes' = w.lanes /\ inflight' = w.inflight /\ nextPid' = w.pid /\ wire' = w.wire

\* send_leave: the LEAVE and the end of the socket.
SendLeave(w) == [w EXCEPT !.pid = @ + 1, !.wire = Append(@, Frame("leave", 0, 0, w.pid))]

\* Leave the connection: the first reason stays, but for an overflow.
Cut(w, code, replace) ==
    /\ Becomes(SendLeave(w)) /\ writer' = "left"
    /\ leaveCode' = IF leaveCode = None \/ replace THEN code ELSE leaveCode

\* A notice: it waits in its lane, and too many waiting cut the connection.
OnNotice(o) ==
    LET w == [W EXCEPT !.lanes[o.lane] = Append(@, o)] IN
    IF Queued(w.lanes) > QueueMax THEN Cut(w, "FlowOverflow", TRUE)
    ELSE Becomes(Flush(w)) /\ UNCHANGED <<writer, leaveCode>>

OnReply == Becomes(Flush([W EXCEPT !.wire = Append(@, Frame("reply", 0, 0, 0))])) /\ UNCHANGED <<writer, leaveCode>>

\* The loop for notices does not run after an answer.
FaultOnAck(pid) ==
    Becomes([W EXCEPT !.inflight = Restrict(@, DOMAIN @ \ {pid})]) /\ UNCHANGED <<writer, leaveCode>>

\* An answer makes room in the window.
OnAck(pid) ==
    Becomes(Flush([W EXCEPT !.inflight = Restrict(@, DOMAIN @ \ {pid})])) /\ UNCHANGED <<writer, leaveCode>>

\* One turn of the loop for an item of the channel.
Turn ==
    LET o == rx[1] IN
    /\ writer = "run" /\ rx # <<>> /\ rx' = Tail(rx)
    /\ \/ o.kind = "notice" /\ OnNotice(o)
       \/ o.kind = "reply" /\ OnReply
       \/ o.kind = "ack" /\ OnAck(o.n)
       \/ o.kind = "leave" /\ Cut(W, "Cut", FALSE)
       \/ o.kind = "close" /\ writer' = "closed" /\ UNCHANGED <<lanes, inflight, nextPid, wire, leaveCode>>
    /\ UNCHANGED <<answered, offered, outs>>

\* One turn for the clock: an answer that is overdue cuts the connection.
Overdue ==
    /\ writer = "run" /\ \E p \in DOMAIN inflight : inflight[p] > AckTime
    /\ Cut(W, "FlowTimeout", FALSE)
    /\ UNCHANGED <<rx, answered, offered, outs>>

\* Sending fails: the writer ends without a word.
Broken ==
    /\ writer = "run" /\ rx # <<>> /\ rx[1].kind \in {"notice", "reply", "ack"}
    /\ writer' = "broken" /\ rx' = Tail(rx)
    /\ UNCHANGED <<lanes, inflight, nextPid, wire, leaveCode, answered, offered, outs>>

\* Time passes, no further than the clock of the writer lets it.
Age ==
    /\ writer = "run" /\ DOMAIN inflight # {} /\ \A p \in DOMAIN inflight : inflight[p] <= AckTime
    /\ inflight' = [p \in DOMAIN inflight |-> inflight[p] + 1]
    /\ UNCHANGED <<rx, lanes, nextPid, wire, writer, leaveCode, answered, offered, outs>>

Next ==
    \/ \E l \in Lane : Offer(l)
    \/ \E kind \in {"reply", "leave", "close"} : Hand(kind)
    \/ \E i \in DOMAIN wire : wire[i].kind = "notice" /\ Answer(wire[i].pid)
    \/ Turn \/ Overdue \/ Broken \/ Age

Spec == Init /\ [][Next]_vars

----------------------------------------------------------------------------
(* Properties                                                               *)

FlowTypeOK ==
    /\ writer \in {"run", "left", "closed", "broken"}
    /\ leaveCode \in {None, "Cut", "FlowOverflow", "FlowTimeout"}
    /\ DOMAIN inflight \subseteq 1 .. nextPid - 1

\* The notices of lane l in a sequence of frames or of channel items.
Of(s, l) == SelectSeq(s, LAMBDA f : f.kind = "notice" /\ f.lane = l)
Numbers(s) == [i \in DOMAIN s |-> s[i].n]

\* Writer and serve: while the connection lasts no notice is lost, sent twice or
\* overtaken in its lane, and notices wait only while the window is used up by
\* notices the client has not answered; on the wire nothing comes after a LEAVE, and
\* a connection that was cut got one.
NoticesFlow ==
    /\ \A l \in Lane :
          LET all == Numbers(Of(wire, l)) \o Numbers(lanes[l]) \o Numbers(Of(rx, l)) IN
          writer = "run" => all = [i \in 1 .. offered[l] |-> i]
    /\ \A l \in Lane : Numbers(Of(wire, l)) = [i \in 1 .. Len(Of(wire, l)) |-> i]
    /\ Cardinality(DOMAIN inflight) <= Window
    /\ writer = "run" /\ (\E l \in Lane : lanes[l] # <<>>) => Cardinality(DOMAIN inflight) = Window
    /\ {wire[i].pid : i \in {j \in DOMAIN wire : wire[j].kind = "notice"}} \ answered \subseteq DOMAIN inflight
    /\ \A i \in DOMAIN wire : wire[i].kind = "leave" => i = Len(wire)
    /\ (writer = "left") = (leaveCode # None)
    /\ writer = "left" => wire[Len(wire)].kind = "leave"
=============================================================================
