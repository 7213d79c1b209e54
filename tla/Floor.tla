------------------------------- MODULE Floor -------------------------------
(***************************************************************************)
(* The floor-control decision logic of one room: `Floor` in                *)
(* crates/oxsfud/src/flr/core.rs.  It is a pure state machine: the caller  *)
(* (ops/floor.rs) runs one operation at a time under the room's floor      *)
(* lock, so each public operation of `Floor` is one action here.           *)
(*                                                                         *)
(* Two machines run in lock step.  The ARBITER (g, speaker, revoking,      *)
(* queue ...) decides who holds the floor; one PARTICIPANT machine per     *)
(* user (parts) decides what that user is told.  The arbiter never talks   *)
(* to a user directly: it hands an event to the participant, which may     *)
(* ignore it (PartA).                                                      *)
(*                                                                         *)
(* Definitions named Fault... are not part of the model.  Each is a        *)
(* plausible slip in the definition that follows it; TLC shows that the    *)
(* properties notice it (see README.md).                                   *)
(*                                                                         *)
(* Abstracted: message sequence numbers, revoke and deny causes,           *)
(* the queue position and the remaining-time fields of messages, the case  *)
(* labels, and who a TAKEN or IDLE message names.                          *)
(***************************************************************************)
EXTENDS Integers, Sequences, FiniteSets, Functions, FiniteSetsExt

CONSTANTS Users,              \* user ids
          NoUser,             \* Rust's None for Option<String>
          Prios,              \* priorities a REQUEST may carry
          QMax,               \* policy floor.queue_max
          C7, C8, C20, C21    \* retransmission limits of oxsig::floor::timers

ASSUME UsersAssumption == NoUser \notin Users
ASSUME PriosAssumption == Prios \subseteq Nat
ASSUME BoundsAssumption == /\ QMax \in Nat \ {0}
                           /\ C7 \in Nat /\ C8 \in Nat /\ C20 \in Nat /\ C21 \in Nat

VARIABLES
  g,          \* arbiter state
  speaker,    \* who is granted, in Taken
  sprio,      \* the speaker's priority
  revoking,   \* whose floor is being taken back, in Prevoke
  rprio,      \* priority of `revoking`
  queue,      \* waiters, best first
  succ,       \* the grant came from the queue
  rtpSeen,    \* the successor's media was seen: stops T20
  firstRtp,   \* the speaker's media was seen: starts T2
  c20, c7,    \* GRANTED and IDLE retransmissions made
  idleBcast,  \* the room was told IDLE by a release
  prev,       \* the previous speaker
  members,    \* users in the room
  parts,      \* the participant machines
  out,        \* messages the last operation sent
  fx          \* the media effect the last operation asked for

arbVars  == <<g, speaker, sprio, revoking, rprio, prev>>
timeVars == <<succ, rtpSeen, firstRtp, c20, c7, idleBcast>>
vars == <<arbVars, timeVars, queue, members, parts, out, fx>>

GStates == {"Idle", "Taken", "Prevoke"}
PStates == {"None", "NpIdle", "NpTaken", "Permitted", "Prevoke", "NpSends", "Releasing"}
MsgTypes == {"Granted", "Taken", "Deny", "Idle", "Revoke", "Qinfo", "Ack"}

Waiter == [u : Users, p : Prios, pre : BOOLEAN]
Part == [part : PStates, pubRoom : BOOLEAN, perm : BOOLEAN, retry : BOOLEAN,
         released : BOOLEAN, gTaken : BOOLEAN, c8 : Nat, c21 : Nat]
Message == [to : Users, t : MsgTypes]
Effect == [t : {"Bind"}, u : Users] \cup [t : {"Release"}, u : Users \cup {NoUser}]
            \cup {[t |-> "None", u |-> NoUser]}

NewPart == [part |-> "None", pubRoom |-> FALSE, perm |-> FALSE, retry |-> FALSE,
            released |-> FALSE, gTaken |-> FALSE, c8 |-> 0, c21 |-> 0]
NoFx == [t |-> "None", u |-> NoUser]
Bind(u) == [t |-> "Bind", u |-> u]
Release(u) == [t |-> "Release", u |-> u]

-----------------------------------------------------------------------------
(* Reading the state *)

FaultHolder == IF g = "Taken" THEN speaker ELSE NoUser

Holder == CASE g = "Taken" -> speaker
            [] g = "Prevoke" -> revoking
            [] g = "Idle" -> NoUser

HolderPrio == IF g = "Taken" THEN sprio ELSE rprio
Alone == Cardinality(members) <= 1
IsSpeaker(u) == g = "Taken" /\ speaker = u
IsRevoked(u) == g = "Prevoke" /\ revoking = u

InQ(q, u) == \E i \in 1..Len(q) : q[i].u = u
PreQ(q) == \E i \in 1..Len(q) : q[i].pre

FaultQFull == Len(queue) > QMax
QFull == Len(queue) >= QMax

FaultDequeue(q, u) == q

\* `retain(|w| w.u != u)`: a user waits at most once (WaitersDistinct), so dropping
\* the first match drops every match.
Dequeue(q, u) == IF ~InQ(q, u) THEN q
                 ELSE LET i == Min({k \in 1..Len(q) : q[k].u = u})
                      IN  SubSeq(q, 1, i - 1) \o SubSeq(q, i + 1, Len(q))

FaultBefore(w, x) == (w.pre /\ ~x.pre) \/ (w.pre = x.pre /\ w.p >= x.p)
FaultBeforeLow(w, x) == (w.pre /\ ~x.pre) \/ (w.pre = x.pre /\ w.p < x.p)

Before(w, x) == (w.pre /\ ~x.pre) \/ (w.pre = x.pre /\ w.p > x.p)

FaultInsertQ(q, w) == Append(q, w)

InsertQ(q, w) == LET i == Min({k \in 1..Len(q) : Before(w, q[k])} \cup {Len(q) + 1})
                 IN  SubSeq(q, 1, i - 1) \o <<w>> \o SubSeq(q, i, Len(q))

-----------------------------------------------------------------------------
(* The participant machine *)

\* Entering a participant state.
EnterR(p, to) ==
  CASE to = "NpIdle"    -> [p EXCEPT !.part = to, !.gTaken = FALSE, !.c21 = 0]
    [] to = "NpTaken"   -> [p EXCEPT !.part = to, !.gTaken = TRUE, !.c21 = 1]
    [] to = "Permitted" -> [p EXCEPT !.part = to, !.released = FALSE, !.c21 = 0]
    [] OTHER            -> [p EXCEPT !.part = to, !.c8 = 1, !.c21 = 0]

\* A user who was told to stop sending only keeps track of the floor.
FaultNpSendsA(p, t) == p
NpSendsA(p, t) == IF t \in {"Idle", "Taken"} THEN [p EXCEPT !.gTaken = (t = "Taken")] ELSE p

\* The participant's next state when the arbiter tells it t ...
PartA(p, t) ==
  CASE t = "Granted" /\ p.part \in {"NpIdle", "NpTaken"} -> EnterR(p, "Permitted")
    [] t = "Taken" /\ p.part \in {"NpIdle", "Permitted", "Prevoke"} -> EnterR(p, "NpTaken")
    [] t = "Taken" /\ p.part = "NpTaken" -> [p EXCEPT !.c21 = 1]
    [] t = "Idle" /\ p.part \in {"NpTaken", "Permitted", "Prevoke"} -> EnterR(p, "NpIdle")
    [] t = "Revoke" /\ p.part = "Permitted" -> EnterR(p, "Prevoke")
    [] p.part \in {"None", "NpSends"} -> NpSendsA(p, t)
    [] OTHER -> p

\* ... and whether the user hears of it.
PartASends(p, t) ==
  CASE t \in {"Qinfo", "Deny"} -> TRUE
    [] t = "Granted" -> p.part \in {"NpIdle", "NpTaken", "Permitted"}
    [] t = "Taken"   -> p.part \in {"NpIdle", "NpTaken", "Permitted", "Prevoke"}
    [] t = "Idle"    -> p.part \in {"NpIdle", "NpTaken", "Prevoke"}
    [] t = "Revoke"  -> p.part = "Permitted"
    [] OTHER -> FALSE

Send(u, t) == {[to |-> u, t |-> t]}
PartAOut(ps, S, t) == {[to |-> u, t |-> t] : u \in {v \in S : PartASends(ps[v], t)}}

Fan(ps, t, S) == [u \in Users |-> IF u \in S THEN PartA(ps[u], t) ELSE ps[u]]

-----------------------------------------------------------------------------
(* The arbiter's entries into its states.  Those that end a tenure take     *)
(* the queue q and the participants ps as the operation has left them so   *)
(* far, and leave parts' and members' to the operation.                    *)

EnterTakenParts(ps, sp) ==
  [Fan(ps, "Taken", members \ {sp}) EXCEPT ![sp] = PartA(ps[sp], "Granted")]
FaultEnterTakenOut(ps, sp) == PartAOut(ps, {sp}, "Granted")
EnterTakenOut(ps, sp) ==
  PartAOut(ps, members \ {sp}, "Taken") \cup PartAOut(ps, {sp}, "Granted")

EnterTaken(sp, p, o) ==
  /\ g' = "Taken" /\ speaker' = sp /\ sprio' = p
  /\ rtpSeen' = FALSE /\ firstRtp' = FALSE
  /\ idleBcast' = FALSE
  /\ out' = o /\ fx' = Bind(sp)
  /\ UNCHANGED <<rprio, c7>>

\* The participants after idle_enter: IDLE to all, or a succession.
IdleParts(q, ps) == IF q = <<>> THEN Fan(ps, "Idle", members)
                                ELSE EnterTakenParts(ps, Head(q).u)

\* `idle_enter`: the tenure of `last` is over.  `said` went out before.
IdleEnter(q, ps, last, said) ==
  /\ prev' = last
  /\ revoking' = NoUser
  /\ \/ /\ q = <<>>
        /\ g' = "Idle" /\ speaker' = NoUser
        /\ firstRtp' = FALSE /\ idleBcast' = TRUE /\ c7' = 1
        /\ out' = said \cup PartAOut(ps, members, "Idle")
        /\ fx' = Release(last)
        /\ queue' = q
        /\ UNCHANGED <<sprio, rprio, succ, rtpSeen, c20>>
     \/ /\ q # <<>>
        /\ queue' = Tail(q)
        /\ succ' = TRUE /\ c20' = 1
        /\ EnterTaken(Head(q).u, Head(q).p, said \cup EnterTakenOut(ps, Head(q).u))

\* `prevoke_enter`: the floor of u is being taken back; u is told REVOKE.
PrevokeEnter(u) ==
  /\ g' = "Prevoke" /\ revoking' = u /\ rprio' = sprio /\ speaker' = NoUser
  /\ UNCHANGED <<sprio, prev>>

\* An operation that leaves the arbiter alone and sends o.
Say(o) == /\ out' = o /\ fx' = NoFx
          /\ UNCHANGED <<arbVars, timeVars, members>>

Reply(o) == Say(o) /\ UNCHANGED <<queue, parts>>

-----------------------------------------------------------------------------
(* A REQUEST *)

Admitted(u, half) == u \in members /\ half /\ parts[u].pubRoom /\ parts[u].perm

ArbReqIdle(u, p) ==
  \/ /\ g # "Idle"
     /\ Reply({})
  \/ /\ g = "Idle"
     /\ Alone \/ parts[u].retry
     /\ Reply(Send(u, "Deny"))
  \/ /\ g = "Idle"
     /\ ~Alone /\ ~parts[u].retry
     /\ EnterTaken(u, p, EnterTakenOut(parts, u))
     /\ succ' = FALSE /\ c20' = 0
     /\ parts' = EnterTakenParts(parts, u)
     /\ UNCHANGED <<revoking, prev, queue, members>>

ArbPreempt(u, p) ==
  /\ queue' = <<[u |-> u, p |-> p, pre |-> TRUE]>> \o queue
  /\ PrevokeEnter(speaker)
  /\ parts' = [parts EXCEPT ![speaker] = PartA(@, "Revoke")]
  /\ out' = PartAOut(parts, {speaker}, "Revoke") \cup Send(u, "Qinfo")
  /\ fx' = NoFx
  /\ UNCHANGED <<timeVars, members>>

TakenReq(u, p) ==
  \/ /\ parts[u].retry
     /\ Reply(Send(u, "Deny"))
  \/ /\ ~parts[u].retry /\ InQ(queue, u)
     /\ Reply(Send(u, "Qinfo"))
  \/ /\ ~parts[u].retry /\ ~InQ(queue, u)
     /\ p > HolderPrio
     /\ IF ~PreQ(queue) /\ g = "Taken" THEN ArbPreempt(u, p) ELSE Reply({})
  \/ /\ ~parts[u].retry /\ ~InQ(queue, u)
     /\ p <= HolderPrio
     /\ QFull
     /\ Reply(Send(u, "Deny"))
  \/ /\ ~parts[u].retry /\ ~InQ(queue, u)
     /\ p <= HolderPrio
     /\ ~QFull
     /\ queue' = InsertQ(queue, [u |-> u, p |-> p, pre |-> FALSE])
     /\ Say(Send(u, "Qinfo"))
     /\ UNCHANGED parts

RxRequest(u, p, half) ==
  \/ /\ ~Admitted(u, half)
     /\ Reply(Send(u, "Deny"))
  \/ /\ Admitted(u, half)
     /\ parts[u].part = "NpIdle"
     /\ ArbReqIdle(u, p)
  \/ /\ Admitted(u, half)
     /\ parts[u].part = "NpTaken"
     /\ TakenReq(u, p)
  \/ /\ Admitted(u, half)
     /\ parts[u].part = "Permitted"
     /\ Reply(IF IsSpeaker(u) THEN Send(u, "Granted") ELSE {})
  \/ /\ Admitted(u, half)
     /\ parts[u].part \notin {"NpIdle", "NpTaken", "Permitted"}
     /\ Reply({})

-----------------------------------------------------------------------------
(* RELEASE, ACK, QUEUE POSITION REQUEST and media *)

\* RELEASE of a user the participant machine lets speak.
ArbRel(u) ==
  LET ps == IF parts[u].part = "Permitted" THEN [parts EXCEPT ![u].released = TRUE] ELSE parts
  IN  IF IsSpeaker(u) \/ IsRevoked(u)
      THEN /\ IdleEnter(queue, ps, u, Send(u, "Ack"))
           /\ parts' = IdleParts(queue, ps)
           /\ UNCHANGED members
      ELSE /\ Say(Send(u, "Ack"))
           /\ parts' = ps
           /\ UNCHANGED queue

RxRelease(u) ==
  /\ u \in members
  /\ \/ /\ parts[u].part = "NpIdle"
        /\ queue' = Dequeue(queue, u)
        /\ Say(Send(u, "Ack") \cup Send(u, "Idle"))
        /\ UNCHANGED parts
     \/ /\ parts[u].part = "NpTaken"
        /\ queue' = Dequeue(queue, u)
        /\ Say(Send(u, "Ack") \cup Send(u, "Taken"))
        /\ parts' = [parts EXCEPT ![u].c21 = 1]
     \/ /\ parts[u].part \in {"Permitted", "Prevoke"}
        /\ ArbRel(u)
     \/ /\ parts[u].part \notin {"NpIdle", "NpTaken", "Permitted", "Prevoke"}
        /\ LET to == IF parts[u].gTaken THEN "NpTaken" ELSE "NpIdle"
               t == IF parts[u].gTaken THEN "Taken" ELSE "Idle"
           IN  /\ parts' = [parts EXCEPT ![u] = EnterR(@, to)]
               /\ Say(Send(u, "Ack") \cup Send(u, t))
        /\ UNCHANGED queue

\* An ACK of a TAKEN stops its retransmission.
RxAckTaken(u) ==
  /\ u \in members /\ parts[u].part = "NpTaken"
  /\ parts' = [parts EXCEPT ![u].c21 = 0]
  /\ Say({})
  /\ UNCHANGED queue

RxQposReq(u) ==
  /\ u \in members /\ parts[u].part = "NpTaken"
  /\ Reply(Send(u, "Qinfo"))

\* Half-duplex media of u reached the server (ops/floor.rs on_rtp).  A user who
\* may not speak is told REVOKE; a waiter keeps their place in the queue.
Rtp(u) ==
  /\ u \in members
  /\ UNCHANGED <<arbVars, queue, members, succ, c20, c7, idleBcast>>
  /\ fx' = NoFx
  /\ \/ /\ \/ parts[u].part = "NpIdle" /\ parts[u].released
           \/ parts[u].part = "NpTaken"
        /\ parts' = [parts EXCEPT ![u] = EnterR(@, "NpSends")]
        /\ out' = Send(u, "Revoke")
        /\ UNCHANGED <<rtpSeen, firstRtp>>
     \/ /\ parts[u].part \in {"Permitted", "Prevoke"}
        /\ rtpSeen' = (rtpSeen \/ IsSpeaker(u))
        /\ firstRtp' = (firstRtp \/ IsSpeaker(u))
        /\ out' = {}
        /\ UNCHANGED parts
     \/ /\ \/ parts[u].part = "NpIdle" /\ ~parts[u].released
           \/ parts[u].part = "NpSends"
        /\ out' = {}
        /\ UNCHANGED <<parts, rtpSeen, firstRtp>>

-----------------------------------------------------------------------------
(* Room and permission events *)

\* The subscriber's READY: tell them how the floor stands.
Ready(u) == Reply(CASE Holder = u      -> {}
                    [] Holder = NoUser -> Send(u, "Idle")
                    [] OTHER           -> Send(u, "Taken"))

PermDown(u) ==
  LET ps == [parts EXCEPT ![u].perm = FALSE]
  IN  \/ /\ IsSpeaker(u)
         /\ PrevokeEnter(u)
         /\ parts' = [ps EXCEPT ![u] = PartA(@, "Revoke")]
         /\ out' = PartAOut(parts, {u}, "Revoke") /\ fx' = NoFx
         /\ UNCHANGED <<timeVars, queue, members>>
      \/ /\ ~IsSpeaker(u)
         /\ parts' = ps
         /\ queue' = Dequeue(queue, u)
         /\ Say(IF InQ(queue, u) THEN Send(u, "Deny") ELSE {})

PermUp(u) == /\ parts' = [parts EXCEPT ![u].perm = TRUE]
             /\ Say({})
             /\ UNCHANGED queue

WsPubSelect(u) == /\ parts' = [parts EXCEPT ![u].pubRoom = TRUE]
                  /\ Say({})
                  /\ UNCHANGED queue

\* `away`: u stops publishing into the room.  A speaker hands the floor on, a
\* waiter leaves the queue; a user being revoked keeps both until T3.
\* Leaves members' and parts' to the operation, which continues from AwayParts.
Away(u, ps) ==
  \/ IsSpeaker(u) /\ IdleEnter(queue, ps, u, {})
  \/ /\ ~IsSpeaker(u)
     /\ queue' = IF IsRevoked(u) THEN queue ELSE Dequeue(queue, u)
     /\ out' = {} /\ fx' = NoFx
     /\ UNCHANGED <<arbVars, timeVars>>
FaultAwayParts(u, ps) == ps
AwayParts(u, ps) == IF IsSpeaker(u) THEN IdleParts(queue, ps) ELSE ps

WsPubAway(u) ==
  LET ps == [parts EXCEPT ![u].pubRoom = FALSE]
  IN  /\ Away(u, ps)
      /\ parts' = AwayParts(u, ps)
      /\ UNCHANGED members

WsLeave(u) ==
  LET ps == [parts EXCEPT ![u].pubRoom = FALSE]
  IN  /\ u \in members
      /\ Away(u, ps)
      /\ members' = members \ {u}
      /\ parts' = [AwayParts(u, ps) EXCEPT ![u].retry = FALSE, ![u].part = "Releasing"]

FaultJoined(p, perm, taken) ==
  [p EXCEPT !.part = "NpTaken", !.gTaken = taken,
            !.pubRoom = FALSE, !.perm = perm, !.retry = FALSE, !.released = FALSE]

Joined(p, perm, taken) ==
  [p EXCEPT !.part = IF taken THEN "NpTaken" ELSE "NpIdle", !.gTaken = taken,
            !.pubRoom = FALSE, !.perm = perm, !.retry = FALSE, !.released = FALSE]

\* The caller evicts a member before it joins again (ops/rooms.rs join), so a
\* joining user is outside the room.  Their floor may still be in revocation.
WsJoin(u, perm) ==
  /\ u \notin members
  /\ members' = members \cup {u}
  /\ \/ /\ IsRevoked(u)
        /\ IdleEnter(queue, parts, u, {})
        /\ parts' = [IdleParts(queue, parts) EXCEPT ![u] = Joined(@, perm, queue # <<>>)]
     \/ /\ ~IsRevoked(u)
        /\ parts' = [parts EXCEPT ![u] = Joined(@, perm, Holder # NoUser)]
        /\ out' = {} /\ fx' = NoFx
        /\ UNCHANGED <<arbVars, timeVars, queue>>

-----------------------------------------------------------------------------
(* Timers.  The guard is `armed_server` / `armed_participant`, which the    *)
(* timer task checks again under the floor lock before it fires.           *)

EndTenure(u) ==
  /\ IdleEnter(queue, parts, u, {})
  /\ parts' = IdleParts(queue, parts)
  /\ UNCHANGED members

\* The holder's media stopped.
T1 == /\ g \in {"Taken", "Prevoke"}
      /\ EndTenure(Holder)

\* The speaker spoke too long: revoke, and refuse their requests until T9.
T2 == /\ g = "Taken" /\ firstRtp
      /\ PrevokeEnter(speaker)
      /\ parts' = [parts EXCEPT ![speaker] = PartA([@ EXCEPT !.retry = TRUE], "Revoke")]
      /\ out' = PartAOut(parts, {speaker}, "Revoke") /\ fx' = NoFx
      /\ UNCHANGED <<timeVars, queue, members>>

\* The revoked holder did not release in time.
T3 == /\ g = "Prevoke"
      /\ EndTenure(revoking)

T7 == /\ g = "Idle" /\ idleBcast /\ c7 < C7
      /\ c7' = c7 + 1
      /\ parts' = Fan(parts, "Idle", members)
      /\ out' = PartAOut(parts, members, "Idle") /\ fx' = NoFx
      /\ UNCHANGED <<arbVars, queue, members, succ, rtpSeen, firstRtp, c20, idleBcast>>

FaultT20Armed == g = "Taken" /\ succ /\ ~rtpSeen
T20Armed == g = "Taken" /\ succ /\ ~rtpSeen /\ c20 <= C20

T20 == /\ T20Armed
       /\ c20' = c20 + 1
       /\ parts' = IF c20 < C20 THEN [parts EXCEPT ![speaker] = PartA(@, "Granted")] ELSE parts
       /\ out' = IF c20 < C20 THEN PartAOut(parts, {speaker}, "Granted") ELSE {}
       /\ fx' = NoFx
       /\ UNCHANGED <<arbVars, queue, members, succ, rtpSeen, firstRtp, c7, idleBcast>>

T8(u) == /\ parts[u].part \in {"Prevoke", "NpSends"} /\ parts[u].c8 < C8
         /\ parts' = [parts EXCEPT ![u].c8 = @ + 1]
         /\ Say(Send(u, "Revoke"))
         /\ UNCHANGED queue

T9(u) == /\ parts[u].retry
         /\ parts' = [parts EXCEPT ![u].retry = FALSE]
         /\ Say({})
         /\ UNCHANGED queue

T21(u) == /\ parts[u].part = "NpTaken" /\ parts[u].c21 \in 1..C21
          /\ parts' = [parts EXCEPT ![u].c21 = @ + 1]
          /\ Say(IF parts[u].c21 < C21 THEN Send(u, "Taken") ELSE {})
          /\ UNCHANGED queue

-----------------------------------------------------------------------------
Init ==
  /\ g = "Idle" /\ speaker = NoUser /\ sprio = 0 /\ revoking = NoUser /\ rprio = 0
  /\ queue = <<>>
  /\ succ = FALSE /\ rtpSeen = FALSE /\ firstRtp = FALSE
  /\ c20 = 0 /\ c7 = 0 /\ idleBcast = FALSE
  /\ prev = NoUser
  /\ members = {}
  /\ parts = [u \in Users |-> NewPart]
  /\ out = {} /\ fx = NoFx

\* What reaches the room from outside: messages, media, room events, timers.
ClientMessage(u) == \/ \E p \in Prios, half \in BOOLEAN : RxRequest(u, p, half)
                    \/ RxRelease(u)
                    \/ RxAckTaken(u)
                    \/ RxQposReq(u)
RoomEvent(u) == \/ Ready(u)
                \/ PermDown(u)
                \/ PermUp(u)
                \/ WsPubSelect(u)
                \/ WsPubAway(u)
                \/ WsLeave(u)
                \/ \E perm \in BOOLEAN : WsJoin(u, perm)
ServerTimer == T1 \/ T2 \/ T3 \/ T7 \/ T20
UserTimer(u) == T8(u) \/ T9(u) \/ T21(u)
NoMedia(u) == ClientMessage(u) \/ RoomEvent(u) \/ UserTimer(u)

Next == \/ ServerTimer
        \/ \E u \in Users : NoMedia(u) \/ Rtp(u)

Spec == Init /\ [][Next]_vars

\* The same machine beside clients whose half-duplex media never reaches the
\* server while they wait in the queue.
NextMuted == \/ ServerTimer
             \/ \E u \in Users : NoMedia(u) \/ (~InQ(queue, u) /\ Rtp(u))

SpecMuted == Init /\ [][NextMuted]_vars

-----------------------------------------------------------------------------
(* Properties *)

\* Every variable has its type, and no retransmission counter passes its limit.
TypeOK ==
  /\ g \in GStates
  /\ speaker \in Users \cup {NoUser}
  /\ revoking \in Users \cup {NoUser}
  /\ prev \in Users \cup {NoUser}
  /\ sprio \in Nat /\ rprio \in Nat
  /\ queue \in Seq(Waiter)
  /\ succ \in BOOLEAN /\ rtpSeen \in BOOLEAN /\ firstRtp \in BOOLEAN /\ idleBcast \in BOOLEAN
  /\ c20 \in 0..C20 + 1
  /\ c7 \in 0..C7 + 1
  /\ members \in SUBSET Users
  /\ parts \in [Users -> Part]
  /\ out \in SUBSET Message
  /\ fx \in Effect

\* `speaker` is set exactly in Taken and `revoking` exactly in Prevoke.
HolderMatchesG == /\ (g = "Taken") <=> (speaker # NoUser)
                  /\ (g = "Prevoke") <=> (revoking # NoUser)

\* Every member's participant machine knows whether the floor is idle: whatever
\* the interleaving of grants, revocations, stray media and joins, a participant
\* is in a no-floor-taken state exactly when the arbiter is Idle.  This is what
\* makes `req_discard` (core.rs:302) unreachable and every answer to RELEASE true.
KnowsIdle(p) == p.part = "NpIdle" \/ (p.part = "NpSends" /\ ~p.gTaken)
PartFollowsArbiter == \A u \in members : (g = "Idle") <=> KnowsIdle(parts[u])

\* An idle floor has no waiters: nobody waits for a floor nobody holds
\* (PROP-FLR-LEDGER-BOUNDS).
IdleQueueEmpty == g = "Idle" => queue = <<>>

\* A user waits at most once, whatever the mix of repeated requests, pre-emption,
\* media and rejoining.
WaitersDistinct == \A i, j \in 1..Len(queue) : queue[i].u = queue[j].u => i = j

\* The queue is ordered by rank at all times, so idle_enter may simply take its
\* head; a pre-empting waiter is at the head and only while a floor is revoked.
QueueOrdered == /\ \A i, j \in 1..Len(queue) : i < j => queue[i].p >= queue[j].p
                /\ \A i \in 1..Len(queue) : queue[i].pre => i = 1 /\ g = "Prevoke"

\* No priority inversion: an ordinary waiter never outranks the holder, and a
\* pre-empting one outranks the holder it revokes.
NoInversion == \A i \in 1..Len(queue) :
                 IF queue[i].pre THEN queue[i].p > rprio ELSE queue[i].p <= HolderPrio

\* The queue grows past queue_max only by the one waiter that pre-empts.
QueueWithinBound == Len(queue) <= QMax + (IF PreQ(queue) THEN 1 ELSE 0)

\* PROP-FLR-LEDGER-BOUNDS as docs/protocol/10-flr.md:1782 states it: the queue is
\* always within its limit.
QueueWithinMax == Len(queue) <= QMax

\* PROP-FLR-ARB-PART-AGREE (docs/protocol/10-flr.md:1752): the arbiter and the
\* participants agree on who may speak and whose floor is being revoked.
ArbPartAgree ==
  \A u \in Users : /\ (parts[u].part = "Permitted") <=> IsSpeaker(u)
                   /\ (parts[u].part = "Prevoke") <=> (IsRevoked(u) /\ u \in members)

\* Nobody outside the room waits or speaks, and nobody waits for the floor they hold.
WaitersInRoom == /\ \A i \in 1..Len(queue) : queue[i].u \in members \ {Holder}
                 /\ g = "Taken" => speaker \in members

\* First come, first served within a rank: users who keep waiting keep their
\* order, and a newcomer stands before a waiter only by outranking them.
NoOvertaking ==
  [][/\ \A i, j \in 1..Len(queue), k, l \in 1..Len(queue') :
          (i < j /\ queue'[k] = queue[i] /\ queue'[l] = queue[j]) => k < l
     /\ \A k, l \in 1..Len(queue') :
          (k < l /\ queue'[k] \notin Range(queue) /\ queue'[l] \in Range(queue))
            => queue'[k].pre \/ queue'[k].p > queue'[l].p]_vars

\* When the holder changes every member who stays hears of it in that step: only
\* a user told to stop sending (NpSends) and the one who just gave the floor up
\* are left to be told by a retransmission or on their RELEASE.
EveryoneTold ==
  [][Holder' # Holder =>
       \A u \in members \cap members' :
         \/ \E m \in out' : m.to = u /\ m.t \in {"Granted", "Taken", "Idle", "Ack"}
         \/ parts[u].part = "NpSends"
         \/ u = Holder]_vars

\* The floor implements what FloorAbs promises.
Abs == INSTANCE FloorAbs WITH holder <- Holder, waiting <- Range(queue)
ImplementsAbs == Abs!Spec
=============================================================================
