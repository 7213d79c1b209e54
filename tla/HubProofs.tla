------------------------------ MODULE HubProofs ------------------------------
(***************************************************************************)
(* The inductive invariant of the hubs' sessions, HubInv, and its proof     *)
(* for the operations and for the steps of a bind.  HubInv is a predicate   *)
(* of the hub state (a record of HubRec), so that the operations that map a *)
(* hub state to the next one are reasoned about outside any step:           *)
(*   Known, Single   every registered session has its object, on one hub;   *)
(*   InHand          a session being carried over is registered nowhere;    *)
(*   Drawn           a sid not yet given out is used nowhere;               *)
(*   ConnOK, ObjOK   a connection and the session object it serves agree;   *)
(*   Reclaimable     what is registered is served, about to be, or marked.  *)
(* Tells says what the media server learns of the sessions a step loses.    *)
(* HubStepProofs has the other steps, the initial state and the theorems.   *)
(***************************************************************************)
EXTENDS HubSessions, TLAPS

\* The values of the fields, and of the hub state.
CN == DOMAIN Conns
Early == {"new", "find", "ask", "adopt", "enter", "lookup", "evict"}
Pcs == Early \cup {"attach", "register", "open", "drain", "left", "closed"}
Reqs == {"none", "join", "leave", "resume", "joined", "nojoin", "out", "in", "failed"}
Codes == {"none", "duplicate", "revoked", "shutdown"}
Asked == [from : Hubs, sid : Sid]
Given == [sid : Sid, room : BOOLEAN, touched : BOOLEAN]
Data == {<<>>} \cup Asked \cup Given \cup SUBSET (Hubs \X Sid)
SessRec == [hub : Hubs, user : Users, sid : Sid, bound : BOOLEAN, live : BOOLEAN, resumed : BOOLEAN,
            conn : {0} \cup CN, dropped : BOOLEAN, room : BOOLEAN, touched : BOOLEAN]
ConnRec == [pc : Pcs, hub : Hubs, obj : Nat, data : Data, req : Reqs, code : Codes]
HubRec == [obj : Seq(SessRec), bySid : [Hubs -> [Sid -> Nat]], byUser : [Hubs -> [Users -> {0} \cup Sid]],
           toks : [Hubs -> SUBSET Sid], interest : [Hubs -> Nat], gone : SUBSET Sid, conn : [CN -> ConnRec]]

\* The object h has registered under s, a session object and a connection.
At(w, h, s) == w.bySid[h][s]
Ob(w, o) == w.obj[o]
Cn(w, c) == w.conn[c]

\* The fields of a hub state.
LEMMA HubFields ==
  ASSUME NEW w \in HubRec
  PROVE  /\ w.obj \in Seq(SessRec) /\ w.bySid \in [Hubs -> [Sid -> Nat]]
         /\ w.byUser \in [Hubs -> [Users -> {0} \cup Sid]] /\ w.toks \in [Hubs -> SUBSET Sid]
         /\ w.interest \in [Hubs -> Nat] /\ w.gone \in SUBSET Sid /\ w.conn \in [CN -> ConnRec]
BY DEF HubRec

\* A session of a hub state.
LEMMA SessFields ==
  ASSUME NEW w \in HubRec, NEW o \in DOMAIN w.obj
  PROVE  /\ Ob(w, o) \in SessRec
         /\ Ob(w, o).hub \in Hubs /\ Ob(w, o).user \in Users /\ Ob(w, o).sid \in Sid
         /\ Ob(w, o).conn \in {0} \cup CN /\ Ob(w, o).room \in BOOLEAN /\ Ob(w, o).touched \in BOOLEAN
         /\ o \in Nat \ {0}
<1>1. w.obj \in Seq(SessRec)
  BY HubFields
<1>2. Ob(w, o) \in SessRec /\ o \in Nat \ {0}
  BY <1>1 DEF Ob
<1> QED BY <1>2 DEF SessRec

\* A sid is named after a connection.
LEMMA SidConn ==
  ASSUME NEW w \in HubRec
  PROVE  \A o \in DOMAIN w.obj : Ob(w, o).sid \in CN
<1>1. \A o \in DOMAIN w.obj : Ob(w, o).sid \in Sid
  BY SessFields
<1> QED BY <1>1 DEF Sid, CN

\* The session object o is not the one a connection is about to register.
Settled(w, o) == \A c \in CN : Cn(w, c).pc = "register" => Cn(w, c).obj # o

\* What the operations without an await may change: sessions leave the registry, and
\* an object loses its connection only when its session is no longer registered.
SameObjs(w, v) ==
    /\ DOMAIN v.obj = DOMAIN w.obj
    /\ \A o \in DOMAIN w.obj : /\ Ob(v, o).hub = Ob(w, o).hub /\ Ob(v, o).sid = Ob(w, o).sid
                               /\ Ob(v, o).user = Ob(w, o).user /\ (Ob(w, o).touched => Ob(v, o).touched)
                               /\ Ob(v, o).dropped = Ob(w, o).dropped
SameConns(w, v) ==
    \A c \in CN : /\ Cn(v, c).pc = Cn(w, c).pc /\ Cn(v, c).hub = Cn(w, c).hub /\ Cn(v, c).obj = Cn(w, c).obj
                  /\ Cn(v, c).data = Cn(w, c).data /\ Cn(v, c).req = Cn(w, c).req
Leaves(w, v) ==
    /\ \A h \in Hubs, s \in Sid : At(v, h, s) \in {0, At(w, h, s)}
    /\ \A o \in DOMAIN w.obj :
         Ob(v, o).conn = Ob(w, o).conn
         \/ (Ob(v, o).conn = 0 /\ At(v, Ob(w, o).hub, Ob(w, o).sid) = 0 /\ Settled(w, o))
Quiet(w, v) == v \in HubRec /\ SameObjs(w, v) /\ SameConns(w, v) /\ Leaves(w, v)

\* Conn::leave changes a code.
LEMMA KickQuiet ==
  ASSUME NEW w \in HubRec, NEW o \in DOMAIN w.obj, NEW code \in Codes
  PROVE  /\ Quiet(w, Kick(w, o, code))
         /\ Kick(w, o, code).obj = w.obj /\ Kick(w, o, code).bySid = w.bySid /\ Kick(w, o, code).gone = w.gone
         /\ Kick(w, o, code).interest = w.interest
<1> DEFINE c == Ob(w, o).conn
           v == Kick(w, o, code)
<1>1. CASE c = 0
  <2>1. v = w
    BY <1>1 DEF Kick, Ob
  <2> QED BY <2>1 DEF Quiet, SameObjs, SameConns, Leaves
<1>2. CASE c # 0
  <2>1. c \in CN
    BY <1>2, SessFields
  <2>a. w.conn \in [CN -> ConnRec]
    BY HubFields
  <2> DEFINE k == IF Cn(w, c).code = "none" THEN code ELSE Cn(w, c).code
             r == [w.conn EXCEPT ![c].code = k]
  <2>2. v = [w EXCEPT !.conn = r]
    <3>1. v = [w EXCEPT !.conn[c].code = k]
      BY <1>2, Zenon DEF Kick, Ob, Cn
    <3> QED BY <3>1
  <2>3. k \in Codes
    BY <2>1, <2>a, Zenon DEF ConnRec, Cn
  <2>4. r \in [CN -> ConnRec] /\ \A d \in CN : r[d].pc = Cn(w, d).pc /\ r[d].hub = Cn(w, d).hub /\ r[d].obj = Cn(w, d).obj
                                              /\ r[d].data = Cn(w, d).data /\ r[d].req = Cn(w, d).req
    <3> HIDE DEF k
    <3> QED BY <2>1, <2>a, <2>3, Zenon DEF ConnRec, Cn
  <2> HIDE DEF r
  <2>5. v \in HubRec
    BY <2>2, <2>4, Zenon DEF HubRec
  <2>6. v.conn = r /\ v.obj = w.obj /\ v.bySid = w.bySid /\ v.gone = w.gone /\ v.interest = w.interest
    BY <2>2 DEF HubRec
  <2> HIDE DEF v
  <2> QED BY <2>4, <2>5, <2>6, Zenon DEF Quiet, SameObjs, SameConns, Leaves, v, At, Ob, Cn
<1> QED BY <1>1, <1>2

\* unregister takes the session out of the registry.
LEMMA UnregisterQuiet ==
  ASSUME NEW w \in HubRec, NEW o \in DOMAIN w.obj
  PROVE  /\ Quiet(w, Unregister(w, o))
         /\ Unregister(w, o).obj = w.obj /\ Unregister(w, o).gone = w.gone /\ Unregister(w, o).conn = w.conn
         /\ At(Unregister(w, o), Ob(w, o).hub, Ob(w, o).sid) = 0
         /\ \A h \in Hubs, s \in Sid : <<h, s>> # <<Ob(w, o).hub, Ob(w, o).sid>> => At(Unregister(w, o), h, s) = At(w, h, s)
<1> DEFINE s == Ob(w, o)
           v == Unregister(w, o)
<1>0. s \in SessRec /\ s.hub \in Hubs /\ s.user \in Users /\ s.sid \in Sid
  BY SessFields
<1>a. /\ w.obj \in Seq(SessRec) /\ w.bySid \in [Hubs -> [Sid -> Nat]]
      /\ w.byUser \in [Hubs -> [Users -> {0} \cup Sid]] /\ w.toks \in [Hubs -> SUBSET Sid]
      /\ w.interest \in [Hubs -> Nat] /\ w.gone \in SUBSET Sid /\ w.conn \in [CN -> ConnRec]
  BY HubFields
<1>1. CASE At(w, s.hub, s.sid) = 0
  <2>1. v = w
    BY <1>1, Zenon DEF Unregister, At, Ob
  <2> QED BY <2>1, <1>1, <1>0, Zenon DEF Quiet, SameObjs, SameConns, Leaves
<1>2. CASE At(w, s.hub, s.sid) # 0
  <2> DEFINE b == [w.bySid EXCEPT ![s.hub][s.sid] = 0]
             y == [w.byUser EXCEPT ![s.hub][s.user] = IF @ = s.sid THEN 0 ELSE @]
             t == [w.toks EXCEPT ![s.hub] = @ \ {s.sid}]
             i == [w.interest EXCEPT ![s.hub] = IF s.room THEN Minus(@) ELSE @]
  <2>1. v = [w EXCEPT !.bySid = b, !.byUser = y, !.toks = t, !.interest = i]
    BY <1>2, <1>0, <1>a, Zenon DEF Unregister, HubRec, At, Ob
  <2>2. b \in [Hubs -> [Sid -> Nat]] /\ b[s.hub][s.sid] = 0
        /\ \A h \in Hubs, x \in Sid : <<h, x>> # <<s.hub, s.sid>> => b[h][x] = At(w, h, x)
    BY <1>0, <1>a, Zenon DEF At
  <2>3. y \in [Hubs -> [Users -> {0} \cup Sid]]
    BY <1>0, <1>a
  <2>4. t \in [Hubs -> SUBSET Sid]
    BY <1>0, <1>a
  <2>5. i \in [Hubs -> Nat]
    BY <1>0, <1>a, SMTT(30) DEF Minus
  <2> HIDE DEF b, y, t, i
  <2>6. v \in HubRec
    BY <2>1, <2>2, <2>3, <2>4, <2>5, ZenonT(30) DEF HubRec
  <2>7. v.bySid = b /\ v.obj = w.obj /\ v.conn = w.conn /\ v.gone = w.gone
    BY <2>1 DEF HubRec
  <2> HIDE DEF v, s
  <2>8. \A h \in Hubs, x \in Sid : At(v, h, x) \in {0, At(w, h, x)}
    BY <2>2, <2>7 DEF At
  <2> QED BY <2>2, <2>6, <2>7, <2>8, Zenon DEF Quiet, SameObjs, SameConns, Leaves, v, s, At, Ob, Cn
<1> QED BY <1>1, <1>2, Zenon

\* An update of one session object.
LEMMA ObjUpdate ==
  ASSUME NEW w \in HubRec, NEW o \in DOMAIN w.obj, NEW r \in SessRec
  PROVE  /\ [w.obj EXCEPT ![o] = r] \in Seq(SessRec)
         /\ DOMAIN [w.obj EXCEPT ![o] = r] = DOMAIN w.obj
         /\ [w.obj EXCEPT ![o] = r][o] = r
         /\ \A p \in DOMAIN w.obj : p # o => [w.obj EXCEPT ![o] = r][p] = Ob(w, p)
<1>1. w.obj \in Seq(SessRec)
  BY HubFields, Zenon
<1> QED BY <1>1 DEF Ob

\* dispose also lets the connection of the object go.
LEMMA DisposeQuiet ==
  ASSUME NEW w \in HubRec, NEW o \in DOMAIN w.obj, Settled(w, o)
  PROVE  /\ Quiet(w, Dispose(w, o))
         /\ Dispose(w, o).bySid = Unregister(w, o).bySid
         /\ Dispose(w, o).gone = IF Ob(w, o).touched THEN w.gone \cup {Ob(w, o).sid} ELSE w.gone
<1> DEFINE u == Unregister(w, o)
           v == Dispose(w, o)
           r == [Ob(w, o) EXCEPT !.live = FALSE, !.bound = FALSE, !.resumed = FALSE, !.conn = 0, !.room = FALSE]
           b == [w.obj EXCEPT ![o] = r]
           g == IF Ob(w, o).touched THEN w.gone \cup {Ob(w, o).sid} ELSE w.gone
<1>1. /\ u \in HubRec /\ Quiet(w, u) /\ u.obj = w.obj /\ u.gone = w.gone /\ u.conn = w.conn
      /\ At(u, Ob(w, o).hub, Ob(w, o).sid) = 0
  BY UnregisterQuiet DEF Quiet
<1>2. Ob(w, o) \in SessRec /\ Ob(w, o).sid \in Sid /\ w.gone \in SUBSET Sid /\ w.obj \in Seq(SessRec)
  BY SessFields, HubFields, Zenon
<1>3. /\ r \in SessRec /\ r.conn = 0 /\ r.hub = Ob(w, o).hub /\ r.sid = Ob(w, o).sid /\ r.user = Ob(w, o).user
      /\ r.touched = Ob(w, o).touched /\ r.dropped = Ob(w, o).dropped
  BY <1>2, Zenon DEF SessRec
<1>4. v = [u EXCEPT !.obj = b, !.gone = g]
  <2> HIDE DEF u
  <2>1. v = [u EXCEPT !.obj[o] = [@ EXCEPT !.live = FALSE, !.bound = FALSE, !.resumed = FALSE, !.conn = 0, !.room = FALSE],
                      !.gone = IF Ob(w, o).touched THEN @ \cup {Ob(w, o).sid} ELSE @]
    BY DEF Dispose, u, Ob
  <2> HIDE DEF v
  <2> QED BY <2>1, <1>1, Zenon DEF HubRec, Ob
<1> HIDE DEF r
<1>5. b \in Seq(SessRec) /\ DOMAIN b = DOMAIN w.obj /\ b[o] = r /\ \A p \in DOMAIN w.obj : p # o => b[p] = Ob(w, p)
  BY <1>3, ObjUpdate
<1>6. g \in SUBSET Sid
  BY <1>2, Zenon
<1> HIDE DEF b, g, u
<1>7. v \in HubRec /\ v.obj = b /\ v.gone = g /\ v.bySid = u.bySid /\ v.conn = u.conn
  BY <1>1, <1>4, <1>5, <1>6, ZenonT(30) DEF HubRec, Cn
<1> HIDE DEF v
<1>8. SameObjs(w, v)
  BY <1>3, <1>5, <1>7 DEF SameObjs, Ob
<1>9. SameConns(w, v)
  BY <1>1, <1>7, Zenon DEF SameConns, Cn
<1>10. Leaves(w, v)
  <2>1. \A h \in Hubs, s \in Sid : At(v, h, s) \in {0, At(w, h, s)}
    BY <1>1, <1>7, Zenon DEF Quiet, Leaves, At
  <2>2. ASSUME NEW p \in DOMAIN w.obj
        PROVE Ob(v, p).conn = Ob(w, p).conn
              \/ (Ob(v, p).conn = 0 /\ At(v, Ob(w, p).hub, Ob(w, p).sid) = 0 /\ Settled(w, p))
    BY <1>1, <1>3, <1>5, <1>7, Zenon DEF At, Ob
  <2> QED BY <2>1, <2>2 DEF Leaves
<1> QED BY <1>7, <1>8, <1>9, <1>10, Zenon DEF Quiet, v, u, g

\* set_rooms changes whether the session is in the room.
LEMMA SetRoomQuiet ==
  ASSUME NEW w \in HubRec, NEW o \in DOMAIN w.obj, NEW in \in BOOLEAN
  PROVE  /\ Quiet(w, SetRoom(w, o, in))
         /\ SetRoom(w, o, in).bySid = w.bySid /\ SetRoom(w, o, in).gone = w.gone
<1> DEFINE v == SetRoom(w, o, in)
           h == Ob(w, o).hub
           was == Ob(w, o).room
           r == [Ob(w, o) EXCEPT !.room = in]
           b == [w.obj EXCEPT ![o] = r]
           k == CASE in /\ ~was -> w.interest[h] + 1 [] ~in /\ was -> Minus(w.interest[h]) [] OTHER -> w.interest[h]
           i == [w.interest EXCEPT ![h] = k]
<1>1. Ob(w, o) \in SessRec /\ h \in Hubs /\ was \in BOOLEAN /\ w.interest \in [Hubs -> Nat] /\ w.obj \in Seq(SessRec)
  BY SessFields, HubFields, Zenon
<1>2. /\ r \in SessRec /\ r.conn = Ob(w, o).conn /\ r.hub = h /\ r.sid = Ob(w, o).sid /\ r.user = Ob(w, o).user
      /\ r.touched = Ob(w, o).touched /\ r.dropped = Ob(w, o).dropped
  BY <1>1, Zenon DEF SessRec
<1>3. i \in [Hubs -> Nat]
  <2>1. k \in Nat
    BY <1>1 DEF Minus
  <2> QED BY <1>1, <2>1, Zenon
<1>4. v = [w EXCEPT !.obj = b, !.interest = i]
  BY <1>1 DEF SetRoom, HubRec, Ob
<1> HIDE DEF r, i
<1>5. b \in Seq(SessRec) /\ DOMAIN b = DOMAIN w.obj /\ b[o] = r /\ \A p \in DOMAIN w.obj : p # o => b[p] = Ob(w, p)
  BY <1>2, ObjUpdate
<1> HIDE DEF b
<1>6. v \in HubRec /\ v.obj = b /\ v.gone = w.gone /\ v.bySid = w.bySid /\ v.conn = w.conn
  BY <1>3, <1>4, <1>5, Zenon DEF HubRec
<1> HIDE DEF v
<1>7. SameObjs(w, v) /\ \A p \in DOMAIN w.obj : Ob(v, p).conn = Ob(w, p).conn
  BY <1>2, <1>5, <1>6, Zenon DEF SameObjs, Ob
<1> QED BY <1>6, <1>7, Zenon DEF Quiet, SameConns, Leaves, v, At, Cn

\* One quiet operation after another is quiet.
LEMMA QuietTrans ==
  ASSUME NEW w \in HubRec, NEW u, NEW v, Quiet(w, u), Quiet(u, v)
  PROVE  Quiet(w, v)
<1>1. SameObjs(w, v)
  BY DEF Quiet, SameObjs
<1>2. SameConns(w, v)
  BY DEF Quiet, SameConns
<1>3. Leaves(w, v)
  <2>0. u \in HubRec /\ v \in HubRec
    BY DEF Quiet
  <2>1. \A h \in Hubs, s \in Sid : At(v, h, s) \in {0, At(u, h, s)} /\ At(u, h, s) \in {0, At(w, h, s)}
    BY Zenon DEF Quiet, Leaves
  <2>2. ASSUME NEW o \in DOMAIN w.obj
        PROVE Ob(v, o).conn = Ob(w, o).conn
              \/ (Ob(v, o).conn = 0 /\ At(v, Ob(w, o).hub, Ob(w, o).sid) = 0 /\ Settled(w, o))
    <3>1. o \in DOMAIN u.obj /\ Ob(u, o).hub = Ob(w, o).hub /\ Ob(u, o).sid = Ob(w, o).sid
          /\ Ob(w, o).hub \in Hubs /\ Ob(w, o).sid \in Sid
      BY SessFields DEF Quiet, SameObjs
    <3>2. Settled(u, o) => Settled(w, o)
      BY DEF Settled, Quiet, SameConns
    <3>3. Ob(u, o).conn = Ob(w, o).conn
          \/ (Ob(u, o).conn = 0 /\ At(u, Ob(w, o).hub, Ob(w, o).sid) = 0 /\ Settled(w, o))
      BY Zenon DEF Quiet, Leaves
    <3>4. Ob(v, o).conn = Ob(u, o).conn
          \/ (Ob(v, o).conn = 0 /\ At(v, Ob(u, o).hub, Ob(u, o).sid) = 0 /\ Settled(u, o))
      BY <3>1, Zenon DEF Quiet, Leaves
    <3> QED BY <2>1, <3>1, <3>2, <3>3, <3>4
  <2> QED BY <2>1, <2>2, Zenon DEF Leaves
<1> QED BY <1>1, <1>2, <1>3 DEF Quiet

\* Eviction, of a session that is registered.
LEMMA EvictQuiet ==
  ASSUME NEW w \in HubRec, NEW o \in DOMAIN w.obj, Settled(w, o), NEW code \in Codes
  PROVE  /\ Quiet(w, Evict(w, o, code))
         /\ Evict(w, o, code).bySid = Unregister(Kick(w, o, code), o).bySid
         /\ Evict(w, o, code).gone = IF Ob(w, o).touched THEN w.gone \cup {Ob(w, o).sid} ELSE w.gone
<1> DEFINE u == Kick(w, o, code)
<1>1. Quiet(w, u) /\ u \in HubRec /\ u.obj = w.obj /\ u.gone = w.gone
  BY KickQuiet DEF Quiet
<1>2. Settled(u, o)
  BY <1>1 DEF Settled, Quiet, SameConns
<1> HIDE DEF u
<1>3. /\ Quiet(u, Dispose(u, o)) /\ Dispose(u, o).bySid = Unregister(u, o).bySid
      /\ Dispose(u, o).gone = IF Ob(w, o).touched THEN w.gone \cup {Ob(w, o).sid} ELSE w.gone
  BY <1>1, <1>2, DisposeQuiet, Zenon DEF Ob
<1>4. Evict(w, o, code) = Dispose(u, o)
  BY DEF Evict, u
<1> QED BY <1>1, <1>3, <1>4, QuietTrans DEF u

(* The invariant of the sessions *)

\* The registry of a hub names sessions of that hub, under their own sid.
Known(w) ==
    \A h \in Hubs, s \in Sid : At(w, h, s) # 0 =>
        At(w, h, s) \in DOMAIN w.obj /\ Ob(w, At(w, h, s)).hub = h /\ Ob(w, At(w, h, s)).sid = s
\* A sid is registered on one hub.
Single(w) == \A s \in Sid, h \in Hubs, g \in Hubs : At(w, h, s) # 0 /\ At(w, g, s) # 0 => h = g
\* Connection c is about to register sid s: handed over to it, or just made for it.
Carries(w, c, s) ==
    \/ Cn(w, c).pc \in {"adopt", "enter"} /\ Cn(w, c).data.sid = s
    \/ Cn(w, c).pc = "register" /\ Ob(w, Cn(w, c).obj).sid = s
\* Such a sid is registered nowhere and in the hands of one connection.
InHand(w) ==
    \A c \in CN, s \in Sid : Carries(w, c, s) =>
        /\ \A h \in Hubs : At(w, h, s) = 0
        /\ \A d \in CN : Carries(w, d, s) => d = c
        /\ \E o \in DOMAIN w.obj : Ob(w, o).sid = s
\* A sid in use has been drawn: the connection it is named after has had its session.
Drawn(w) == \A o \in DOMAIN w.obj : Cn(w, Ob(w, o).sid).pc \notin Early
\* What a connection holds at each point of its bind.
RecOK(x) ==
    /\ x.pc \in Early <=> x.obj = 0
    /\ x.pc = "ask" => x.data \in Asked
    /\ x.pc \in {"adopt", "enter"} => x.data \in Given
    /\ x.pc = "evict" => x.data \in SUBSET (Hubs \X Sid)
    /\ x.pc \in Early \cup {"attach", "register"} => x.req = "none"
ConnOK(w) ==
    \A c \in CN :
        /\ RecOK(Cn(w, c))
        /\ Cn(w, c).obj # 0 => Cn(w, c).obj \in DOMAIN w.obj /\ Ob(w, Cn(w, c).obj).hub = Cn(w, c).hub
        /\ Cn(w, c).pc = "register" =>
              /\ Ob(w, Cn(w, c).obj).conn = c
              /\ \A d \in CN : Cn(w, d).obj = Cn(w, c).obj => d = c
\* The connection of a session object serves that object.
ObjOK(w) == \A o \in DOMAIN w.obj : Ob(w, o).conn # 0 => Cn(w, Ob(w, o).conn).obj = o
\* NoOrphan of a hub state.
Held(w, o) ==
    \/ Ob(w, o).dropped
    \/ \E c \in CN : Cn(w, c).obj = o /\ Cn(w, c).pc = "attach"
    \/ Ob(w, o).conn # 0 /\ Cn(w, Ob(w, o).conn).pc \in {"open", "drain"}
Reclaimable(w) == \A o \in DOMAIN w.obj : At(w, Ob(w, o).hub, Ob(w, o).sid) = o => Held(w, o)

HubInv(w) ==
    /\ w \in HubRec /\ Known(w) /\ Single(w) /\ InHand(w) /\ Drawn(w)
    /\ ConnOK(w) /\ ObjOK(w) /\ Reclaimable(w)

\* Operations that leave the registry alone, and the hub and sid of every object.
LEMMA KnownKept ==
  ASSUME NEW w, HubInv(w), NEW v, v.bySid = w.bySid,
         \A p \in DOMAIN w.obj : p \in DOMAIN v.obj /\ Ob(v, p).hub = Ob(w, p).hub /\ Ob(v, p).sid = Ob(w, p).sid
  PROVE  Known(v) /\ Single(v)
<1>1. \A h \in Hubs, s \in Sid : At(v, h, s) = At(w, h, s)
  BY Zenon DEF At
<1>2. Known(w) /\ Single(w)
  BY Zenon DEF HubInv
<1>3. Single(v)
  BY <1>1, <1>2, Zenon DEF Single
<1>4. ASSUME NEW h \in Hubs, NEW s \in Sid, At(v, h, s) # 0
      PROVE  At(v, h, s) \in DOMAIN v.obj /\ Ob(v, At(v, h, s)).hub = h /\ Ob(v, At(v, h, s)).sid = s
  <2>1. At(v, h, s) = At(w, h, s)
    BY <1>1, Zenon
  <2>2. At(w, h, s) \in DOMAIN w.obj /\ Ob(w, At(w, h, s)).hub = h /\ Ob(w, At(w, h, s)).sid = s
    BY <1>2, <1>4, <2>1, Zenon DEF Known
  <2> QED BY <2>1, <2>2, Zenon
<1> QED BY <1>3, <1>4, Zenon DEF Known

\* Quiet operations keep the invariant.
LEMMA QuietKeeps ==
  ASSUME NEW w, HubInv(w), NEW v, Quiet(w, v)
  PROVE  HubInv(v)
<1>0. w \in HubRec /\ v \in HubRec /\ SameObjs(w, v) /\ SameConns(w, v) /\ Leaves(w, v)
  BY Zenon DEF HubInv, Quiet
<1>1. Known(v)
  <2>1. ASSUME NEW h \in Hubs, NEW s \in Sid, At(v, h, s) # 0
        PROVE At(v, h, s) \in DOMAIN v.obj /\ Ob(v, At(v, h, s)).hub = h /\ Ob(v, At(v, h, s)).sid = s
    <3>1. At(v, h, s) = At(w, h, s)
      BY <1>0, <2>1 DEF Leaves
    <3>2. At(w, h, s) \in DOMAIN w.obj /\ Ob(w, At(w, h, s)).hub = h /\ Ob(w, At(w, h, s)).sid = s
      BY <2>1, <3>1, Zenon DEF HubInv, Known
    <3> QED BY <1>0, <3>1, <3>2, Zenon DEF SameObjs
  <2> QED BY <2>1, Zenon DEF Known
<1>2. Single(v)
  BY <1>0 DEF HubInv, Single, Leaves
<1>3. \A c \in CN : Cn(w, c).obj # 0 => Cn(w, c).obj \in DOMAIN w.obj
  BY DEF HubInv, ConnOK
<1>4. \A c \in CN : Cn(v, c).pc = "register" => Cn(v, c).obj \in DOMAIN w.obj
  BY <1>0, <1>3, Zenon DEF HubInv, ConnOK, RecOK, SameConns, Early
<1>5. \A c \in CN, s \in Sid : Carries(v, c, s) <=> Carries(w, c, s)
  BY <1>0, <1>4 DEF Carries, SameConns, SameObjs
<1>6. InHand(v)
  BY <1>0, <1>5 DEF HubInv, InHand, Leaves, SameObjs
<1>7. Drawn(v)
  BY <1>0, SidConn DEF HubInv, Drawn, SameObjs, SameConns
<1>8. ConnOK(v)
  <2>1. ASSUME NEW c \in CN, Cn(v, c).pc = "register" PROVE Ob(v, Cn(v, c).obj).conn = c
    <3>1. Cn(w, c).pc = "register" /\ Ob(w, Cn(w, c).obj).conn = c /\ Cn(v, c).obj = Cn(w, c).obj
      BY <1>0, <2>1, Zenon DEF HubInv, ConnOK, SameConns
    <3>2. ~Settled(w, Cn(w, c).obj)
      BY <3>1, Zenon DEF Settled
    <3> QED BY <1>0, <1>4, <2>1, <3>1, <3>2, Zenon DEF Leaves
  <2>2. \A c \in CN : RecOK(Cn(v, c))
    BY <1>0 DEF HubInv, ConnOK, RecOK, SameConns
  <2> QED BY <1>0, <2>1, <2>2 DEF HubInv, ConnOK, SameConns, SameObjs
<1>9. ObjOK(v)
  <2>1. \A o \in DOMAIN w.obj : Ob(w, o).conn \in {0} \cup CN
    BY <1>0, SessFields, Zenon
  <2> QED BY <1>0, <2>1 DEF HubInv, ObjOK, Leaves, SameObjs, SameConns
<1>10. Reclaimable(v)
  <2>1. ASSUME NEW o \in DOMAIN v.obj, At(v, Ob(v, o).hub, Ob(v, o).sid) = o PROVE Held(v, o)
    <3>1. /\ o \in DOMAIN w.obj /\ Ob(v, o).hub = Ob(w, o).hub /\ Ob(v, o).sid = Ob(w, o).sid /\ o # 0
          /\ Ob(v, o).dropped = Ob(w, o).dropped /\ Ob(w, o).hub \in Hubs /\ Ob(w, o).sid \in Sid
          /\ Ob(w, o).conn \in {0} \cup CN
      BY <1>0, SessFields, Zenon DEF SameObjs
    <3>2. At(w, Ob(w, o).hub, Ob(w, o).sid) = o /\ Ob(v, o).conn = Ob(w, o).conn
      BY <1>0, <2>1, <3>1 DEF Leaves
    <3>3. Held(w, o)
      BY <3>1, <3>2, Zenon DEF HubInv, Reclaimable
    <3> QED BY <1>0, <3>1, <3>2, <3>3 DEF Held, SameConns
  <2> QED BY <2>1, Zenon DEF Reclaimable
<1> QED BY <1>0, <1>1, <1>2, <1>6, <1>7, <1>8, <1>9, <1>10, Zenon DEF HubInv

\* A registered session is settled.
LEMMA RegisteredSettled ==
  ASSUME NEW w, HubInv(w), NEW h \in Hubs, NEW s \in Sid, At(w, h, s) # 0
  PROVE  /\ At(w, h, s) \in DOMAIN w.obj /\ Settled(w, At(w, h, s))
         /\ Ob(w, At(w, h, s)).hub = h /\ Ob(w, At(w, h, s)).sid = s
         /\ \A c \in CN : ~Carries(w, c, s)
<1>1. \A c \in CN : ~Carries(w, c, s)
  BY Zenon DEF HubInv, InHand
<1>2. /\ At(w, h, s) \in DOMAIN w.obj /\ Ob(w, At(w, h, s)).hub = h /\ Ob(w, At(w, h, s)).sid = s
  BY DEF HubInv, Known
<1> QED BY <1>1, <1>2, Zenon DEF Settled, Carries

(* Steps of one connection *)

\* Only connection c differs, and it is x now.
Moves(w, v, c, x) ==
    /\ v \in HubRec /\ v.obj = w.obj /\ v.bySid = w.bySid
    /\ Cn(v, c) = x /\ \A d \in CN : d # c => Cn(v, d) = Cn(w, d)

\* Replacing the record of a connection is such a step.
LEMMA MoveTo ==
  ASSUME NEW w \in HubRec, NEW c \in CN, NEW x \in ConnRec
  PROVE  /\ Moves(w, [w EXCEPT !.conn[c] = x], c, x)
         /\ [w EXCEPT !.conn[c] = x].gone = w.gone /\ [w EXCEPT !.conn[c] = x].interest = w.interest
         /\ [w EXCEPT !.conn[c] = x].byUser = w.byUser /\ [w EXCEPT !.conn[c] = x].toks = w.toks
<1> DEFINE r == [w.conn EXCEPT ![c] = x]
           v == [w EXCEPT !.conn[c] = x]
<1>1. w.conn \in [CN -> ConnRec]
  BY HubFields
<1>2. r \in [CN -> ConnRec] /\ r[c] = x /\ \A d \in CN : d # c => r[d] = Cn(w, d)
  BY <1>1, Zenon DEF Cn
<1>3. v = [w EXCEPT !.conn = r]
  OBVIOUS
<1> HIDE DEF r
<1>4. /\ v \in HubRec /\ v.obj = w.obj /\ v.bySid = w.bySid /\ v.conn = r /\ v.gone = w.gone /\ v.interest = w.interest
      /\ v.byUser = w.byUser /\ v.toks = w.toks
  BY <1>2, <1>3, Zenon DEF HubRec
<1> HIDE DEF v
<1>5. Moves(w, v, c, x)
  BY <1>2, <1>4 DEF Moves, Cn
<1> QED BY <1>4, <1>5, Zenon DEF v

\* A connection that has no session object moves on in its bind.
LEMMA EarlyMove ==
  ASSUME NEW w, HubInv(w), NEW c \in CN, Cn(w, c).pc \in Early, NEW x \in ConnRec, NEW v, Moves(w, v, c, x),
         x.pc \in Early, RecOK(x),
         x.pc \in {"adopt", "enter"} =>
               \/ Cn(w, c).pc \in {"adopt", "enter"} /\ Cn(w, c).data.sid = x.data.sid
               \/ /\ \A h \in Hubs : At(w, h, x.data.sid) = 0
                  /\ \A d \in CN : ~Carries(w, d, x.data.sid)
                  /\ \E o \in DOMAIN w.obj : Ob(w, o).sid = x.data.sid
  PROVE  HubInv(v)
<1>0. /\ w \in HubRec /\ v \in HubRec /\ v.obj = w.obj /\ v.bySid = w.bySid
      /\ Cn(v, c) = x /\ \A d \in CN : d # c => Cn(v, d) = Cn(w, d)
  BY Zenon DEF HubInv, Moves
<1>1. Known(v) /\ Single(v)
  <2>1. \A p \in DOMAIN w.obj : p \in DOMAIN v.obj /\ Ob(v, p) = Ob(w, p)
    BY <1>0, Zenon DEF Ob
  <2> QED BY <1>0, <2>1, KnownKept, Zenon
<1>2. Cn(w, c).pc # "register" /\ x.pc # "register" /\ Cn(w, c).pc # "attach" /\ x.pc # "attach"
      /\ Cn(w, c).pc \notin {"open", "drain"} /\ Cn(w, c).obj = 0 /\ x.obj = 0
  BY Zenon DEF Early, HubInv, ConnOK, RecOK
<1>3. \A d \in CN, s \in Sid : d # c => (Carries(v, d, s) <=> Carries(w, d, s))
  BY <1>0, Zenon DEF Carries, Ob
<1>4. \A s \in Sid : Carries(v, c, s) => x.pc \in {"adopt", "enter"} /\ s = x.data.sid
  BY <1>0, <1>2, Zenon DEF Carries
<1>5. InHand(v)
  <2>1. ASSUME NEW s \in Sid, Carries(v, c, s)
        PROVE /\ \A h \in Hubs : At(v, h, s) = 0
              /\ \A d \in CN : Carries(v, d, s) => d = c
              /\ \E o \in DOMAIN v.obj : Ob(v, o).sid = s
    <3>1. CASE Cn(w, c).pc \in {"adopt", "enter"} /\ Cn(w, c).data.sid = x.data.sid
      <4>1. Carries(w, c, s)
        BY <3>1, <2>1, <1>4, Zenon DEF Carries
      <4> QED BY <4>1, <1>0, <1>3 DEF HubInv, InHand, At, Ob
    <3>2. CASE /\ \A h \in Hubs : At(w, h, x.data.sid) = 0
               /\ \A d \in CN : ~Carries(w, d, x.data.sid)
               /\ \E o \in DOMAIN w.obj : Ob(w, o).sid = x.data.sid
      BY <3>2, <2>1, <1>0, <1>3, <1>4 DEF At, Ob
    <3> QED BY <3>1, <3>2, <2>1, <1>4, Zenon
  <2>2. ASSUME NEW d \in CN, d # c, NEW s \in Sid, Carries(v, d, s)
        PROVE /\ \A h \in Hubs : At(v, h, s) = 0
              /\ \A e \in CN : Carries(v, e, s) => e = d
              /\ \E o \in DOMAIN v.obj : Ob(v, o).sid = s
    <3>1. Carries(w, d, s)
      BY <1>3, <2>2, Zenon
    <3>2. ~Carries(v, c, s)
      BY <2>1, <2>2
    <3> QED BY <1>0, <1>3, <3>1, <3>2 DEF HubInv, InHand, At, Ob
  <2> QED BY <2>1, <2>2 DEF InHand
<1>6. Drawn(v)
  BY <1>0, SidConn DEF HubInv, Drawn, Ob
<1>7. ConnOK(v)
  <2>1. \A d \in CN : RecOK(Cn(v, d))
    BY <1>0, Zenon DEF HubInv, ConnOK
  <2> QED BY <1>0, <1>2, <2>1 DEF HubInv, ConnOK, Ob
<1>8. \A o \in DOMAIN w.obj : Ob(w, o).conn # c \/ Ob(w, o).conn = 0
  <2>1. \A o \in DOMAIN w.obj : o # 0
    BY <1>0, SessFields
  <2> QED BY <1>2, <2>1, Zenon DEF HubInv, ObjOK
<1>9. \A o \in DOMAIN w.obj : Ob(w, o).conn \in {0} \cup CN
  BY <1>0, SessFields, Zenon
<1>10. ObjOK(v)
  BY <1>0, <1>8, <1>9 DEF HubInv, ObjOK, Ob
<1>11. Reclaimable(v)
  <2>1. ASSUME NEW o \in DOMAIN w.obj, Held(w, o) PROVE Held(v, o)
    BY <1>0, <1>2, <1>8, <1>9, <2>1, Zenon DEF Held, Ob
  <2> QED BY <1>0, <2>1, Zenon DEF HubInv, Reclaimable, At, Ob
<1> QED BY <1>0, <1>1, <1>5, <1>6, <1>7, <1>10, <1>11, Zenon DEF HubInv

\* The points of a connection whose bind is over.
Serving == {"open", "drain", "left", "closed"}
\* It stops serving an object that is not its own any more, not registered, or dropped.
MayMove(w, c, x) ==
    \/ x.pc \in {"open", "drain"} \/ x.pc = Cn(w, c).pc \/ Ob(w, x.obj).conn # c
    \/ At(w, Ob(w, x.obj).hub, Ob(w, x.obj).sid) # x.obj \/ Ob(w, x.obj).dropped

\* A connection that serves a session, or did, takes a step.
LEMMA LateMove ==
  ASSUME NEW w, HubInv(w), NEW c \in CN, Cn(w, c).pc \in Serving, NEW x \in ConnRec, NEW v, Moves(w, v, c, x),
         x.pc \in Serving, x.obj = Cn(w, c).obj, x.hub = Cn(w, c).hub, MayMove(w, c, x)
  PROVE  HubInv(v)
<1>0. /\ w \in HubRec /\ v \in HubRec /\ v.obj = w.obj /\ v.bySid = w.bySid
      /\ Cn(v, c) = x /\ \A d \in CN : d # c => Cn(v, d) = Cn(w, d)
  BY Zenon DEF HubInv, Moves
<1>1. Known(v) /\ Single(v)
  <2>1. \A p \in DOMAIN w.obj : p \in DOMAIN v.obj /\ Ob(v, p) = Ob(w, p)
    BY <1>0, Zenon DEF Ob
  <2> QED BY <1>0, <2>1, KnownKept, Zenon
<1>2. Cn(w, c).pc \notin Early \cup {"register", "attach"} /\ x.pc \notin Early \cup {"register", "attach"}
  BY DEF Early, Serving
<1>3. \A d \in CN, s \in Sid : (Carries(v, d, s) <=> Carries(w, d, s))
  BY <1>0, <1>2, Zenon DEF Carries, Early, Ob
<1>4. InHand(v)
  BY <1>0, <1>3 DEF HubInv, InHand, At, Ob
<1>5. Drawn(v)
  BY <1>0, <1>2, SidConn DEF HubInv, Drawn, Ob
<1>6. ConnOK(v)
  <2>1. \A d \in CN : Cn(v, d).obj = Cn(w, d).obj /\ Cn(v, d).hub = Cn(w, d).hub
    BY <1>0, Zenon
  <2>2. \A d \in CN : Cn(v, d).pc \in Early \cup {"register", "attach"} => Cn(v, d) = Cn(w, d)
    BY <1>0, <1>2, Zenon
  <2>3. RecOK(x)
    <3>1. Cn(w, c).obj # 0
      BY <1>2, Zenon DEF HubInv, ConnOK, RecOK
    <3> QED BY <1>2, <3>1, Zenon DEF RecOK, Early
  <2>4. \A d \in CN : RecOK(Cn(v, d))
    BY <1>0, <2>3, Zenon DEF HubInv, ConnOK
  <2> QED BY <1>0, <2>1, <2>2, <2>4 DEF HubInv, ConnOK, Ob
<1>7. \A o \in DOMAIN w.obj : Ob(w, o).conn \in {0} \cup CN
  BY <1>0, SessFields
<1>8. ObjOK(v)
  BY <1>0, <1>7 DEF HubInv, ObjOK, Ob
<1>9. Reclaimable(v)
  <2>1. ASSUME NEW o \in DOMAIN w.obj, Held(w, o), At(w, Ob(w, o).hub, Ob(w, o).sid) = o PROVE Held(v, o)
    <3>1. CASE Ob(w, o).dropped
      BY <1>0, <3>1, Zenon DEF Held, Ob
    <3>2. CASE \E d \in CN : Cn(w, d).obj = o /\ Cn(w, d).pc = "attach"
      BY <1>0, <1>2, <3>2, Zenon DEF Held
    <3>3. CASE Ob(w, o).conn # 0 /\ Cn(w, Ob(w, o).conn).pc \in {"open", "drain"}
      <4>1. CASE Ob(w, o).conn # c
        BY <1>0, <1>7, <3>3, <4>1, Zenon DEF Held, Ob
      <4>2. CASE Ob(w, o).conn = c
        <5>1. x.obj = o
          BY <3>3, <4>2 DEF HubInv, ObjOK
        <5> QED BY <1>0, <2>1, <3>3, <4>2, <5>1, Zenon DEF Held, MayMove, Ob
      <4> QED BY <4>1, <4>2, Zenon
    <3> QED BY <2>1, <3>1, <3>2, <3>3, Zenon DEF Held
  <2> QED BY <1>0, <2>1, Zenon DEF HubInv, Reclaimable, At, Ob
<1> QED BY <1>0, <1>1, <1>4, <1>5, <1>6, <1>8, <1>9, Zenon DEF HubInv

\* The connections are numbered.
LEMMA Numbered ==
  ASSUME SessionBounds
  PROVE  CN = 1 .. Len(Conns) /\ Len(Conns) \in Nat /\ Sid = CN
BY DEF CN, Sid, SessionBounds

\* The user of a connection and the hubs it may go to.
LEMMA ConnOf ==
  ASSUME SessionBounds, NEW c \in CN
  PROVE  UserOf(c) \in Users /\ Conns[c].hubs \in SUBSET Hubs /\ Conns[c].hubs # {} /\ Conns[c].start \in {"new", "open", "joined"}
<1> DEFINE R == [user : Users, hubs : (SUBSET Hubs) \ {{}}, start : {"new", "open", "joined"}]
<1>1. Conns \in Seq(R) /\ c \in DOMAIN Conns
  BY Zenon DEF SessionBounds, CN
<1> HIDE DEF R
<1>2. Conns[c] \in R
  BY <1>1
<1> QED BY <1>2, Zenon DEF R, UserOf

\* A connection takes session object o over.
Takes(w, v, c, o) ==
    /\ v \in HubRec /\ v.bySid = w.bySid /\ DOMAIN v.obj = DOMAIN w.obj
    /\ Ob(v, o).hub = Ob(w, o).hub /\ Ob(v, o).sid = Ob(w, o).sid /\ Ob(v, o).conn = c
    /\ \A p \in DOMAIN w.obj : p # o => Ob(v, p) = Ob(w, p)
    /\ Cn(v, c).pc = "open" /\ Cn(v, c).obj = o /\ Cn(v, c).hub = Cn(w, c).hub
    /\ \A d \in CN : d # c => Cn(v, d) = Cn(w, d)

\* A connection that is not bound yet takes a settled session of its hub.
LEMMA TakeOver ==
  ASSUME SessionBounds, NEW w, HubInv(w), NEW c \in CN, NEW o \in DOMAIN w.obj, NEW v, Takes(w, v, c, o),
         Settled(w, o), Ob(w, o).hub = Cn(w, c).hub,
         Cn(w, c).pc = "new" \/ (Cn(w, c).pc = "attach" /\ Cn(w, c).obj = o)
  PROVE  HubInv(v)
<1>0. /\ v \in HubRec /\ v.bySid = w.bySid /\ DOMAIN v.obj = DOMAIN w.obj
      /\ Ob(v, o).hub = Ob(w, o).hub /\ Ob(v, o).sid = Ob(w, o).sid /\ Ob(v, o).conn = c
      /\ \A p \in DOMAIN w.obj : p # o => Ob(v, p) = Ob(w, p)
      /\ Cn(v, c).pc = "open" /\ Cn(v, c).obj = o /\ Cn(v, c).hub = Cn(w, c).hub
      /\ \A d \in CN : d # c => Cn(v, d) = Cn(w, d)
  BY Zenon DEF Takes
<1>1. w \in HubRec /\ c # 0 /\ \A p \in DOMAIN w.obj : p # 0 /\ Ob(w, p).conn \in {0} \cup CN
  BY SessFields, Numbered DEF HubInv
<1>2. \A p \in DOMAIN w.obj : Ob(v, p).hub = Ob(w, p).hub /\ Ob(v, p).sid = Ob(w, p).sid
  BY <1>0, Zenon
<1>3. Known(v) /\ Single(v)
  BY <1>0, <1>2, KnownKept, Zenon
<1>4. \A d \in CN : Cn(v, d).pc = "register" => Cn(v, d) = Cn(w, d) /\ Cn(w, d).obj \in DOMAIN w.obj /\ Cn(w, d).obj # o
  BY <1>0 DEF HubInv, ConnOK, RecOK, Early, Settled
<1>5. \A d \in CN, s \in Sid : Carries(v, d, s) => Carries(w, d, s)
  BY <1>0, <1>4, Zenon DEF Carries
<1>6. InHand(v)
  BY <1>0, <1>2, <1>5 DEF HubInv, InHand, At
<1>7. Drawn(v)
  <2>1. \A p \in DOMAIN w.obj : Ob(w, p).sid \in CN
    BY <1>1, SidConn, Zenon
  <2>2. Cn(v, c).pc \notin Early
    BY <1>0, Zenon DEF Early
  <2>3. \A d \in CN : Cn(w, d).pc \notin Early => Cn(v, d).pc \notin Early
    BY <1>0, <2>2, Zenon
  <2> QED BY <1>0, <1>2, <2>1, <2>3, Zenon DEF HubInv, Drawn
<1>8. ConnOK(v)
  <2>1. ASSUME NEW d \in CN, d # c, Cn(v, d).pc = "register"
        PROVE Ob(v, Cn(v, d).obj).conn = d /\ \A e \in CN : Cn(v, e).obj = Cn(v, d).obj => e = d
    <3>1. Cn(v, d) = Cn(w, d) /\ Cn(w, d).obj \in DOMAIN w.obj /\ Cn(w, d).obj # o
      BY <1>4, <2>1, Zenon
    <3>2. Ob(w, Cn(w, d).obj).conn = d /\ \A e \in CN : Cn(w, e).obj = Cn(w, d).obj => e = d
      BY <2>1, <3>1, Zenon DEF HubInv, ConnOK
    <3> QED BY <1>0, <3>1, <3>2
  <2>2. \A d \in CN : Cn(v, d).obj # 0 => Cn(v, d).obj \in DOMAIN v.obj /\ Ob(v, Cn(v, d).obj).hub = Cn(v, d).hub
    <3>1. ASSUME NEW d \in CN, d # c, Cn(v, d).obj # 0
          PROVE Cn(v, d).obj \in DOMAIN v.obj /\ Ob(v, Cn(v, d).obj).hub = Cn(v, d).hub
      <4>1. Cn(v, d) = Cn(w, d)
        BY <1>0, <3>1, Zenon
      <4>2. Cn(w, d).obj \in DOMAIN w.obj /\ Ob(w, Cn(w, d).obj).hub = Cn(w, d).hub
        BY <3>1, <4>1, Zenon DEF HubInv, ConnOK
      <4> QED BY <1>0, <1>2, <4>1, <4>2, Zenon
    <3>2. Cn(v, c).obj \in DOMAIN v.obj /\ Ob(v, Cn(v, c).obj).hub = Cn(v, c).hub
      BY <1>0, Zenon
    <3> QED BY <3>1, <3>2, Zenon
  <2>3. RecOK(Cn(v, c))
    BY <1>0, <1>1, Zenon DEF RecOK, Early
  <2>4. \A d \in CN : RecOK(Cn(v, d))
    BY <1>0, <2>3, Zenon DEF HubInv, ConnOK
  <2> QED BY <1>0, <2>1, <2>2, <2>4, Zenon DEF ConnOK
<1>9. \A p \in DOMAIN w.obj : p # o /\ Ob(w, p).conn # 0 => Ob(w, p).conn # c
  BY <1>1 DEF HubInv, ObjOK, ConnOK, RecOK, Early
<1>10. ObjOK(v)
  <2>1. ASSUME NEW p \in DOMAIN w.obj, p # o, Ob(v, p).conn # 0 PROVE Cn(v, Ob(v, p).conn).obj = p
    <3>1. Ob(v, p) = Ob(w, p) /\ Ob(w, p).conn # 0 /\ Ob(w, p).conn \in CN /\ Ob(w, p).conn # c
      BY <1>0, <1>1, <1>9, <2>1, Zenon
    <3>2. Cn(w, Ob(w, p).conn).obj = p
      BY <3>1, Zenon DEF HubInv, ObjOK
    <3> QED BY <1>0, <3>1, <3>2, Zenon
  <2>2. Cn(v, Ob(v, o).conn).obj = o
    BY <1>0, Zenon
  <2> QED BY <1>0, <2>1, <2>2, Zenon DEF ObjOK
<1>11. Reclaimable(v)
  <2>1. Held(v, o)
    BY <1>0, <1>1, Zenon DEF Held
  <2>2. ASSUME NEW p \in DOMAIN w.obj, p # o, Held(w, p) PROVE Held(v, p)
    <3>1. \A d \in CN : Cn(w, d).obj = p /\ Cn(w, d).pc = "attach" => d # c
      BY <2>2, Zenon DEF Early
    <3>2. Ob(v, p) = Ob(w, p)
      BY <1>0, <2>2, Zenon
    <3>3. ASSUME NEW d \in CN, Cn(w, d).obj = p, Cn(w, d).pc = "attach" PROVE Held(v, p)
      BY <1>0, <3>1, <3>3, Zenon DEF Held
    <3>4. ASSUME Ob(w, p).conn # 0, Cn(w, Ob(w, p).conn).pc \in {"open", "drain"} PROVE Held(v, p)
      <4>1. Ob(w, p).conn \in CN /\ Ob(w, p).conn # c
        BY <1>1, <1>9, <2>2, <3>4, Zenon
      <4> QED BY <1>0, <3>2, <3>4, <4>1, Zenon DEF Held
    <3> QED BY <2>2, <3>2, <3>3, <3>4, Zenon DEF Held
  <2> QED BY <1>0, <1>2, <2>1, <2>2, Zenon DEF HubInv, Reclaimable, At
<1> QED BY <1>0, <1>3, <1>6, <1>7, <1>8, <1>10, <1>11, Zenon DEF HubInv

\* What a take-over leaves as it was.
TookOver(w, v, c) ==
    /\ v.bySid = w.bySid /\ v.gone = w.gone /\ v.interest = w.interest /\ DOMAIN v.obj = DOMAIN w.obj
    /\ Cn(v, c).req = Cn(w, c).req /\ Cn(v, c).pc = "open" /\ Cn(v, c).hub = Cn(w, c).hub
    /\ \A d \in CN : d # c => /\ Cn(v, d).pc = Cn(w, d).pc /\ Cn(v, d).obj = Cn(w, d).obj /\ Cn(v, d).hub = Cn(w, d).hub
                              /\ Cn(v, d).data = Cn(w, d).data /\ Cn(v, d).req = Cn(w, d).req
    /\ \A p \in DOMAIN w.obj : /\ Ob(v, p).sid = Ob(w, p).sid /\ Ob(v, p).touched = Ob(w, p).touched
                               /\ Ob(v, p).room = Ob(w, p).room /\ Ob(v, p).hub = Ob(w, p).hub

\* The take-over of a bind, with the older socket told to leave.
LEMMA AttachKeeps ==
  ASSUME SessionBounds, NEW w, HubInv(w), NEW c \in CN, NEW o \in DOMAIN w.obj,
         Settled(w, o), Ob(w, o).hub = Cn(w, c).hub,
         Cn(w, c).pc = "new" \/ (Cn(w, c).pc = "attach" /\ Cn(w, c).obj = o)
  PROVE  HubInv(Attach(w, c, o)) /\ TookOver(w, Attach(w, c, o), c)
<1> DEFINE u == IF Ob(w, o).conn = c THEN w ELSE Kick(w, o, "duplicate")
<1>a. w \in HubRec
  BY Zenon DEF HubInv
<1>1. /\ u \in HubRec /\ Quiet(w, u) /\ u.obj = w.obj /\ u.bySid = w.bySid /\ u.gone = w.gone
      /\ u.interest = w.interest
  <2>1. CASE Ob(w, o).conn = c
    BY <2>1, <1>a, Zenon DEF Quiet, SameObjs, SameConns, Leaves
  <2>2. CASE Ob(w, o).conn # c
    <3>1. "duplicate" \in Codes
      BY DEF Codes
    <3> DEFINE y == Kick(w, o, "duplicate")
    <3>2. Quiet(w, y) /\ y.obj = w.obj /\ y.bySid = w.bySid /\ y.gone = w.gone /\ y.interest = w.interest
      BY <3>1, <1>a, KickQuiet, Zenon
    <3>3. u = y
      BY <2>2, Zenon
    <3> HIDE DEF u, y
    <3> QED BY <3>2, <3>3, Zenon DEF Quiet
  <2> QED BY <2>1, <2>2, Zenon
<1> DEFINE r == [Ob(u, o) EXCEPT !.conn = c, !.bound = TRUE, !.resumed = TRUE, !.live = TRUE, !.dropped = FALSE]
           x == [Cn(u, c) EXCEPT !.pc = "open", !.obj = o]
           b == [u.obj EXCEPT ![o] = r]
           k == [u.conn EXCEPT ![c] = x]
           v == Attach(w, c, o)
<1>2. v = [u EXCEPT !.obj = b, !.conn = k]
  BY DEF Attach, Ob, Cn
<1> HIDE DEF u
<1>3. HubInv(u)
  BY <1>1, QuietKeeps, Zenon
<1>4. Ob(u, o) \in SessRec /\ u.conn \in [CN -> ConnRec] /\ u.obj \in Seq(SessRec) /\ o \in Nat /\ o \in DOMAIN u.obj
  BY <1>1, SessFields, HubFields, Zenon
<1>5. /\ r \in SessRec /\ r.hub = Ob(w, o).hub /\ r.sid = Ob(w, o).sid /\ r.conn = c /\ r.touched = Ob(w, o).touched
      /\ r.room = Ob(w, o).room
  BY <1>1, <1>4, Zenon DEF SessRec, Ob
<1>6. x \in ConnRec /\ x.pc = "open" /\ x.obj = o /\ x.hub = Cn(w, c).hub /\ x.req = Cn(w, c).req
  BY <1>1, <1>4, ZenonT(30) DEF ConnRec, Pcs, Quiet, SameConns, Cn
<1> HIDE DEF r, x
<1>7. b \in Seq(SessRec) /\ DOMAIN b = DOMAIN w.obj /\ b[o] = r /\ \A p \in DOMAIN w.obj : p # o => b[p] = Ob(w, p)
  BY <1>1, <1>4, <1>5, ObjUpdate DEF Ob
<1>8. k \in [CN -> ConnRec] /\ k[c] = x /\ \A d \in CN : d # c => k[d] = Cn(u, d)
  BY <1>4, <1>6, Zenon DEF Cn
<1> HIDE DEF b, k
<1>9. v \in HubRec /\ v.obj = b /\ v.conn = k /\ v.bySid = u.bySid /\ v.gone = u.gone /\ v.interest = u.interest
  BY <1>1, <1>2, <1>7, <1>8, ZenonT(30) DEF HubRec
<1> HIDE DEF v
<1>10. Takes(u, v, c, o)
  <2>1. Cn(u, c).hub = Cn(w, c).hub
    BY <1>1 DEF Quiet, SameConns
  <2>2. Ob(v, o) = r /\ Ob(u, o) = Ob(w, o) /\ \A p \in DOMAIN w.obj : p # o => Ob(v, p) = Ob(u, p)
    BY <1>1, <1>7, <1>9, Zenon DEF Ob
  <2>3. Cn(v, c) = x /\ \A d \in CN : d # c => Cn(v, d) = Cn(u, d)
    BY <1>8, <1>9, Zenon DEF Cn
  <2> QED BY <1>1, <1>5, <1>6, <1>7, <1>9, <2>1, <2>2, <2>3, Zenon DEF Takes
<1>11. HubInv(v)
  <2>1. Settled(u, o) /\ Ob(u, o).hub = Cn(u, c).hub /\ (Cn(u, c).pc = "new" \/ (Cn(u, c).pc = "attach" /\ Cn(u, c).obj = o))
    BY <1>1 DEF Settled, Quiet, SameConns, Ob
  <2> QED BY <1>3, <1>4, <1>10, <2>1, TakeOver, Zenon
<1>12. \A d \in CN : d # c => /\ Cn(v, d).pc = Cn(w, d).pc /\ Cn(v, d).obj = Cn(w, d).obj /\ Cn(v, d).hub = Cn(w, d).hub
                              /\ Cn(v, d).data = Cn(w, d).data /\ Cn(v, d).req = Cn(w, d).req
  BY <1>1, <1>8, <1>9 DEF Quiet, SameConns, Cn
<1>13. \A p \in DOMAIN w.obj : /\ Ob(v, p).sid = Ob(w, p).sid /\ Ob(v, p).touched = Ob(w, p).touched
                               /\ Ob(v, p).room = Ob(w, p).room /\ Ob(v, p).hub = Ob(w, p).hub
  BY <1>5, <1>7, <1>9, Zenon DEF Ob
<1>14. Cn(v, c) = x
  BY <1>8, <1>9, Zenon DEF Cn
<1>15. TookOver(w, v, c)
  BY <1>1, <1>6, <1>7, <1>9, <1>12, <1>13, <1>14, Zenon DEF TookOver
<1> QED BY <1>11, <1>15, Zenon DEF v

\* Connection c gets the new session object r.
Adds(w, v, c, r, x) ==
    /\ v \in HubRec /\ v.obj = Append(w.obj, r) /\ r \in SessRec
    /\ Cn(v, c) = x /\ \A d \in CN : d # c => Cn(v, d) = Cn(w, d)
    /\ r.hub = Cn(w, c).hub /\ x.hub = Cn(w, c).hub /\ x.obj = Len(w.obj) + 1 /\ x.req = Cn(w, c).req

\* What appending a session object does.
LEMMA Added ==
  ASSUME NEW w \in HubRec, NEW r \in SessRec
  PROVE  /\ Append(w.obj, r) \in Seq(SessRec) /\ DOMAIN Append(w.obj, r) = DOMAIN w.obj \cup {Len(w.obj) + 1}
         /\ Len(w.obj) + 1 \notin DOMAIN w.obj /\ Len(w.obj) + 1 \in Nat \ {0} /\ Append(w.obj, r)[Len(w.obj) + 1] = r
         /\ \A p \in DOMAIN w.obj : Append(w.obj, r)[p] = Ob(w, p)
         /\ Len(Append(w.obj, r)) = Len(w.obj) + 1
<1>1. w.obj \in Seq(SessRec)
  BY HubFields, Zenon
<1> QED BY <1>1 DEF Ob

\* What a new object leaves as it was.
Grown(w, v, c, r, x) ==
    /\ DOMAIN v.obj = DOMAIN w.obj \cup {x.obj} /\ x.obj \notin DOMAIN w.obj /\ x.obj # 0 /\ Ob(v, x.obj) = r
    /\ \A p \in DOMAIN w.obj : Ob(v, p) = Ob(w, p)
    /\ ConnOK(v) /\ ObjOK(v)
    /\ \A p \in DOMAIN w.obj : Held(w, p) => Held(v, p)
    /\ \A d \in CN, s \in Sid : d # c => (Carries(v, d, s) <=> Carries(w, d, s))
    /\ \A d \in CN : Cn(w, d).pc \notin Early \/ d = c => Cn(v, d).pc \notin Early

\* Connections other than c keep what they hold, and objects what they are.
LEMMA AddsKeeps ==
  ASSUME SessionBounds, NEW w, HubInv(w), NEW c \in CN, Cn(w, c).pc \in Early, NEW r, NEW x, NEW v, Adds(w, v, c, r, x),
         x.pc \in {"attach", "register"}, x.pc = "register" => r.conn = c, r.conn \in {0, c}
  PROVE  Grown(w, v, c, r, x)
<1>0. /\ w \in HubRec /\ v \in HubRec /\ r \in SessRec
      /\ Cn(v, c) = x /\ (\A d \in CN : d # c => Cn(v, d) = Cn(w, d))
      /\ r.hub = Cn(w, c).hub /\ x.hub = Cn(w, c).hub /\ x.req = Cn(w, c).req
  BY Zenon DEF Adds, HubInv
<1>1. DOMAIN v.obj = DOMAIN w.obj \cup {x.obj} /\ x.obj \notin DOMAIN w.obj /\ x.obj # 0 /\ Ob(v, x.obj) = r
      /\ \A p \in DOMAIN w.obj : Ob(v, p) = Ob(w, p)
  <2>1. v.obj = Append(w.obj, r) /\ x.obj = Len(w.obj) + 1
    BY Zenon DEF Adds
  <2> QED BY <1>0, <2>1, Added DEF Ob
<1>2. \A d \in CN : Cn(w, d).obj # 0 => Cn(w, d).obj \in DOMAIN w.obj
  BY Zenon DEF HubInv, ConnOK
<1>3. \A d \in CN : Cn(w, d).obj # x.obj
  BY <1>1, <1>2, Zenon
<1>4. Cn(w, c).obj = 0 /\ Cn(w, c).req = "none"
  BY Zenon DEF HubInv, ConnOK, RecOK
<1>5. \A p \in DOMAIN w.obj : p # 0 /\ Ob(w, p).conn \in {0} \cup CN
  BY <1>0, SessFields, Zenon
<1>6. \A p \in DOMAIN w.obj : Ob(w, p).conn = 0 \/ Ob(w, p).conn # c
  BY <1>4, <1>5, Zenon DEF HubInv, ObjOK
<1>7. ConnOK(v)
  <2>1. RecOK(x)
    BY <1>0, <1>1, <1>4, Zenon DEF RecOK, Early
  <2>2. \A d \in CN : RecOK(Cn(v, d))
    BY <1>0, <2>1, Zenon DEF HubInv, ConnOK
  <2>3. \A d \in CN : Cn(v, d).obj # 0 => Cn(v, d).obj \in DOMAIN v.obj /\ Ob(v, Cn(v, d).obj).hub = Cn(v, d).hub
    <3>1. ASSUME NEW d \in CN, d # c, Cn(v, d).obj # 0
          PROVE Cn(v, d).obj \in DOMAIN v.obj /\ Ob(v, Cn(v, d).obj).hub = Cn(v, d).hub
      <4>1. Cn(v, d) = Cn(w, d)
        BY <1>0, <3>1, Zenon
      <4>2. Cn(w, d).obj \in DOMAIN w.obj /\ Ob(w, Cn(w, d).obj).hub = Cn(w, d).hub
        BY <3>1, <4>1, Zenon DEF HubInv, ConnOK
      <4> QED BY <1>1, <4>1, <4>2, Zenon
    <3>2. Cn(v, c).obj \in DOMAIN v.obj /\ Ob(v, Cn(v, c).obj).hub = Cn(v, c).hub
      BY <1>0, <1>1, Zenon
    <3> QED BY <3>1, <3>2, Zenon
  <2>4. ASSUME NEW d \in CN, Cn(v, d).pc = "register"
        PROVE Ob(v, Cn(v, d).obj).conn = d /\ \A e \in CN : Cn(v, e).obj = Cn(v, d).obj => e = d
    <3>1. CASE d = c
      BY <1>0, <1>1, <1>3, <2>4, <3>1, Zenon
    <3>2. CASE d # c
      <4>1. Cn(v, d) = Cn(w, d) /\ Cn(w, d).obj \in DOMAIN w.obj
        BY <1>0, <1>2, <2>4, <3>2, Zenon DEF HubInv, ConnOK, RecOK, Early
      <4>2. Ob(w, Cn(w, d).obj).conn = d /\ \A e \in CN : Cn(w, e).obj = Cn(w, d).obj => e = d
        BY <2>4, <4>1 DEF HubInv, ConnOK
      <4> QED BY <1>0, <1>1, <4>1, <4>2
    <3> QED BY <3>1, <3>2, Zenon
  <2> QED BY <2>2, <2>3, <2>4, Zenon DEF ConnOK
<1>8. ObjOK(v)
  <2>1. ASSUME NEW p \in DOMAIN w.obj, Ob(v, p).conn # 0 PROVE Cn(v, Ob(v, p).conn).obj = p
    <3>1. Ob(v, p) = Ob(w, p) /\ Ob(w, p).conn # 0 /\ Ob(w, p).conn \in CN /\ Ob(w, p).conn # c
      BY <1>1, <1>5, <1>6, <2>1, Zenon
    <3>2. Cn(w, Ob(w, p).conn).obj = p
      BY <3>1, Zenon DEF HubInv, ObjOK
    <3> QED BY <1>0, <3>1, <3>2, Zenon
  <2>2. Ob(v, x.obj).conn # 0 => Cn(v, Ob(v, x.obj).conn).obj = x.obj
    BY <1>0, <1>1, Zenon
  <2> QED BY <1>1, <2>1, <2>2, Zenon DEF ObjOK
<1>9. ASSUME NEW p \in DOMAIN w.obj, Held(w, p) PROVE Held(v, p)
  <2>1. \A d \in CN : Cn(w, d).obj = p => d # c
    BY <1>4, <1>5, Zenon
  <2>2. Ob(v, p) = Ob(w, p)
    BY <1>1, Zenon
  <2>3. ASSUME NEW d \in CN, Cn(w, d).obj = p, Cn(w, d).pc = "attach" PROVE Held(v, p)
    BY <1>0, <2>1, <2>3, Zenon DEF Held
  <2>4. ASSUME Ob(w, p).conn # 0, Cn(w, Ob(w, p).conn).pc \in {"open", "drain"} PROVE Held(v, p)
    <3>1. Ob(w, p).conn \in CN /\ Ob(w, p).conn # c
      BY <1>5, <1>6, <2>4, Zenon
    <3> QED BY <1>0, <2>2, <2>4, <3>1, Zenon DEF Held
  <2> QED BY <1>9, <2>2, <2>3, <2>4, Zenon DEF Held
<1>10. \A d \in CN, s \in Sid : d # c => (Carries(v, d, s) <=> Carries(w, d, s))
  <2>1. \A d \in CN : Cn(w, d).pc = "register" => Cn(w, d).obj \in DOMAIN w.obj
    BY <1>2 DEF HubInv, ConnOK, RecOK, Early
  <2> QED BY <1>0, <1>1, <2>1 DEF Carries
<1>11. \A d \in CN : Cn(w, d).pc \notin Early \/ d = c => Cn(v, d).pc \notin Early
  BY <1>0, Zenon DEF Early
<1> QED BY <1>1, <1>7, <1>8, <1>9, <1>10, <1>11, Zenon DEF Grown

\* The registry differs in one entry.
Enters(w, v, g, t, o) ==
    At(v, g, t) = o /\ \A h \in Hubs, s \in Sid : h # g \/ s # t => At(v, h, s) = At(w, h, s)

\* register of a session that was handed over: it is entered where it was in hand.
LEMMA EnterKeeps ==
  ASSUME SessionBounds, NEW w, HubInv(w), NEW c \in CN, Cn(w, c).pc = "enter", NEW r, NEW x, NEW v, Adds(w, v, c, r, x),
         x.pc = "attach", r.conn = 0, r.sid = Cn(w, c).data.sid,
         Enters(w, v, r.hub, r.sid, x.obj)
  PROVE  HubInv(v)
<1>0. /\ w \in HubRec /\ v \in HubRec /\ r \in SessRec /\ r.sid \in Sid /\ r.hub \in Hubs
      /\ Cn(v, c) = x /\ (\A d \in CN : d # c => Cn(v, d) = Cn(w, d)) /\ Cn(w, c).pc \in Early
  BY Zenon DEF Adds, HubInv, SessRec, Early
<1>1. /\ DOMAIN v.obj = DOMAIN w.obj \cup {x.obj} /\ x.obj \notin DOMAIN w.obj /\ x.obj # 0 /\ Ob(v, x.obj) = r
      /\ \A p \in DOMAIN w.obj : Ob(v, p) = Ob(w, p)
      /\ ConnOK(v) /\ ObjOK(v)
      /\ \A p \in DOMAIN w.obj : Held(w, p) => Held(v, p)
      /\ \A d \in CN, s \in Sid : d # c => (Carries(v, d, s) <=> Carries(w, d, s))
      /\ \A d \in CN : Cn(w, d).pc \notin Early \/ d = c => Cn(v, d).pc \notin Early
  <2>1. Grown(w, v, c, r, x)
    BY <1>0, AddsKeeps, Zenon
  <2> QED BY <2>1, Zenon DEF Grown
<1>2. /\ \A h \in Hubs : At(w, h, r.sid) = 0
      /\ \A d \in CN : Carries(w, d, r.sid) => d = c
      /\ \E o \in DOMAIN w.obj : Ob(w, o).sid = r.sid
  <2>1. Carries(w, c, r.sid)
    BY DEF Carries
  <2> QED BY <1>0, <2>1, Zenon DEF HubInv, InHand
<1>3. Known(v)
  <2>1. ASSUME NEW h \in Hubs, NEW s \in Sid, At(v, h, s) # 0, h # r.hub \/ s # r.sid
        PROVE At(v, h, s) \in DOMAIN v.obj /\ Ob(v, At(v, h, s)).hub = h /\ Ob(v, At(v, h, s)).sid = s
    <3>1. At(v, h, s) = At(w, h, s)
      BY <2>1, Zenon DEF Enters
    <3>2. At(w, h, s) \in DOMAIN w.obj /\ Ob(w, At(w, h, s)).hub = h /\ Ob(w, At(w, h, s)).sid = s
      BY <2>1, <3>1, Zenon DEF HubInv, Known
    <3> QED BY <1>1, <3>1, <3>2, Zenon
  <2>2. At(v, r.hub, r.sid) = x.obj
    BY Zenon DEF Enters
  <2>3. At(v, r.hub, r.sid) \in DOMAIN v.obj /\ Ob(v, At(v, r.hub, r.sid)).hub = r.hub
        /\ Ob(v, At(v, r.hub, r.sid)).sid = r.sid
    BY <1>1, <2>2, Zenon
  <2> QED BY <2>1, <2>3, Zenon DEF Known
<1>4. Single(v)
  <2>1. \A h \in Hubs, s \in Sid : At(v, h, s) # 0 => At(w, h, s) # 0 \/ (h = r.hub /\ s = r.sid)
    BY Zenon DEF Enters
  <2>2. ASSUME NEW s \in Sid, NEW h \in Hubs, NEW k \in Hubs, At(v, h, s) # 0, At(v, k, s) # 0 PROVE h = k
    <3>1. CASE s = r.sid
      BY <1>2, <2>1, <2>2, <3>1, Zenon
    <3>2. CASE s # r.sid
      <4>1. At(w, h, s) # 0 /\ At(w, k, s) # 0
        BY <2>1, <2>2, <3>2, Zenon
      <4> QED BY <4>1, Zenon DEF HubInv, Single
    <3> QED BY <3>1, <3>2, Zenon
  <2> QED BY <2>2, Zenon DEF Single
<1>5. \A s \in Sid : ~Carries(v, c, s)
  BY <1>0, Zenon DEF Carries
<1>6. InHand(v)
  <2>1. ASSUME NEW d \in CN, d # c, NEW s \in Sid, Carries(w, d, s)
        PROVE s # r.sid /\ (\A h \in Hubs : At(v, h, s) = 0) /\ (\E o \in DOMAIN v.obj : Ob(v, o).sid = s)
              /\ \A e \in CN : Carries(w, e, s) => e = d
    <3>1. s # r.sid
      BY <1>2, <2>1, Zenon
    <3>2. (\A h \in Hubs : At(w, h, s) = 0) /\ (\E o \in DOMAIN w.obj : Ob(w, o).sid = s) /\ \A e \in CN : Carries(w, e, s) => e = d
      BY <2>1, Zenon DEF HubInv, InHand
    <3>3. \A h \in Hubs : At(v, h, s) = 0
      BY <3>1, <3>2 DEF Enters
    <3> QED BY <1>1, <3>1, <3>2, <3>3, Zenon
  <2> QED BY <1>1, <1>5, <2>1 DEF InHand
<1>7. Drawn(v)
  <2>1. PICK p \in DOMAIN w.obj : Ob(w, p).sid = r.sid
    BY <1>2
  <2>2. Cn(w, r.sid).pc \notin Early /\ r.sid \in CN
    BY <1>0, <2>1, SidConn, Zenon DEF HubInv, Drawn
  <2> QED BY <1>0, <1>1, <2>2, SidConn, Zenon DEF HubInv, Drawn
<1>8. Reclaimable(v)
  <2>1. Held(v, x.obj)
    BY <1>0, Zenon DEF Held
  <2>2. ASSUME NEW p \in DOMAIN w.obj, At(v, Ob(v, p).hub, Ob(v, p).sid) = p PROVE Held(v, p)
    <3>1. Ob(w, p).hub \in Hubs /\ Ob(w, p).sid \in Sid /\ Ob(v, p) = Ob(w, p) /\ p # x.obj
      BY <1>0, <1>1, SessFields, Zenon
    <3>2. At(w, Ob(w, p).hub, Ob(w, p).sid) = p
      <4>1. At(v, Ob(w, p).hub, Ob(w, p).sid) = p
        BY <2>2, <3>1, Zenon
      <4>2. Ob(w, p).hub # r.hub \/ Ob(w, p).sid # r.sid
        BY <3>1, <4>1, Zenon DEF Enters
      <4> QED BY <3>1, <4>1, <4>2, Zenon DEF Enters
    <3> QED BY <1>1, <3>2, Zenon DEF HubInv, Reclaimable
  <2> QED BY <1>1, <2>1, <2>2, Zenon DEF Reclaimable
<1> QED BY <1>0, <1>1, <1>3, <1>4, <1>6, <1>7, <1>8, Zenon DEF HubInv

\* A new session is in hand until it is registered.
LEMMA DeclareKeeps ==
  ASSUME SessionBounds, NEW w, HubInv(w), NEW c \in CN, Cn(w, c).pc = "evict", NEW r, NEW x, NEW v, Adds(w, v, c, r, x),
         x.pc = "register", r.conn = c, v.bySid = w.bySid, r.sid = c
  PROVE  HubInv(v)
<1>0. /\ w \in HubRec /\ v \in HubRec /\ r \in SessRec /\ r.sid \in Sid /\ r.hub \in Hubs
      /\ Cn(v, c) = x /\ (\A d \in CN : d # c => Cn(v, d) = Cn(w, d)) /\ Cn(w, c).pc \in Early
  BY DEF Adds, HubInv, SessRec, Early
<1>1. /\ DOMAIN v.obj = DOMAIN w.obj \cup {x.obj} /\ x.obj \notin DOMAIN w.obj /\ x.obj # 0 /\ Ob(v, x.obj) = r
      /\ \A p \in DOMAIN w.obj : Ob(v, p) = Ob(w, p)
      /\ ConnOK(v) /\ ObjOK(v)
      /\ \A p \in DOMAIN w.obj : Held(w, p) => Held(v, p)
      /\ \A d \in CN, s \in Sid : d # c => (Carries(v, d, s) <=> Carries(w, d, s))
      /\ \A d \in CN : Cn(w, d).pc \notin Early \/ d = c => Cn(v, d).pc \notin Early
  <2>1. Grown(w, v, c, r, x)
    BY <1>0, AddsKeeps, Zenon
  <2> QED BY <2>1, Zenon DEF Grown
<1>2. (\A h \in Hubs : At(w, h, r.sid) = 0) /\ \A d \in CN : ~Carries(w, d, r.sid)
  <2>1. \A p \in DOMAIN w.obj : Ob(w, p).sid # r.sid
    BY <1>0 DEF HubInv, Drawn
  <2>2. \A h \in Hubs : At(w, h, r.sid) = 0
    <3>1. ASSUME NEW h \in Hubs, At(w, h, r.sid) # 0 PROVE FALSE
      <4>1. At(w, h, r.sid) \in DOMAIN w.obj /\ Ob(w, At(w, h, r.sid)).sid = r.sid
        BY <1>0, <3>1, Zenon DEF HubInv, Known
      <4> QED BY <2>1, <4>1, Zenon
    <3> QED BY <3>1, Zenon
  <2>3. \A d \in CN : ~Carries(w, d, r.sid)
    BY <1>0, <2>1, Zenon DEF HubInv, InHand
  <2> QED BY <2>2, <2>3, Zenon
<1>3. Known(v) /\ Single(v)
  <2>1. \A p \in DOMAIN w.obj : p \in DOMAIN v.obj /\ Ob(v, p) = Ob(w, p)
    BY <1>1, Zenon
  <2> QED BY <1>0, <2>1, KnownKept, Zenon
<1>4. \A s \in Sid : Carries(v, c, s) => s = r.sid
  BY <1>0, <1>1, Zenon DEF Carries
<1>5. InHand(v)
  <2>1. ASSUME NEW d \in CN, d # c, NEW s \in Sid, Carries(w, d, s)
        PROVE s # r.sid /\ (\A h \in Hubs : At(v, h, s) = 0) /\ (\E o \in DOMAIN v.obj : Ob(v, o).sid = s)
              /\ \A e \in CN : Carries(w, e, s) => e = d
    BY <1>1, <1>2, <2>1 DEF HubInv, InHand, At
  <2>2. /\ \A h \in Hubs : At(v, h, r.sid) = 0
        /\ \A d \in CN : Carries(v, d, r.sid) => d = c
        /\ \E o \in DOMAIN v.obj : Ob(v, o).sid = r.sid
    BY <1>0, <1>1, <1>2 DEF At
  <2> QED BY <1>1, <1>4, <2>1, <2>2 DEF InHand
<1>6. Drawn(v)
  BY <1>0, <1>1, SidConn, Zenon DEF HubInv, Drawn
<1>7. Reclaimable(v)
  <2>1. ASSUME NEW p \in DOMAIN w.obj, At(v, Ob(v, p).hub, Ob(v, p).sid) = p PROVE Held(v, p)
    BY <1>1, <2>1, Zenon DEF HubInv, Reclaimable, At
  <2> QED BY <1>0, <1>1, <1>2, <2>1 DEF Reclaimable, At
<1> QED BY <1>0, <1>1, <1>3, <1>5, <1>6, <1>7, Zenon DEF HubInv

\* register of a new session: it is entered where it was in hand, and answered.
LEMMA RegisterKeeps ==
  ASSUME SessionBounds, NEW w, HubInv(w), NEW c \in CN, Cn(w, c).pc = "register", NEW v, v \in HubRec, v.obj = w.obj,
         NEW x, x.pc = "open", x.obj = Cn(w, c).obj, x.hub = Cn(w, c).hub, x.req = Cn(w, c).req,
         Cn(v, c) = x, \A d \in CN : d # c => Cn(v, d) = Cn(w, d),
         Enters(w, v, Cn(w, c).hub, Ob(w, Cn(w, c).obj).sid, Cn(w, c).obj)
  PROVE  HubInv(v)
<1> DEFINE o == Cn(w, c).obj
           s0 == Ob(w, o).sid
           h0 == Cn(w, c).hub
<1>0. /\ w \in HubRec /\ o \in DOMAIN w.obj /\ Ob(w, o).hub = h0 /\ Ob(w, o).conn = c /\ o # 0
      /\ \A d \in CN : Cn(w, d).obj = o => d = c
  BY Zenon DEF HubInv, ConnOK, RecOK, Early
<1>a. s0 \in Sid /\ h0 \in Hubs /\ c # 0
  <2>1. Ob(w, o).sid \in Sid /\ Ob(w, o).hub \in Hubs
    BY <1>0, SessFields, Zenon
  <2>2. c # 0
    BY Numbered
  <2> QED BY <1>0, <2>1, <2>2, Zenon
<1>1. Enters(w, v, h0, s0, o)
  BY Zenon
<1>2. /\ \A h \in Hubs : At(w, h, s0) = 0
      /\ \A d \in CN : Carries(w, d, s0) => d = c
  <2>1. Carries(w, c, s0)
    BY DEF Carries
  <2> QED BY <1>a, <2>1, Zenon DEF HubInv, InHand
<1>3. \A d \in CN : Cn(v, d).obj = Cn(w, d).obj /\ Cn(v, d).hub = Cn(w, d).hub
  BY Zenon
<1>4. \A p \in DOMAIN w.obj : Ob(w, p).conn \in {0} \cup CN /\ Ob(w, p).hub \in Hubs /\ Ob(w, p).sid \in Sid
  BY <1>0, SessFields
<1> HIDE DEF o, s0, h0
<1>5. Known(v)
  <2>1. ASSUME NEW h \in Hubs, NEW s \in Sid, At(v, h, s) # 0, h # h0 \/ s # s0
        PROVE At(v, h, s) \in DOMAIN v.obj /\ Ob(v, At(v, h, s)).hub = h /\ Ob(v, At(v, h, s)).sid = s
    <3>1. At(v, h, s) = At(w, h, s)
      BY <1>1, <2>1, Zenon DEF Enters
    <3> QED BY <2>1, <3>1, ZenonT(30) DEF HubInv, Known, Ob
  <2>2. At(v, h0, s0) = o
    BY <1>1 DEF Enters
  <2>3. At(v, h0, s0) \in DOMAIN v.obj /\ Ob(v, At(v, h0, s0)).hub = h0 /\ Ob(v, At(v, h0, s0)).sid = s0
    BY <1>0, <2>2, Zenon DEF s0, Ob
  <2> QED BY <2>1, <2>3, Zenon DEF Known
<1>6. Single(v)
  <2>1. \A h \in Hubs, s \in Sid : At(v, h, s) # 0 => At(w, h, s) # 0 \/ (h = h0 /\ s = s0)
    BY <1>1, Zenon DEF Enters
  <2>2. ASSUME NEW s \in Sid, NEW h \in Hubs, NEW k \in Hubs, At(v, h, s) # 0, At(v, k, s) # 0 PROVE h = k
    <3>1. CASE s = s0
      BY <1>2, <2>1, <2>2, <3>1, Zenon
    <3>2. CASE s # s0
      <4>1. At(w, h, s) # 0 /\ At(w, k, s) # 0
        BY <2>1, <2>2, <3>2, Zenon
      <4> QED BY <4>1, Zenon DEF HubInv, Single
    <3> QED BY <3>1, <3>2, Zenon
  <2> QED BY <2>2, Zenon DEF Single
<1>7. \A d \in CN, s \in Sid : Carries(v, d, s) => Carries(w, d, s) /\ d # c
  BY Zenon DEF Carries, Ob
<1>8. InHand(v)
  <2>1. ASSUME NEW d \in CN, NEW s \in Sid, Carries(v, d, s)
        PROVE (\A h \in Hubs : At(v, h, s) = 0) /\ (\E p \in DOMAIN w.obj : Ob(w, p).sid = s)
              /\ \A e \in CN : Carries(w, e, s) => e = d
    <3>1. d # c /\ Carries(w, d, s)
      BY <1>7, <2>1, Zenon
    <3>2. s # s0
      BY <1>2, <3>1, Zenon
    <3>3. (\A h \in Hubs : At(w, h, s) = 0) /\ (\E p \in DOMAIN w.obj : Ob(w, p).sid = s) /\ \A e \in CN : Carries(w, e, s) => e = d
      BY <3>1 DEF HubInv, InHand
    <3> QED BY <1>1, <3>2, <3>3, Zenon DEF Enters
  <2> QED BY <1>7, <2>1 DEF InHand, Ob
<1>9. Drawn(v)
  <2>1. \A p \in DOMAIN w.obj : Ob(w, p).sid \in CN
    BY <1>0, SidConn, Zenon
  <2>2. Cn(v, c).pc \notin Early
    BY DEF Early
  <2>3. \A d \in CN : Cn(w, d).pc \notin Early => Cn(v, d).pc \notin Early
    BY <2>2
  <2> QED BY <2>1, <2>3, Zenon DEF HubInv, Drawn, Ob
<1>10. ConnOK(v)
  <2>1. RecOK(x)
    BY <1>0, Zenon DEF RecOK, Early, o
  <2>2. \A d \in CN : RecOK(Cn(v, d))
    BY <2>1 DEF HubInv, ConnOK
  <2>3. \A d \in CN : Cn(v, d).pc = "register" => Cn(w, d).pc = "register"
    BY Zenon
  <2>4. ConnOK(w)
    BY Zenon DEF HubInv
  <2>5. \A d \in CN : Cn(v, d).obj # 0 => Cn(v, d).obj \in DOMAIN v.obj /\ Ob(v, Cn(v, d).obj).hub = Cn(v, d).hub
    <3>1. \A d \in CN : Cn(w, d).obj # 0 => Cn(w, d).obj \in DOMAIN w.obj /\ Ob(w, Cn(w, d).obj).hub = Cn(w, d).hub
      BY <2>4, Zenon DEF ConnOK
    <3> TAKE d \in CN
    <3>2. Cn(v, d).obj = Cn(w, d).obj /\ Cn(v, d).hub = Cn(w, d).hub
      BY <1>3
    <3> QED BY <3>1, <3>2, Zenon DEF Ob
  <2>6. \A d \in CN : Cn(v, d).pc = "register" =>
          Ob(v, Cn(v, d).obj).conn = d /\ \A e \in CN : Cn(v, e).obj = Cn(v, d).obj => e = d
    <3>1. \A d \in CN : Cn(w, d).pc = "register" =>
            Ob(w, Cn(w, d).obj).conn = d /\ \A e \in CN : Cn(w, e).obj = Cn(w, d).obj => e = d
      BY <2>4, Zenon DEF ConnOK
    <3> TAKE d \in CN
    <3> HAVE Cn(v, d).pc = "register"
    <3>2. Ob(w, Cn(w, d).obj).conn = d /\ \A e \in CN : Cn(w, e).obj = Cn(w, d).obj => e = d
      BY <2>3, <3>1, Zenon
    <3>3. \A e \in CN : Cn(v, e).obj = Cn(w, e).obj
      BY <1>3, Zenon
    <3> QED BY <3>2, <3>3, Zenon DEF Ob
  <2> QED BY <2>2, <2>5, <2>6 DEF ConnOK
<1>11. ObjOK(v)
  BY <1>3, <1>4 DEF HubInv, ObjOK, Ob
<1>12. Reclaimable(v)
  <2>1. Held(v, o)
    BY <1>0, <1>a, Zenon DEF Held, Ob
  <2>2. ASSUME NEW p \in DOMAIN w.obj, At(v, Ob(w, p).hub, Ob(w, p).sid) = p, p # o PROVE Held(v, p)
    <3>1. At(w, Ob(w, p).hub, Ob(w, p).sid) = p
      BY <1>1, <1>4, <2>2, Zenon DEF Enters
    <3>2. Held(w, p) /\ \A d \in CN : Cn(w, d).obj = p => d # c
      BY <2>2, <3>1, Zenon DEF HubInv, Reclaimable, o
    <3>3. Ob(w, p).conn # 0 => Cn(w, Ob(w, p).conn).obj = p
      BY Zenon DEF HubInv, ObjOK
    <3> QED BY <1>4, <3>2, <3>3, Zenon DEF Held, Ob
  <2> QED BY <2>1, <2>2, Zenon DEF Reclaimable, Ob
<1> QED BY <1>5, <1>6, <1>8, <1>9, <1>10, <1>11, <1>12, Zenon DEF HubInv

\* A session object is left by its connection: it is dropped, or not registered.
LEMMA LetGo ==
  ASSUME NEW w, HubInv(w), NEW o \in DOMAIN w.obj, Settled(w, o), NEW v, v \in HubRec,
         v.bySid = w.bySid, v.conn = w.conn, DOMAIN v.obj = DOMAIN w.obj,
         Ob(v, o).hub = Ob(w, o).hub, Ob(v, o).sid = Ob(w, o).sid, Ob(v, o).conn = 0, Ob(v, o).dropped,
         \A p \in DOMAIN w.obj : p # o => Ob(v, p) = Ob(w, p)
  PROVE  HubInv(v)
<1>0. w \in HubRec
  BY DEF HubInv
<1>1. \A p \in DOMAIN w.obj : Ob(v, p).hub = Ob(w, p).hub /\ Ob(v, p).sid = Ob(w, p).sid
  OBVIOUS
<1>2. Known(v) /\ Single(v)
  BY <1>1, KnownKept, Zenon
<1>3. \A d \in CN : Cn(w, d).pc = "register" => Cn(w, d).obj \in DOMAIN w.obj /\ Cn(w, d).obj # o
  BY Zenon DEF HubInv, ConnOK, RecOK, Early, Settled
<1>4. \A d \in CN, s \in Sid : Carries(v, d, s) <=> Carries(w, d, s)
  BY <1>3 DEF Carries, Cn
<1>5. InHand(v)
  <2>1. \A h \in Hubs, s \in Sid : At(v, h, s) = At(w, h, s)
    BY Zenon DEF At
  <2>2. ASSUME NEW d \in CN, NEW s \in Sid, Carries(w, d, s)
        PROVE (\A h \in Hubs : At(v, h, s) = 0) /\ (\A e \in CN : Carries(w, e, s) => e = d)
              /\ \E p \in DOMAIN v.obj : Ob(v, p).sid = s
    <3>1. (\A h \in Hubs : At(w, h, s) = 0) /\ (\A e \in CN : Carries(w, e, s) => e = d)
          /\ \E p \in DOMAIN w.obj : Ob(w, p).sid = s
      BY <2>2, Zenon DEF HubInv, InHand
    <3> QED BY <1>1, <2>1, <3>1, Zenon
  <2> QED BY <1>4, <2>2, Zenon DEF InHand
<1>6. Drawn(v)
  BY <1>1, SidConn, Zenon DEF HubInv, Drawn, Cn
<1>7. ConnOK(v)
  <2>1. \A d \in CN : Cn(w, d).pc = "register" => Ob(v, Cn(w, d).obj) = Ob(w, Cn(w, d).obj)
    BY <1>3, Zenon
  <2>2. \A d \in CN : Cn(v, d) = Cn(w, d)
    BY Zenon DEF Cn
  <2>3. ASSUME NEW d \in CN, Cn(w, d).obj # 0 PROVE Cn(w, d).obj \in DOMAIN v.obj /\ Ob(v, Cn(w, d).obj).hub = Cn(w, d).hub
    <3>1. Cn(w, d).obj \in DOMAIN w.obj /\ Ob(w, Cn(w, d).obj).hub = Cn(w, d).hub
      BY <2>3, Zenon DEF HubInv, ConnOK
    <3> QED BY <1>1, <3>1, Zenon
  <2>4. ASSUME NEW d \in CN, Cn(w, d).pc = "register"
        PROVE Ob(v, Cn(w, d).obj).conn = d /\ \A e \in CN : Cn(w, e).obj = Cn(w, d).obj => e = d
    BY <2>1, <2>4, Zenon DEF HubInv, ConnOK
  <2>5. \A d \in CN : RecOK(Cn(w, d))
    BY Zenon DEF HubInv, ConnOK
  <2>6. ASSUME NEW d \in CN
        PROVE /\ RecOK(Cn(v, d))
              /\ Cn(v, d).obj # 0 => Cn(v, d).obj \in DOMAIN v.obj /\ Ob(v, Cn(v, d).obj).hub = Cn(v, d).hub
              /\ Cn(v, d).pc = "register" =>
                   Ob(v, Cn(v, d).obj).conn = d /\ \A e \in CN : Cn(v, e).obj = Cn(v, d).obj => e = d
    <3>1. Cn(v, d) = Cn(w, d) /\ RecOK(Cn(w, d))
      BY <2>2, <2>5, Zenon
    <3>2. ASSUME Cn(v, d).pc = "register"
          PROVE Ob(v, Cn(v, d).obj).conn = d /\ \A e \in CN : Cn(v, e).obj = Cn(v, d).obj => e = d
      <4>1. Ob(v, Cn(w, d).obj).conn = d /\ \A e \in CN : Cn(w, e).obj = Cn(w, d).obj => e = d
        BY <2>4, <3>1, <3>2, Zenon
      <4> QED BY <2>2, <3>1, <4>1, Zenon
    <3>3. Cn(v, d).obj # 0 => Cn(v, d).obj \in DOMAIN v.obj /\ Ob(v, Cn(v, d).obj).hub = Cn(v, d).hub
      BY <2>3, <3>1, Zenon
    <3> QED BY <3>1, <3>2, <3>3, Zenon
  <2> QED BY <2>6, Zenon DEF ConnOK
<1>8. ObjOK(v)
  BY Zenon DEF HubInv, ObjOK, Cn
<1>9. Reclaimable(v)
  <2>1. \A h \in Hubs, s \in Sid : At(v, h, s) = At(w, h, s)
    BY Zenon DEF At
  <2>2. \A d \in CN : Cn(v, d) = Cn(w, d)
    BY Zenon DEF Cn
  <2>3. Held(v, o)
    BY Zenon DEF Held
  <2>4. ASSUME NEW p \in DOMAIN w.obj, p # o, At(v, Ob(v, p).hub, Ob(v, p).sid) = p PROVE Held(v, p)
    <3>1. Ob(v, p) = Ob(w, p)
      BY <2>4, Zenon
    <3>2. Ob(w, p).hub \in Hubs /\ Ob(w, p).sid \in Sid /\ Ob(w, p).conn \in {0} \cup CN
      BY <1>0, <2>4, SessFields, Zenon
    <3>3. Held(w, p)
      BY <2>1, <2>4, <3>1, <3>2, Zenon DEF HubInv, Reclaimable
    <3> QED BY <2>2, <3>1, <3>2, <3>3, Zenon DEF Held
  <2> QED BY <2>3, <2>4, Zenon DEF Reclaimable
<1> QED BY <1>2, <1>5, <1>6, <1>7, <1>8, <1>9, Zenon DEF HubInv

\* hand_over lets the socket and the session go.
HandedOver(w, o) == Unregister([Kick(w, o, "duplicate") EXCEPT !.obj[o].conn = 0], o)

\* Nothing but the session's connection and its entry is changed by that.
LEMMA HandQuiet ==
  ASSUME NEW w \in HubRec, NEW o \in DOMAIN w.obj, Settled(w, o)
  PROVE  /\ Quiet(w, HandedOver(w, o)) /\ HandedOver(w, o).gone = w.gone
         /\ At(HandedOver(w, o), Ob(w, o).hub, Ob(w, o).sid) = 0
         /\ \A h \in Hubs, s \in Sid : h # Ob(w, o).hub \/ s # Ob(w, o).sid => At(HandedOver(w, o), h, s) = At(w, h, s)
<1> DEFINE k == Kick(w, o, "duplicate")
           r == [Ob(w, o) EXCEPT !.conn = 0]
           b == [w.obj EXCEPT ![o] = r]
           u == [k EXCEPT !.obj = b]
           v == Unregister(u, o)
<1>1. /\ Quiet(w, k) /\ k \in HubRec /\ k.obj = w.obj /\ k.bySid = w.bySid /\ k.gone = w.gone
  <2>1. "duplicate" \in Codes
    BY Zenon DEF Codes
  <2> QED BY <2>1, KickQuiet DEF Quiet
<1>2. Ob(w, o) \in SessRec /\ Ob(w, o).hub \in Hubs /\ Ob(w, o).sid \in Sid
  BY SessFields
<1>3. /\ r \in SessRec /\ r.conn = 0 /\ r.hub = Ob(w, o).hub /\ r.sid = Ob(w, o).sid /\ r.user = Ob(w, o).user
      /\ r.touched = Ob(w, o).touched /\ r.dropped = Ob(w, o).dropped
  BY <1>2 DEF SessRec
<1>a. [k EXCEPT !.obj[o].conn = 0] = u
  <2> HIDE DEF k
  <2> QED BY <1>1 DEF Ob
<1> HIDE DEF k, r
<1>4. b \in Seq(SessRec) /\ DOMAIN b = DOMAIN w.obj /\ b[o] = r /\ \A p \in DOMAIN w.obj : p # o => b[p] = Ob(w, p)
  BY <1>3, ObjUpdate, Zenon
<1> HIDE DEF b
<1>5. u \in HubRec /\ u.obj = b /\ u.gone = w.gone /\ u.bySid = w.bySid /\ u.conn = k.conn
  BY <1>1, <1>4, Zenon DEF HubRec
<1> HIDE DEF u
<1>6. /\ v \in HubRec /\ v.obj = b /\ v.gone = w.gone /\ v.conn = k.conn
      /\ At(v, Ob(w, o).hub, Ob(w, o).sid) = 0
      /\ \A h \in Hubs, s \in Sid : <<h, s>> # <<Ob(w, o).hub, Ob(w, o).sid>> => At(v, h, s) = At(w, h, s)
  <2>1. o \in DOMAIN u.obj /\ Ob(u, o) = r
    BY <1>4, <1>5 DEF Ob
  <2>2. /\ Quiet(u, Unregister(u, o))
        /\ Unregister(u, o).obj = u.obj /\ Unregister(u, o).gone = u.gone /\ Unregister(u, o).conn = u.conn
        /\ At(Unregister(u, o), Ob(u, o).hub, Ob(u, o).sid) = 0
        /\ \A h \in Hubs, s \in Sid : <<h, s>> # <<Ob(u, o).hub, Ob(u, o).sid>> => At(Unregister(u, o), h, s) = At(u, h, s)
    BY <1>5, <2>1, UnregisterQuiet, Zenon
  <2>3. \A h \in Hubs, s \in Sid : At(u, h, s) = At(w, h, s)
    BY <1>5, Zenon DEF At
  <2> QED BY <1>3, <1>5, <2>1, <2>2, <2>3, Zenon DEF Quiet
<1>7. HandedOver(w, o) = v
  BY <1>a, Zenon DEF HandedOver, k
<1> HIDE DEF v
<1>8. \A h \in Hubs, s \in Sid : h # Ob(w, o).hub \/ s # Ob(w, o).sid => At(v, h, s) = At(w, h, s)
  BY <1>6
<1>9. \A h \in Hubs, s \in Sid : At(v, h, s) \in {0, At(w, h, s)}
  BY <1>6, <1>8
<1>10. SameObjs(w, v) /\ SameConns(w, v)
  <2>1. Ob(v, o) = r /\ \A p \in DOMAIN w.obj : p # o => Ob(v, p) = Ob(w, p)
    BY <1>4, <1>6, Zenon DEF Ob
  <2>2. SameObjs(w, v)
    BY <1>3, <1>4, <1>6, <2>1, Zenon DEF SameObjs
  <2>3. \A d \in CN : Cn(v, d) = Cn(k, d)
    BY <1>6, Zenon DEF Cn
  <2>4. SameConns(w, v)
    BY <1>1, <2>3, Zenon DEF Quiet, SameConns
  <2> QED BY <2>2, <2>4, Zenon
<1>11. Leaves(w, v)
  <2>1. ASSUME NEW p \in DOMAIN w.obj
        PROVE Ob(v, p).conn = Ob(w, p).conn
              \/ (Ob(v, p).conn = 0 /\ At(v, Ob(w, p).hub, Ob(w, p).sid) = 0 /\ Settled(w, p))
    BY <1>3, <1>4, <1>6, Zenon DEF Ob
  <2> QED BY <1>9, <2>1, Zenon DEF Leaves
<1> QED BY <1>6, <1>7, <1>8, <1>10, <1>11, Zenon DEF Quiet

\* What a bind with a token does first: the older session of the user is evicted.
LEMMA BindNewKeeps ==
  ASSUME SessionBounds, NEW w, HubInv(w), NEW c \in CN, Cn(w, c).pc \in {"new", "find", "ask"}
  PROVE  HubInv(BindNew(w, c)) /\ BindNew(w, c) \in HubRec
<1> DEFINE h == Cn(w, c).hub
           s == w.byUser[h][UserOf(c)]
           o == IF s = 0 THEN 0 ELSE At(w, h, s)
           u == IF o = 0 THEN w ELSE Evict(w, o, "duplicate")
           x == [Cn(u, c) EXCEPT !.pc = "lookup"]
<1>0. w \in HubRec
  BY DEF HubInv
<1>1. h \in Hubs /\ UserOf(c) \in Users /\ s \in {0} \cup Sid
  <2>1. Cn(w, c) \in ConnRec /\ w.byUser \in [Hubs -> [Users -> {0} \cup Sid]]
    BY <1>0, HubFields, Zenon DEF Cn
  <2>2. UserOf(c) \in Users
    BY ConnOf, Zenon
  <2> QED BY <2>1, <2>2 DEF ConnRec
<1>2. Quiet(w, u)
  <2>1. CASE o = 0
    BY <1>0, <2>1, Zenon DEF Quiet, SameObjs, SameConns, Leaves
  <2>2. CASE o # 0
    <3>1. s \in Sid /\ o = At(w, h, s)
      BY <1>1, <2>2, Zenon
    <3> HIDE DEF h, s
    <3>2. o \in DOMAIN w.obj /\ Settled(w, o)
      BY <1>1, <2>2, <3>1, RegisteredSettled
    <3>3. "duplicate" \in Codes
      BY Zenon DEF Codes
    <3> HIDE DEF o
    <3> QED BY <1>0, <2>2, <3>2, <3>3, EvictQuiet, Zenon
  <2> QED BY <2>1, <2>2, Zenon
<1>3. BindNew(w, c) = [u EXCEPT !.conn[c] = x]
  BY Zenon DEF BindNew, At, Cn
<1> HIDE DEF u
<1>4. HubInv(u) /\ u \in HubRec
  BY <1>2, QuietKeeps DEF Quiet
<1>5. Cn(u, c) \in ConnRec /\ Cn(u, c).pc = Cn(w, c).pc /\ RecOK(Cn(u, c))
  <2>1. Cn(u, c) \in ConnRec
    BY <1>4, HubFields, Zenon DEF Cn
  <2>2. Cn(u, c).pc = Cn(w, c).pc
    BY <1>2 DEF Quiet, SameConns
  <2>3. RecOK(Cn(u, c))
    BY <1>4, Zenon DEF HubInv, ConnOK
  <2> QED BY <2>1, <2>2, <2>3, Zenon
<1>6. x \in ConnRec /\ x.pc = "lookup" /\ x.pc \in Early /\ Cn(u, c).pc \in Early
  BY <1>5, Zenon DEF ConnRec, Early, Pcs
<1>7. RecOK(x)
  BY <1>5, <1>6 DEF RecOK, ConnRec, Early
<1> HIDE DEF x
<1>8. Moves(u, [u EXCEPT !.conn[c] = x], c, x)
  BY <1>4, <1>6, MoveTo, Zenon
<1> QED BY <1>3, <1>4, <1>6, <1>7, <1>8, EarlyMove, ZenonT(30) DEF Moves

\* The hub state after a step.
LEMMA HubNext == ASSUME NEW w \in HubRec, Becomes(w) PROVE Hub' = w
<1>1. w = [obj |-> w.obj, bySid |-> w.bySid, byUser |-> w.byUser, toks |-> w.toks,
           interest |-> w.interest, gone |-> w.gone, conn |-> w.conn]
  BY Zenon DEF HubRec
<1> QED BY <1>1, Zenon DEF Becomes, Hub

(* What the media server is told *)

\* Somebody will tell the media server when session s ends: a registered session that
\* called it, a call on its way, or a connection that brings such a session over.
Safe(w, s) ==
    \/ \E h \in Hubs : At(w, h, s) # 0 /\ Ob(w, At(w, h, s)).touched
    \/ s \in w.gone
    \/ \E c \in CN : Cn(w, c).pc \in {"adopt", "enter"} /\ Cn(w, c).data.sid = s /\ Cn(w, c).data.touched
\* A session that waits for a join has marked the server as called.
Asking(w) == \A c \in CN : Cn(w, c).req = "join" => Ob(w, Cn(w, c).obj).touched
\* The sessions that were safe still are, except those of X.
Tells(w, v, X) == (\A s \in Sid : Safe(w, s) => s \in X \/ Safe(v, s)) /\ (Asking(w) => Asking(v))

\* Two changes in a row.
LEMMA TellsTrans ==
  ASSUME NEW w, NEW u, NEW v, NEW X, NEW Y, Tells(w, u, X), Tells(u, v, Y)
  PROVE  Tells(w, v, X \cup Y)
BY Zenon DEF Tells

\* The same without exceptions.
LEMMA TellsBoth ==
  ASSUME NEW w, NEW u, NEW v, Tells(w, u, {}), Tells(u, v, {})
  PROVE  Tells(w, v, {})
BY DEF Tells

\* A join under way is for a session object.
LEMMA JoinsObject ==
  ASSUME NEW w, HubInv(w), NEW c \in CN, Cn(w, c).req = "join"
  PROVE  Cn(w, c).obj # 0 /\ Cn(w, c).obj \in DOMAIN w.obj
<1>1. RecOK(Cn(w, c))
  BY Zenon DEF HubInv, ConnOK
<1>2. Cn(w, c).obj # 0
  BY <1>1, Zenon DEF RecOK, Early
<1> QED BY <1>2, Zenon DEF HubInv, ConnOK

\* What leaves the registry is reported to the server, if it called it.
Spares(w, v, X) ==
    /\ w.gone \subseteq v.gone
    /\ \A h \in Hubs, s \in Sid :
         At(w, h, s) # 0 /\ At(v, h, s) = 0 /\ Ob(w, At(w, h, s)).touched => s \in v.gone \cup X

\* A quiet change that reports what leaves the registry.
LEMMA QuietTells ==
  ASSUME NEW w, HubInv(w), NEW v, Quiet(w, v), NEW X, Spares(w, v, X)
  PROVE  Tells(w, v, X)
<1>0. w \in HubRec /\ v \in HubRec /\ SameObjs(w, v) /\ SameConns(w, v) /\ Leaves(w, v)
  BY DEF HubInv, Quiet
<1>1. ASSUME NEW s \in Sid, NEW h \in Hubs, At(w, h, s) # 0, Ob(w, At(w, h, s)).touched
      PROVE  s \in X \/ Safe(v, s)
  <2>1. At(w, h, s) \in DOMAIN w.obj
    BY <1>1 DEF HubInv, Known
  <2>2. CASE At(v, h, s) = 0
    BY <1>1, <2>2, Zenon DEF Spares, Safe
  <2>3. CASE At(v, h, s) = At(w, h, s)
    <3>1. Ob(v, At(v, h, s)).touched
      BY <1>0, <1>1, <2>1, <2>3, Zenon DEF SameObjs
    <3> QED BY <1>1, <2>3, <3>1, Zenon DEF Safe
  <2> QED BY <1>0, <2>2, <2>3 DEF Leaves
<1>2. \A s \in Sid : s \in w.gone => Safe(v, s)
  BY Zenon DEF Spares, Safe
<1>3. ASSUME NEW s \in Sid, NEW c \in CN, Cn(w, c).pc \in {"adopt", "enter"}, Cn(w, c).data.sid = s, Cn(w, c).data.touched
      PROVE  Safe(v, s)
  <2>1. Cn(v, c).pc \in {"adopt", "enter"} /\ Cn(v, c).data.sid = s /\ Cn(v, c).data.touched
    BY <1>0, <1>3, Zenon DEF SameConns
  <2> QED BY <2>1, Zenon DEF Safe
<1>4. \A s \in Sid : Safe(w, s) => s \in X \/ Safe(v, s)
  <2> TAKE s \in Sid
  <2>1. Safe(w, s) => \/ \E h \in Hubs : At(w, h, s) # 0 /\ Ob(w, At(w, h, s)).touched
                      \/ s \in w.gone
                      \/ \E c \in CN : Cn(w, c).pc \in {"adopt", "enter"} /\ Cn(w, c).data.sid = s /\ Cn(w, c).data.touched
    BY Zenon DEF Safe
  <2> QED BY <1>1, <1>2, <1>3, <2>1
<1>5. ASSUME Asking(w), NEW c \in CN, Cn(v, c).req = "join" PROVE Ob(v, Cn(v, c).obj).touched
  <2>1. Cn(w, c).req = "join" /\ Cn(v, c).obj = Cn(w, c).obj
    BY <1>0, <1>5, Zenon DEF SameConns
  <2>2. Cn(w, c).obj \in DOMAIN w.obj /\ Ob(w, Cn(w, c).obj).touched
    BY <1>5, <2>1, JoinsObject DEF Asking
  <2> QED BY <1>0, <2>1, <2>2, Zenon DEF SameObjs
<1> QED BY <1>4, <1>5, Zenon DEF Tells, Asking

\* A step of a connection that goes on bringing what it brought.
Brings(w, c, x) ==
    /\ Cn(w, c).pc \in {"adopt", "enter"} => x.pc \in {"adopt", "enter"} /\ x.data = Cn(w, c).data
    /\ x.req # "join" \/ (x.req = Cn(w, c).req /\ x.obj = Cn(w, c).obj) \/ Ob(w, x.obj).touched

\* Such a step keeps the sessions of members safe.
LEMMA MoveTells ==
  ASSUME NEW w, NEW v, NEW c \in CN, NEW x, Moves(w, v, c, x), w.gone = v.gone, Brings(w, c, x)
  PROVE  Tells(w, v, {})
<1>0. v.obj = w.obj /\ v.bySid = w.bySid /\ Cn(v, c) = x /\ \A d \in CN : d # c => Cn(v, d) = Cn(w, d)
  BY DEF Moves
<1>1. ASSUME NEW s \in Sid, NEW d \in CN, Cn(w, d).pc \in {"adopt", "enter"}, Cn(w, d).data.sid = s, Cn(w, d).data.touched
      PROVE  Safe(v, s)
  <2>1. Cn(v, d).pc \in {"adopt", "enter"} /\ Cn(v, d).data.sid = s /\ Cn(v, d).data.touched
    <3>1. CASE d = c
      BY <1>0, <1>1, <3>1, Zenon DEF Brings
    <3>2. CASE d # c
      BY <1>0, <1>1, <3>2
    <3> QED BY <3>1, <3>2, Zenon
  <2> QED BY <2>1 DEF Safe
<1>2. \A s \in Sid : Safe(w, s) => Safe(v, s)
  <2> TAKE s \in Sid
  <2> QED BY <1>0, <1>1, Zenon DEF Safe, At, Ob
<1>3. ASSUME Asking(w), NEW d \in CN, Cn(v, d).req = "join" PROVE Ob(v, Cn(v, d).obj).touched
  <2>1. CASE d = c
    BY <1>0, <1>3, <2>1, Zenon DEF Asking, Brings, Ob
  <2>2. CASE d # c
    BY <1>0, <1>3, <2>2, Zenon DEF Asking, Ob
  <2> QED BY <2>1, <2>2, Zenon
<1> QED BY <1>2, <1>3, Zenon DEF Tells, Asking

\* dispose of an object reports the session, if the object is the registered one.
LEMMA DisposeSpares ==
  ASSUME NEW w \in HubRec, NEW o \in DOMAIN w.obj, Settled(w, o)
  PROVE  Spares(w, Dispose(w, o), IF At(w, Ob(w, o).hub, Ob(w, o).sid) \in {0, o} THEN {} ELSE {Ob(w, o).sid})
<1> DEFINE v == Dispose(w, o)
           X == IF At(w, Ob(w, o).hub, Ob(w, o).sid) \in {0, o} THEN {} ELSE {Ob(w, o).sid}
<1>1. /\ v.bySid = Unregister(w, o).bySid
      /\ v.gone = IF Ob(w, o).touched THEN w.gone \cup {Ob(w, o).sid} ELSE w.gone
  BY DisposeQuiet, Zenon
<1>2. \A h \in Hubs, s \in Sid : <<h, s>> # <<Ob(w, o).hub, Ob(w, o).sid>> => At(v, h, s) = At(w, h, s)
  BY <1>1, UnregisterQuiet DEF At
<1> HIDE DEF v
<1>3. ASSUME NEW h \in Hubs, NEW s \in Sid, At(w, h, s) # 0, At(v, h, s) = 0, Ob(w, At(w, h, s)).touched
      PROVE  s \in v.gone \cup X
  <2>1. h = Ob(w, o).hub /\ s = Ob(w, o).sid
    BY <1>2, <1>3, Zenon
  <2>2. CASE At(w, h, s) = o
    BY <1>1, <1>3, <2>1, <2>2
  <2>3. CASE At(w, h, s) # o
    BY <1>3, <2>1, <2>3, Zenon
  <2> QED BY <2>2, <2>3, Zenon
<1> HIDE DEF X
<1>4. w.gone \subseteq v.gone
  BY <1>1, Zenon
<1> QED BY <1>3, <1>4, Zenon DEF Spares, v, X

\* Telling a socket to leave takes nothing out of the registry.
LEMMA KickSpares ==
  ASSUME NEW w \in HubRec, NEW o \in DOMAIN w.obj, NEW code \in Codes
  PROVE  Spares(w, Kick(w, o, code), {})
BY KickQuiet DEF Spares, At

\* The eviction of a registered session reports it.
LEMMA EvictTells ==
  ASSUME NEW w, HubInv(w), NEW h \in Hubs, NEW s \in Sid, At(w, h, s) # 0, NEW code \in Codes
  PROVE  Quiet(w, Evict(w, At(w, h, s), code)) /\ Tells(w, Evict(w, At(w, h, s), code), {})
<1> DEFINE o == At(w, h, s)
           u == Kick(w, o, code)
<1>0. w \in HubRec
  BY DEF HubInv
<1>1. o \in DOMAIN w.obj /\ Settled(w, o) /\ Ob(w, o).hub = h /\ Ob(w, o).sid = s
  BY RegisteredSettled
<1>a. At(w, Ob(w, o).hub, Ob(w, o).sid) = o
  BY <1>1, Zenon
<1> HIDE DEF o
<1>2. Quiet(w, u) /\ u \in HubRec /\ u.obj = w.obj /\ u.bySid = w.bySid
  BY <1>0, <1>1, KickQuiet DEF Quiet
<1>3. Tells(w, u, {})
  BY <1>0, <1>1, <1>2, KickSpares, QuietTells, Zenon
<1>4. HubInv(u) /\ Settled(u, o) /\ o \in DOMAIN u.obj /\ At(u, Ob(u, o).hub, Ob(u, o).sid) \in {0, o}
  BY <1>1, <1>a, <1>2, QuietKeeps, Zenon DEF Settled, Quiet, SameConns, At, Ob
<1>5. Evict(w, o, code) = Dispose(u, o)
  BY Zenon DEF Evict
<1> HIDE DEF u
<1>6. Quiet(u, Dispose(u, o)) /\ Spares(u, Dispose(u, o), {})
  BY <1>2, <1>4, DisposeQuiet, DisposeSpares, Zenon
<1>7. Tells(u, Dispose(u, o), {})
  BY <1>4, <1>6, QuietTells
<1>8. Tells(w, Dispose(u, o), {})
  BY <1>3, <1>7, TellsBoth
<1>9. Quiet(w, Evict(w, o, code))
  BY <1>0, <1>1, EvictQuiet, Zenon
<1> QED BY <1>5, <1>8, <1>9, Zenon DEF o

\* The first thing a bind with a token does.
LEMMA BindNewTells ==
  ASSUME SessionBounds, NEW w, HubInv(w), NEW c \in CN, Cn(w, c).pc \in {"new", "find", "ask"}
  PROVE  Tells(w, BindNew(w, c), {})
<1> DEFINE h == Cn(w, c).hub
           s == w.byUser[h][UserOf(c)]
           o == IF s = 0 THEN 0 ELSE At(w, h, s)
           u == IF o = 0 THEN w ELSE Evict(w, o, "duplicate")
           x == [Cn(u, c) EXCEPT !.pc = "lookup"]
<1>0. w \in HubRec
  BY DEF HubInv
<1>1. h \in Hubs /\ UserOf(c) \in Users /\ s \in {0} \cup Sid
  <2>1. Cn(w, c) \in ConnRec /\ w.byUser \in [Hubs -> [Users -> {0} \cup Sid]]
    BY <1>0, HubFields, Zenon DEF Cn
  <2>2. UserOf(c) \in Users
    BY ConnOf, Zenon
  <2> QED BY <2>1, <2>2 DEF ConnRec
<1>2. Quiet(w, u) /\ Tells(w, u, {})
  <2>1. CASE o = 0
    BY <1>0, <2>1, Zenon DEF Quiet, SameObjs, SameConns, Leaves, Tells
  <2>2. CASE o # 0
    <3>1. s \in Sid /\ o = At(w, h, s) /\ At(w, h, s) # 0 /\ "duplicate" \in Codes
      BY <1>1, <2>2, Zenon DEF Codes
    <3> HIDE DEF h, s
    <3>2. Quiet(w, Evict(w, At(w, h, s), "duplicate")) /\ Tells(w, Evict(w, At(w, h, s), "duplicate"), {})
      BY <1>1, <3>1, EvictTells, Zenon
    <3> QED BY <2>2, <3>1, <3>2, Zenon
  <2> QED BY <2>1, <2>2, Zenon
<1>3. BindNew(w, c) = [u EXCEPT !.conn[c] = x]
  BY Zenon DEF BindNew, At, Cn
<1> HIDE DEF u
<1>4. HubInv(u) /\ u \in HubRec
  BY <1>2, QuietKeeps DEF Quiet
<1>5. Cn(u, c) \in ConnRec /\ Cn(u, c).pc = Cn(w, c).pc /\ RecOK(Cn(u, c))
  <2>1. Cn(u, c) \in ConnRec
    BY <1>4, HubFields, Zenon DEF Cn
  <2>2. Cn(u, c).pc = Cn(w, c).pc
    BY <1>2, Zenon DEF Quiet, SameConns
  <2>3. RecOK(Cn(u, c))
    BY <1>4, Zenon DEF HubInv, ConnOK
  <2> QED BY <2>1, <2>2, <2>3, Zenon
<1>6. x \in ConnRec /\ x.req = "none" /\ Cn(u, c).pc \notin {"adopt", "enter"}
  BY <1>5, Zenon DEF ConnRec, Early, Pcs, RecOK
<1> HIDE DEF x
<1>7. Moves(u, [u EXCEPT !.conn[c] = x], c, x) /\ [u EXCEPT !.conn[c] = x].gone = u.gone
  BY <1>4, <1>6, MoveTo
<1>8. Brings(u, c, x)
  BY <1>6, Zenon DEF Brings
<1> DEFINE v == [u EXCEPT !.conn[c] = x]
<1>a. BindNew(w, c) = v
  BY <1>3, Zenon
<1> HIDE DEF v
<1>9. Tells(u, v, {})
  BY <1>7, <1>8, MoveTells, Zenon DEF v
<1>10. Tells(w, v, {})
  BY <1>2, <1>9, TellsBoth, Zenon
<1> QED BY <1>a, <1>10, Zenon

\* The take-over of a bind.
LEMMA AttachTells ==
  ASSUME SessionBounds, NEW w, HubInv(w), NEW c \in CN, NEW o \in DOMAIN w.obj,
         Settled(w, o), Ob(w, o).hub = Cn(w, c).hub,
         Cn(w, c).pc = "new" \/ (Cn(w, c).pc = "attach" /\ Cn(w, c).obj = o)
  PROVE  Tells(w, Attach(w, c, o), {})
<1> DEFINE v == Attach(w, c, o)
<1>1. /\ v.bySid = w.bySid /\ v.gone = w.gone /\ Cn(v, c).req = Cn(w, c).req
      /\ \A d \in CN : d # c => /\ Cn(v, d).pc = Cn(w, d).pc /\ Cn(v, d).obj = Cn(w, d).obj
                                /\ Cn(v, d).data = Cn(w, d).data /\ Cn(v, d).req = Cn(w, d).req
      /\ \A p \in DOMAIN w.obj : Ob(v, p).touched = Ob(w, p).touched
  <2>1. TookOver(w, v, c)
    BY AttachKeeps, Zenon
  <2> HIDE DEF v
  <2> QED BY <2>1, Zenon DEF TookOver
<1> HIDE DEF v
<1>2. Cn(w, c).req = "none"
  <2>1. RecOK(Cn(w, c))
    BY Zenon DEF HubInv, ConnOK
  <2> QED BY <2>1, Zenon DEF RecOK, Early
<1>3. \A s \in Sid : Safe(w, s) => Safe(v, s)
  <2> TAKE s \in Sid
  <2>1. ASSUME NEW h \in Hubs, At(w, h, s) # 0, Ob(w, At(w, h, s)).touched PROVE Safe(v, s)
    <3>1. At(w, h, s) \in DOMAIN w.obj
      BY <2>1, Zenon DEF HubInv, Known
    <3> QED BY <1>1, <2>1, <3>1, Zenon DEF Safe, At
  <2>2. ASSUME NEW d \in CN, Cn(w, d).pc \in {"adopt", "enter"}, Cn(w, d).data.sid = s, Cn(w, d).data.touched PROVE Safe(v, s)
    <3>1. d # c
      BY <2>2, Zenon
    <3> QED BY <1>1, <2>2, <3>1, Zenon DEF Safe
  <2> QED BY <1>1, <2>1, <2>2, Zenon DEF Safe
<1>4. ASSUME Asking(w), NEW d \in CN, Cn(v, d).req = "join" PROVE Ob(v, Cn(v, d).obj).touched
  <2>1. d # c /\ Cn(w, d).req = "join" /\ Cn(v, d).obj = Cn(w, d).obj
    BY <1>1, <1>2, <1>4, Zenon
  <2>2. Cn(w, d).obj \in DOMAIN w.obj
    BY <2>1, JoinsObject, Zenon
  <2> QED BY <1>1, <1>4, <2>1, <2>2, Zenon DEF Asking
<1>5. Tells(w, v, {})
  BY <1>3, <1>4, Zenon DEF Tells, Asking
<1> QED BY <1>5, Zenon DEF v

\* A change that leaves the registry, the connections and what was called alone.
LEMMA SameTells ==
  ASSUME NEW w, HubInv(w), NEW v, v.bySid = w.bySid, v.gone = w.gone, v.conn = w.conn,
         \A p \in DOMAIN w.obj : Ob(v, p).touched = Ob(w, p).touched
  PROVE  Tells(w, v, {})
<1>1. \A s \in Sid, h \in Hubs : At(w, h, s) # 0 => At(w, h, s) \in DOMAIN w.obj
  BY Zenon DEF HubInv, Known
<1>2. \A s \in Sid : Safe(w, s) => Safe(v, s)
  BY <1>1, ZenonT(30) DEF Safe, At, Cn
<1>3. Asking(w) => Asking(v)
  BY JoinsObject, Zenon DEF Asking, Cn
<1> QED BY <1>2, <1>3 DEF Tells

\* A session that is handed over leaves the registry without a report.
LEMMA HandSpares ==
  ASSUME NEW w \in HubRec, NEW o \in DOMAIN w.obj, Settled(w, o)
  PROVE  Spares(w, HandedOver(w, o), {Ob(w, o).sid})
<1> DEFINE v == HandedOver(w, o)
<1>1. v.gone = w.gone /\ \A h \in Hubs, s \in Sid : h # Ob(w, o).hub \/ s # Ob(w, o).sid => At(v, h, s) = At(w, h, s)
  BY HandQuiet, Zenon
<1> HIDE DEF v
<1>2. Spares(w, v, {Ob(w, o).sid})
  BY <1>1, Zenon DEF Spares
<1> QED BY <1>2, Zenon DEF v

\* A new session object: what was safe still is, whether the new one is registered or not.
LEMMA AddsTells ==
  ASSUME NEW w, HubInv(w), NEW c \in CN, NEW r, NEW x, NEW v, Adds(w, v, c, r, x), v.gone = w.gone,
         Cn(w, c).pc \in Early, x.pc \notin {"adopt", "enter"},
         \A h \in Hubs, s \in Sid : At(w, h, s) # 0 => At(v, h, s) = At(w, h, s),
         \A s \in Sid : Cn(w, c).pc \in {"adopt", "enter"} /\ Cn(w, c).data.sid = s /\ Cn(w, c).data.touched => Safe(v, s)
  PROVE  Tells(w, v, {})
<1>1. w \in HubRec /\ r \in SessRec /\ v.obj = Append(w.obj, r)
      /\ Cn(v, c) = x /\ (\A d \in CN : d # c => Cn(v, d) = Cn(w, d)) /\ x.req = Cn(w, c).req
  BY Zenon DEF Adds, HubInv
<1>2. \A p \in DOMAIN w.obj : Ob(v, p) = Ob(w, p)
  BY <1>1, Added DEF Ob
<1>3. \A s \in Sid : Safe(w, s) => Safe(v, s)
  <2> TAKE s \in Sid
  <2>1. ASSUME NEW h \in Hubs, At(w, h, s) # 0, Ob(w, At(w, h, s)).touched PROVE Safe(v, s)
    <3>1. At(w, h, s) \in DOMAIN w.obj
      BY <2>1, Zenon DEF HubInv, Known
    <3>2. At(v, h, s) # 0 /\ Ob(v, At(v, h, s)).touched
      BY <1>2, <2>1, <3>1, Zenon
    <3> QED BY <3>2, Zenon DEF Safe
  <2>2. ASSUME NEW d \in CN, Cn(w, d).pc \in {"adopt", "enter"}, Cn(w, d).data.sid = s, Cn(w, d).data.touched PROVE Safe(v, s)
    <3>1. CASE d # c
      BY <1>1, <2>2, <3>1, Zenon DEF Safe
    <3>2. CASE d = c
      BY <2>2, <3>2, Zenon
    <3> QED BY <3>1, <3>2, Zenon
  <2> QED BY <2>1, <2>2, Zenon DEF Safe
<1>4. ASSUME Asking(w), NEW d \in CN, Cn(v, d).req = "join" PROVE Ob(v, Cn(v, d).obj).touched
  <2>1. Cn(w, c).req = "none"
    <3>1. RecOK(Cn(w, c))
      BY Zenon DEF HubInv, ConnOK
    <3> QED BY <3>1, Zenon DEF RecOK, Early
  <2>2. d # c /\ Cn(w, d).req = "join" /\ Cn(v, d).obj = Cn(w, d).obj
    BY <1>1, <1>4, <2>1, Zenon
  <2>3. Cn(w, d).obj \in DOMAIN w.obj
    BY <2>2, JoinsObject
  <2> QED BY <1>2, <1>4, <2>2, <2>3, Zenon DEF Asking
<1> QED BY <1>3, <1>4, Zenon DEF Tells, Asking

\* A new session is registered: its sid was registered nowhere.
LEMMA RegisterTells ==
  ASSUME NEW w, HubInv(w), NEW c \in CN, Cn(w, c).pc = "register", NEW v, v.obj = w.obj, v.gone = w.gone,
         NEW x, x.req = Cn(w, c).req, Cn(v, c) = x, \A d \in CN : d # c => Cn(v, d) = Cn(w, d),
         NEW t \in Sid, t = Ob(w, Cn(w, c).obj).sid, NEW g, NEW o, Enters(w, v, g, t, o)
  PROVE  Tells(w, v, {})
<1>1. \A h \in Hubs : At(w, h, t) = 0
  <2>1. Carries(w, c, t)
    BY Zenon DEF Carries
  <2> QED BY <2>1, Zenon DEF HubInv, InHand
<1>2. \A h \in Hubs, s \in Sid : At(w, h, s) # 0 => At(v, h, s) = At(w, h, s)
  BY <1>1 DEF Enters
<1>3. \A d \in CN : Cn(w, d).pc \in {"adopt", "enter"} => Cn(v, d) = Cn(w, d)
  BY Zenon
<1>4. \A s \in Sid : Safe(w, s) => Safe(v, s)
  BY <1>2, <1>3, Zenon DEF Safe, Ob
<1>5. Cn(w, c).req = "none"
  <2>1. RecOK(Cn(w, c))
    BY Zenon DEF HubInv, ConnOK
  <2> QED BY <2>1, Zenon DEF RecOK
<1>6. Asking(w) => Asking(v)
  BY <1>5, Zenon DEF Asking, Ob
<1> QED BY <1>4, <1>6, Zenon DEF Tells

(* The steps of a bind *)

\* The variables of the hub state.
LEMMA HubVars ==
  /\ Hub.obj = obj /\ Hub.bySid = bySid /\ Hub.byUser = byUser /\ Hub.toks = toks
  /\ Hub.interest = interest /\ Hub.gone = gone /\ Hub.conn = conn
BY DEF Hub

\* The session id a client presents is one it was given.
SidsOK == sids \in [Users -> {0} \cup Sid]
\* A member of the room whose session is not in late is safe.
Members ==
    /\ member \in [Users -> {0} \cup Sid]
    /\ \A u \in Users : member[u] = 0 \/ member[u] \in late \/ Safe(Hub, member[u])
\* The inductive invariant of the sessions.
SessInv == HubInv(Hub) /\ SidsOK /\ Asking(Hub) /\ Members
\* What the steps of the hubs leave alone.
Frame == sids' = sids /\ member' = member /\ late \subseteq late'

\* A step to a hub state that has the invariant.
LEMMA StepLosing ==
  ASSUME SessInv, NEW w, HubInv(w), Becomes(w), Frame, NEW X, Tells(Hub, w, X), X \subseteq late'
  PROVE  SessInv'
<1>1. Hub' = w
  BY HubNext DEF HubInv
<1>2. SidsOK'
  BY Zenon DEF SessInv, SidsOK, Frame
<1>3. Asking(Hub')
  BY <1>1 DEF SessInv, Tells
<1>4. member' \in [Users -> {0} \cup Sid]
  BY Zenon DEF SessInv, Members, Frame
<1>5. ASSUME NEW u \in Users PROVE member'[u] = 0 \/ member'[u] \in late' \/ Safe(Hub', member'[u])
  <2>1. member'[u] = member[u] /\ late \subseteq late'
    BY DEF Frame
  <2>2. member[u] = 0 \/ member[u] \in Sid
    BY Zenon DEF SessInv, Members
  <2>3. member[u] = 0 \/ member[u] \in late \/ Safe(Hub, member[u])
    BY Zenon DEF SessInv, Members
  <2> QED BY <1>1, <2>1, <2>2, <2>3 DEF Tells
<1>6. Members'
  BY <1>4, <1>5, Zenon DEF Members
<1> QED BY <1>1, <1>2, <1>3, <1>6, Zenon DEF SessInv

\* A step that keeps the invariant and loses no member needs no more.
LEMMA StepTo ==
  ASSUME SessInv, NEW w, HubInv(w), Becomes(w), Frame, Tells(Hub, w, {})
  PROVE  SessInv'
BY StepLosing

\* A connection in a hub state, and its record with some fields changed.
LEMMA ConnFields ==
  ASSUME NEW w, HubInv(w), NEW c \in CN
  PROVE  w \in HubRec /\ Cn(w, c) \in ConnRec /\ RecOK(Cn(w, c)) /\ Cn(w, c).hub \in Hubs
<1>1. w \in HubRec /\ Cn(w, c) \in ConnRec /\ RecOK(Cn(w, c))
  BY HubFields DEF HubInv, ConnOK, Cn
<1> QED BY <1>1, Zenon DEF ConnRec

\* BIND.
LEMMA BindStep ==
  ASSUME SessionBounds, SessInv, NEW c \in CN, NEW h \in Conns[c].hubs, NEW resume \in BOOLEAN, Bind(c, h, resume)
  PROVE  SessInv'
<1> DEFINE s == sids[UserOf(c)]
           known == s # 0 /\ resume
           x == [Cn(Hub, c) EXCEPT !.hub = h]
           w == [Hub EXCEPT !.conn[c] = x]
<1>0. HubInv(Hub) /\ Frame /\ h \in Hubs /\ s \in {0} \cup Sid /\ conn[c].pc = "new"
  BY ConnOf, Zenon DEF SessInv, SidsOK, Bind, Frame
<1>1. Hub \in HubRec /\ Cn(Hub, c) \in ConnRec /\ RecOK(Cn(Hub, c)) /\ Cn(Hub, c).pc = "new" /\ Hub.conn = conn /\ Hub.bySid = bySid
  BY <1>0, ConnFields, HubVars DEF Cn
<1>2. Becomes(IF known /\ bySid[h][s] # 0 THEN Attach(w, c, bySid[h][s])
              ELSE IF known THEN [w EXCEPT !.conn[c].pc = "find"] ELSE BindNew(w, c))
  BY Zenon DEF Bind, Cn
<1>3. x \in ConnRec /\ x.pc = "new" /\ x.pc \in Early /\ x.hub = h /\ RecOK(x) /\ x.req = "none"
  BY <1>0, <1>1, Zenon DEF ConnRec, RecOK, Early
<1> HIDE DEF x
<1>4. Moves(Hub, w, c, x) /\ w.gone = Hub.gone /\ Brings(Hub, c, x)
  BY <1>1, <1>3, MoveTo DEF Brings
<1> HIDE DEF w
<1>5. HubInv(w) /\ w \in HubRec /\ Cn(w, c) = x /\ w.bySid = bySid /\ w.obj = Hub.obj
  BY <1>0, <1>1, <1>3, <1>4, EarlyMove, Zenon DEF Moves, Early
<1>a. Tells(Hub, w, {})
  BY <1>4, MoveTells, Zenon
<1>6. CASE known /\ bySid[h][s] # 0
  <2> DEFINE o == bySid[h][s]
  <2>1. o \in DOMAIN w.obj /\ Settled(w, o) /\ Ob(w, o).hub = h
    BY <1>0, <1>5, <1>6, RegisteredSettled DEF At
  <2>2. Becomes(Attach(w, c, o))
    BY <1>2, <1>6, Zenon
  <2> HIDE DEF o
  <2>3. HubInv(Attach(w, c, o)) /\ Tells(w, Attach(w, c, o), {})
    BY <1>3, <1>5, <2>1, AttachKeeps, AttachTells, Zenon DEF TookOver
  <2>4. Tells(Hub, Attach(w, c, o), {})
    BY <1>a, <2>3, TellsBoth
  <2> QED BY <1>0, <2>2, <2>3, <2>4, StepTo, Zenon
<1>7. CASE known /\ bySid[h][s] = 0
  <2> DEFINE y == [Cn(w, c) EXCEPT !.pc = "find"]
             v == [w EXCEPT !.conn[c] = y]
  <2>1. Becomes(v)
    BY <1>2, <1>7 DEF Cn
  <2>2. y \in ConnRec /\ y.pc = "find" /\ y.pc \in Early /\ RecOK(y) /\ y.req = "none"
    BY <1>3, <1>5 DEF ConnRec, RecOK, Early, Pcs
  <2> HIDE DEF y
  <2>3. Moves(w, v, c, y) /\ v.gone = w.gone /\ Brings(w, c, y)
    BY <1>3, <1>5, <2>2, MoveTo DEF Brings
  <2> HIDE DEF v
  <2>4. HubInv(v)
    BY <1>3, <1>5, <2>2, <2>3, EarlyMove
  <2>5. Tells(Hub, v, {})
    BY <1>a, <2>3, MoveTells, TellsBoth, Zenon
  <2> QED BY <1>0, <2>1, <2>4, <2>5, StepTo, Zenon
<1>8. CASE ~known
  <2>1. Becomes(BindNew(w, c))
    BY <1>2, <1>8, Zenon
  <2>2. HubInv(BindNew(w, c)) /\ Tells(w, BindNew(w, c), {})
    BY <1>3, <1>5, BindNewKeeps, BindNewTells, Zenon
  <2>3. Tells(Hub, BindNew(w, c), {})
    BY <1>a, <2>2, TellsBoth, Zenon
  <2> QED BY <1>0, <2>1, <2>2, <2>3, StepTo
<1> QED BY <1>6, <1>7, <1>8, Zenon

\* find_sess.
LEMMA FindStep ==
  ASSUME SessionBounds, SessInv, NEW c \in CN, Find(c)
  PROVE  SessInv'
<1> DEFINE s == sids[UserOf(c)]
           at == {h \in Hubs : s \in toks[h]}
<1>0. HubInv(Hub) /\ Frame /\ conn[c].pc = "find"
  BY Zenon DEF SessInv, Find, Frame
<1>1. Hub \in HubRec /\ Cn(Hub, c) \in ConnRec /\ RecOK(Cn(Hub, c)) /\ Cn(Hub, c).pc = "find" /\ Hub.conn = conn /\ Hub.toks = toks
  BY <1>0, ConnFields, HubVars DEF Cn
<1>2. (\E h \in at \ {HubOf(c)} : Becomes([Hub EXCEPT !.conn[c].pc = "ask", !.conn[c].data = [from |-> h, sid |-> s]]))
      \/ Becomes(BindNew(Hub, c))
  BY Zenon DEF Find
<1>3. ASSUME NEW h \in at, Becomes([Hub EXCEPT !.conn[c].pc = "ask", !.conn[c].data = [from |-> h, sid |-> s]])
      PROVE SessInv'
  <2> DEFINE d == [from |-> h, sid |-> s]
             y == [Cn(Hub, c) EXCEPT !.pc = "ask", !.data = d]
             v == [Hub EXCEPT !.conn[c] = y]
  <2>1. h \in Hubs /\ s \in Sid
    <3>1. toks \in [Hubs -> SUBSET Sid]
      BY <1>1, HubFields, Zenon
    <3> QED BY <3>1
  <2>2. d \in Asked /\ d \in Data
    BY <2>1, Zenon DEF Asked, Data
  <2>3. Becomes(v)
    <3> HIDE DEF d
    <3>1. [Hub EXCEPT !.conn[c].pc = "ask", !.conn[c].data = d] = v
      <4>1. Hub.conn \in [CN -> ConnRec]
        BY <1>1, HubFields
      <4> QED BY <1>1, <4>1, Zenon DEF HubRec, Cn
    <3> QED BY <1>3, <3>1, Zenon DEF d
  <2> HIDE DEF d
  <2>4. y \in ConnRec /\ y.pc = "ask" /\ y.pc \in Early /\ RecOK(y) /\ y.req = "none"
    BY <1>1, <2>2, Zenon DEF ConnRec, RecOK, Early, Pcs
  <2> HIDE DEF y
  <2>5. Moves(Hub, v, c, y) /\ Cn(Hub, c).pc \in Early /\ v.gone = Hub.gone /\ Brings(Hub, c, y)
    BY <1>1, <2>4, MoveTo DEF Early, Brings
  <2> HIDE DEF v
  <2>6. HubInv(v)
    BY <1>0, <2>4, <2>5, EarlyMove, Zenon
  <2>7. Tells(Hub, v, {})
    BY <2>5, MoveTells, Zenon
  <2> QED BY <1>0, <2>3, <2>6, <2>7, StepTo
<1>4. CASE Becomes(BindNew(Hub, c))
  <2>1. HubInv(BindNew(Hub, c)) /\ Tells(Hub, BindNew(Hub, c), {})
    BY <1>0, <1>1, BindNewKeeps, BindNewTells, Zenon
  <2> QED BY <1>0, <1>4, <2>1, StepTo, Zenon
<1> QED BY <1>2, <1>3, <1>4, Zenon

\* hand_over, and the answer to the hub that asked.
LEMMA HandOverStep ==
  ASSUME SessionBounds, SessInv, NEW c \in CN, HandOver(c)
  PROVE  SessInv'
<1> DEFINE h == conn[c].data.from
           s == conn[c].data.sid
           o == bySid[h][s]
           data == [sid |-> s, room |-> obj[o].room, touched |-> obj[o].touched]
           w == HandedOver(Hub, o)
<1>0. HubInv(Hub) /\ Frame /\ conn[c].pc = "ask"
  BY Zenon DEF SessInv, HandOver, Frame
<1>1. /\ Hub \in HubRec /\ Cn(Hub, c) \in ConnRec /\ RecOK(Cn(Hub, c)) /\ Cn(Hub, c).pc = "ask"
      /\ Hub.conn = conn /\ Hub.bySid = bySid /\ Hub.obj = obj
  BY <1>0, ConnFields, HubVars, Zenon DEF Cn
<1>2. h \in Hubs /\ s \in Sid
  BY <1>1, Zenon DEF RecOK, Asked, Cn
<1>3. \/ Becomes(BindNew(Hub, c))
      \/ o # 0 /\ Becomes([w EXCEPT !.conn[c].pc = "adopt", !.conn[c].data = data])
      \/ o # 0 /\ Becomes(BindNew(w, c)) /\ late' = late \cup {s}
  BY Zenon DEF HandOver, HandedOver
<1>4. ASSUME o # 0 PROVE /\ o \in DOMAIN obj /\ Quiet(Hub, w) /\ HubInv(w) /\ obj[o].sid = s /\ obj[o].hub = h
                         /\ At(w, h, s) = 0 /\ (\A d \in CN : ~Carries(Hub, d, s))
                         /\ w.gone = Hub.gone /\ Tells(Hub, w, {s})
  <2> HIDE DEF h, s
  <2>1. o \in DOMAIN obj /\ Settled(Hub, o) /\ obj[o].hub = h /\ obj[o].sid = s /\ \A d \in CN : ~Carries(Hub, d, s)
    BY <1>0, <1>1, <1>2, <1>4, RegisteredSettled DEF At, Ob
  <2> HIDE DEF o
  <2>2. Quiet(Hub, w) /\ At(w, h, s) = 0 /\ w.gone = Hub.gone /\ Spares(Hub, w, {s})
    BY <1>1, <2>1, HandQuiet, HandSpares, Zenon DEF Ob
  <2>3. Tells(Hub, w, {s})
    BY <1>0, <2>2, QuietTells
  <2> QED BY <1>0, <2>1, <2>2, <2>3, QuietKeeps, Zenon
<1>5. ASSUME o # 0, Becomes([w EXCEPT !.conn[c].pc = "adopt", !.conn[c].data = data])
      PROVE SessInv'
  <2> DEFINE y == [Cn(w, c) EXCEPT !.pc = "adopt", !.data = data]
             v == [w EXCEPT !.conn[c] = y]
  <2>1. /\ o \in DOMAIN obj /\ Quiet(Hub, w) /\ HubInv(w) /\ obj[o].sid = s /\ At(w, h, s) = 0
        /\ (\A d \in CN : ~Carries(Hub, d, s)) /\ w.gone = Hub.gone /\ Tells(Hub, w, {s})
    BY <1>4, <1>5, Zenon
  <2>2. w \in HubRec /\ Cn(w, c) \in ConnRec /\ RecOK(Cn(w, c)) /\ Cn(w, c).pc = "ask"
    BY <1>1, <2>1, ConnFields, Zenon DEF Quiet, SameConns
  <2>3. data \in Given /\ data \in Data /\ data.sid = s /\ data.touched = obj[o].touched
    <3>1. obj[o].room \in BOOLEAN /\ obj[o].touched \in BOOLEAN
      BY <1>1, <2>1, SessFields, Zenon DEF Ob
    <3> HIDE DEF o, s
    <3> QED BY <1>2, <3>1 DEF Given, Data
  <2> HIDE DEF w, o
  <2>4. Becomes(v)
    <3> HIDE DEF data
    <3>1. [w EXCEPT !.conn[c].pc = "adopt", !.conn[c].data = data] = v
      <4>1. w.conn \in [CN -> ConnRec]
        BY <2>2, HubFields, Zenon
      <4> QED BY <2>2, <4>1, Zenon DEF HubRec, Cn
    <3> QED BY <1>5, <3>1, Zenon
  <2> HIDE DEF data, s, h
  <2>5. y \in ConnRec /\ y.pc = "adopt" /\ y.pc \in Early /\ RecOK(y) /\ y.data = data /\ y.req = "none"
    BY <2>2, <2>3, Zenon DEF ConnRec, RecOK, Early, Pcs
  <2> HIDE DEF y
  <2>6. Moves(w, v, c, y) /\ Cn(w, c).pc \in Early /\ v.gone = w.gone /\ Brings(w, c, y)
    BY <2>2, <2>5, MoveTo DEF Early, Brings
  <2>7. \A g \in Hubs : At(w, g, s) = 0
    <3>1. \A g \in Hubs : bySid[g][s] # 0 => g = h
      BY <1>0, <1>1, <1>2, <1>5, Zenon DEF HubInv, Single, o, At
    <3> QED BY <1>1, <1>2, <2>1, <3>1 DEF Quiet, Leaves, At
  <2>8. \A d \in CN : ~Carries(w, d, s)
    <3>1. \A d \in CN : Carries(w, d, s) => Carries(Hub, d, s)
      <4>1. \A d \in CN : Cn(Hub, d).pc = "register" => Cn(Hub, d).obj \in DOMAIN Hub.obj
        BY <1>0, Zenon DEF HubInv, ConnOK, RecOK, Early
      <4>2. \A d \in CN : Cn(w, d).pc = Cn(Hub, d).pc /\ Cn(w, d).data = Cn(Hub, d).data /\ Cn(w, d).obj = Cn(Hub, d).obj
        BY <2>1 DEF Quiet, SameConns
      <4>3. \A p \in DOMAIN Hub.obj : Ob(w, p).sid = Ob(Hub, p).sid
        BY <2>1 DEF Quiet, SameObjs
      <4> QED BY <4>1, <4>2, <4>3 DEF Carries
    <3> QED BY <2>1, <3>1, Zenon
  <2>9. o \in DOMAIN w.obj /\ Ob(w, o).sid = s
    BY <1>1, <2>1, Zenon DEF Quiet, SameObjs, Ob
  <2> HIDE DEF v
  <2>10. HubInv(v)
    BY <2>1, <2>3, <2>5, <2>6, <2>7, <2>8, <2>9, EarlyMove, Zenon
  <2>11. Tells(Hub, v, {s} \cup {})
    <3>1. Tells(w, v, {})
      BY <2>6, MoveTells, Zenon
    <3> QED BY <2>1, <3>1, TellsTrans
  <2>12. Safe(Hub, s) => Safe(v, s)
    <3>1. \A g \in Hubs : bySid[g][s] # 0 => g = h
      BY <1>0, <1>1, <1>2, <1>5 DEF HubInv, Single, o, At
    <3>2. ASSUME NEW g \in Hubs, bySid[g][s] # 0, obj[bySid[g][s]].touched PROVE Safe(v, s)
      <4>1. data.touched /\ data.sid = s
        BY <2>3, <3>1, <3>2, Zenon DEF o
      <4>2. Cn(v, c).pc = "adopt" /\ Cn(v, c).data = data
        BY <2>5, <2>6 DEF Moves
      <4> QED BY <4>1, <4>2, Zenon DEF Safe
    <3>3. s \in Hub.gone => Safe(v, s)
      BY <2>1, <2>6, Zenon DEF Safe
    <3>4. \A d \in CN : ~(conn[d].pc \in {"adopt", "enter"} /\ conn[d].data.sid = s)
      BY <1>1, <2>1, Zenon DEF Carries, Cn
    <3> QED BY <1>1, <3>2, <3>3, <3>4, Zenon DEF Safe, At, Ob, Cn
  <2>13. Tells(Hub, v, {})
    BY <2>11, <2>12, Zenon DEF Tells
  <2> QED BY <1>0, <2>4, <2>10, <2>13, StepTo
<1>6. CASE Becomes(BindNew(Hub, c))
  <2>1. HubInv(BindNew(Hub, c)) /\ Tells(Hub, BindNew(Hub, c), {})
    BY <1>0, <1>1, BindNewKeeps, BindNewTells
  <2> QED BY <1>0, <1>6, <2>1, StepTo, Zenon
<1>7. ASSUME o # 0, Becomes(BindNew(w, c)), late' = late \cup {s} PROVE SessInv'
  <2>1. HubInv(w) /\ Cn(w, c).pc = "ask" /\ Tells(Hub, w, {s})
    BY <1>1, <1>4, <1>7, Zenon DEF Quiet, SameConns
  <2> HIDE DEF w, s
  <2>2. HubInv(BindNew(w, c)) /\ Tells(w, BindNew(w, c), {})
    BY <2>1, BindNewKeeps, BindNewTells, Zenon
  <2>3. Tells(Hub, BindNew(w, c), {s} \cup {})
    BY <2>1, <2>2, TellsTrans, Zenon
  <2>4. {s} \cup {} \subseteq late'
    BY <1>7, Zenon
  <2> QED BY <1>0, <1>7, <2>2, <2>3, <2>4, StepLosing, Zenon
<1> QED BY <1>3, <1>5, <1>6, <1>7, Zenon

\* A connection that serves a session changes what its processor waits for.
LEMMA ReqMove ==
  ASSUME NEW w, HubInv(w), NEW c \in CN, Cn(w, c).pc \in Serving, NEW r \in Reqs
  PROVE  /\ HubInv([w EXCEPT !.conn[c].req = r])
         /\ r # "join" \/ Ob(w, Cn(w, c).obj).touched => Tells(w, [w EXCEPT !.conn[c].req = r], {})
<1> DEFINE y == [Cn(w, c) EXCEPT !.req = r]
           v == [w EXCEPT !.conn[c] = y]
<1>1. w \in HubRec /\ Cn(w, c) \in ConnRec
  BY ConnFields, Zenon
<1>2. y \in ConnRec /\ y.pc = Cn(w, c).pc /\ y.obj = Cn(w, c).obj /\ y.hub = Cn(w, c).hub /\ y.req = r
  BY <1>1 DEF ConnRec
<1>3. [w EXCEPT !.conn[c].req = r] = v
  BY Zenon DEF Cn
<1> HIDE DEF y
<1>4. Moves(w, v, c, y) /\ MayMove(w, c, y) /\ v.gone = w.gone
  BY <1>1, <1>2, MoveTo DEF MayMove
<1> HIDE DEF v
<1>5. HubInv(v)
  BY <1>2, <1>4, LateMove, Zenon
<1>6. ASSUME r # "join" \/ Ob(w, Cn(w, c).obj).touched PROVE Tells(w, v, {})
  <2>1. Brings(w, c, y)
    BY <1>2, <1>6, Zenon DEF Brings, Serving
  <2> QED BY <1>4, <2>1, MoveTells, Zenon
<1> QED BY <1>3, <1>5, <1>6, Zenon

\* Its reader goes on.
LEMMA PcMove ==
  ASSUME NEW w, HubInv(w), NEW c \in CN, Cn(w, c).pc \in Serving, NEW p \in Serving,
         \/ p = "drain" \/ Ob(w, Cn(w, c).obj).conn # c \/ Ob(w, Cn(w, c).obj).dropped
         \/ At(w, Ob(w, Cn(w, c).obj).hub, Ob(w, Cn(w, c).obj).sid) = 0
  PROVE  /\ HubInv([w EXCEPT !.conn[c].pc = p])
         /\ Tells(w, [w EXCEPT !.conn[c].pc = p], {})
<1> DEFINE y == [Cn(w, c) EXCEPT !.pc = p]
           v == [w EXCEPT !.conn[c] = y]
<1>1. w \in HubRec /\ Cn(w, c) \in ConnRec /\ Cn(w, c).obj # 0
  BY ConnFields, Zenon DEF RecOK, Early, Serving
<1>2. y \in ConnRec /\ y.pc = p /\ y.obj = Cn(w, c).obj /\ y.hub = Cn(w, c).hub /\ y.req = Cn(w, c).req
  BY <1>1, Zenon DEF ConnRec, Serving, Pcs
<1>3. [w EXCEPT !.conn[c].pc = p] = v
  BY Zenon DEF Cn
<1> HIDE DEF y
<1>4. Moves(w, v, c, y) /\ MayMove(w, c, y) /\ v.gone = w.gone
  BY <1>1, <1>2, MoveTo, Zenon DEF MayMove
<1> HIDE DEF v
<1>5. HubInv(v)
  BY <1>2, <1>4, LateMove
<1>6. Tells(w, v, {})
  <2>1. Brings(w, c, y)
    BY <1>2, Zenon DEF Brings, Serving
  <2> QED BY <1>4, <2>1, MoveTells
<1> QED BY <1>3, <1>5, <1>6, Zenon

\* A connection with a request under way serves a session.
LEMMA Requesting ==
  ASSUME NEW w, HubInv(w), NEW c \in CN, Cn(w, c).req # "none"
  PROVE  Cn(w, c).pc \in Serving /\ Cn(w, c).obj \in DOMAIN w.obj /\ Ob(w, Cn(w, c).obj).hub = Cn(w, c).hub
<1>1. Cn(w, c) \in ConnRec /\ RecOK(Cn(w, c))
  BY ConnFields
<1>2. Cn(w, c).pc \in Serving /\ Cn(w, c).obj # 0
  BY <1>1, Zenon DEF ConnRec, RecOK, Pcs, Serving
<1> QED BY <1>2, Zenon DEF HubInv, ConnOK

\* The token of a session that was handed over is declared.
LEMMA AdoptStep ==
  ASSUME SessionBounds, SessInv, NEW c \in CN, Adopt(c)
  PROVE  SessInv'
<1> DEFINE d == conn[c].data
           t == [toks EXCEPT ![HubOf(c)] = @ \cup {d.sid}]
           y == [conn[c] EXCEPT !.pc = "enter"]
           k == [conn EXCEPT ![c] = y]
           v == [Hub EXCEPT !.toks = t, !.conn = k]
<1>0. HubInv(Hub) /\ Frame /\ conn[c].pc = "adopt"
  BY DEF SessInv, Adopt, Frame
<1>1. /\ Hub \in HubRec /\ conn[c] \in ConnRec /\ RecOK(conn[c])
      /\ Hub.conn = conn /\ Hub.bySid = bySid /\ Hub.obj = obj /\ Hub.toks = toks /\ conn[c].req = "none"
      /\ conn \in [CN -> ConnRec] /\ toks \in [Hubs -> SUBSET Sid] /\ HubOf(c) \in Hubs
  BY <1>0, ConnFields, HubVars, HubFields, Zenon DEF HubOf, RecOK, Early, Cn
<1>2. Becomes(v)
  BY <1>1, Zenon DEF Adopt
<1>3. d.sid \in Sid /\ d \in Given
  BY <1>0, <1>1, Zenon DEF RecOK, Given
<1>4. t \in [Hubs -> SUBSET Sid]
  BY <1>1, <1>3
<1>5. y \in ConnRec /\ y.pc = "enter" /\ y.pc \in Early /\ RecOK(y) /\ y.data = d /\ y.req = "none"
  BY <1>0, <1>1, Zenon DEF ConnRec, RecOK, Early, Pcs
<1> HIDE DEF y, t
<1>6. k \in [CN -> ConnRec] /\ k[c] = y /\ \A e \in CN : e # c => k[e] = conn[e]
  BY <1>1, <1>5, Zenon
<1> HIDE DEF k
<1>7. Moves(Hub, v, c, y) /\ Hub.gone = v.gone
  BY <1>1, <1>4, <1>6, Zenon DEF Moves, HubRec, Cn
<1> HIDE DEF v
<1>8. HubInv(v)
  BY <1>0, <1>1, <1>5, <1>7, EarlyMove DEF Early, Cn
<1>9. Brings(Hub, c, y)
  BY <1>1, <1>5, Zenon DEF Brings, Cn
<1>10. Tells(Hub, v, {})
  BY <1>7, <1>9, MoveTells, Zenon
<1> QED BY <1>0, <1>2, <1>8, <1>10, StepTo

\* It is entered into the registry.
LEMMA EnterStep ==
  ASSUME SessionBounds, SessInv, NEW c \in CN, Enter(c)
  PROVE  SessInv'
<1> DEFINE d == conn[c].data
           h == HubOf(c)
           o == Len(obj) + 1
           r == NewSession(h, UserOf(c), d.sid, d.room, d.touched, 0)
           b == [bySid EXCEPT ![h][d.sid] = o]
           z == [byUser EXCEPT ![h][UserOf(c)] = d.sid]
           i == [interest EXCEPT ![h] = IF d.room THEN @ + 1 ELSE @]
           y == [conn[c] EXCEPT !.pc = "attach", !.data = <<>>, !.obj = o]
           k == [conn EXCEPT ![c] = y]
           v == [Hub EXCEPT !.obj = Append(obj, r), !.bySid = b, !.byUser = z, !.interest = i, !.conn = k]
<1>0. HubInv(Hub) /\ Frame /\ conn[c].pc = "enter"
  BY Zenon DEF SessInv, Enter, Frame
<1>1. /\ Hub \in HubRec /\ conn[c] \in ConnRec /\ RecOK(conn[c])
      /\ Hub.conn = conn /\ Hub.bySid = bySid /\ Hub.obj = obj /\ Hub.byUser = byUser /\ Hub.interest = interest
      /\ conn \in [CN -> ConnRec] /\ h \in Hubs /\ bySid \in [Hubs -> [Sid -> Nat]] /\ interest \in [Hubs -> Nat]
      /\ byUser \in [Hubs -> [Users -> {0} \cup Sid]] /\ obj \in Seq(SessRec) /\ UserOf(c) \in Users
  BY <1>0, ConnFields, HubVars, HubFields, ConnOf, Zenon DEF HubOf, Cn
<1>2. d.sid \in Sid /\ d.room \in BOOLEAN /\ d.touched \in BOOLEAN
  BY <1>0, <1>1, Zenon DEF RecOK, Given
<1>3. Becomes(v)
  <2> DEFINE a == [Hub EXCEPT !.obj = Append(@, r)]
  <2>1. Becomes([a EXCEPT !.bySid[h][d.sid] = o, !.byUser[h][UserOf(c)] = d.sid,
                          !.interest[h] = IF d.room THEN @ + 1 ELSE @,
                          !.conn[c] = [@ EXCEPT !.pc = "attach", !.data = <<>>, !.obj = o]])
    BY Zenon DEF Enter
  <2>2. a = [Hub EXCEPT !.obj = Append(obj, r)] /\ a.bySid = bySid /\ a.byUser = byUser /\ a.interest = interest /\ a.conn = conn
    <3> HIDE DEF r
    <3> QED BY <1>1 DEF HubRec
  <2> HIDE DEF a
  <2>3. Becomes([a EXCEPT !.bySid = b, !.byUser = z, !.interest = i, !.conn = k])
    <3> HIDE DEF r, o, h, d
    <3> QED BY <2>1, <2>2, ZenonT(30)
  <2> HIDE DEF b, z, i, k, r
  <2> QED BY <2>2, <2>3, Zenon
<1>4. /\ r \in SessRec /\ r.hub = h /\ r.sid = d.sid /\ r.conn = 0 /\ r.touched = d.touched
  BY <1>1, <1>2, Zenon DEF NewSession, SessRec
<1>5. o \in Nat /\ Append(obj, r) \in Seq(SessRec)
  <2> HIDE DEF r
  <2> QED BY <1>1, <1>4
<1>6. b \in [Hubs -> [Sid -> Nat]] /\ b[h][d.sid] = o /\ \A g \in Hubs, s \in Sid : g # h \/ s # d.sid => b[g][s] = bySid[g][s]
  <2> HIDE DEF o, h, d
  <2> QED BY <1>1, <1>2, <1>5, Zenon
<1>7. z \in [Hubs -> [Users -> {0} \cup Sid]] /\ i \in [Hubs -> Nat]
  <2> HIDE DEF h, d
  <2> QED BY <1>1, <1>2
<1>8. y \in ConnRec /\ y.pc = "attach" /\ y.obj = o /\ y.hub = h /\ y.req = conn[c].req
  <2> HIDE DEF o
  <2> QED BY <1>1, <1>5, Zenon DEF ConnRec, Pcs, Data, HubOf
<1> HIDE DEF y, b, z, i, r
<1>9. k \in [CN -> ConnRec] /\ k[c] = y /\ \A e \in CN : e # c => k[e] = conn[e]
  BY <1>1, <1>8
<1> HIDE DEF k
<1>10. v \in HubRec /\ v.obj = Append(obj, r) /\ v.bySid = b /\ v.conn = k /\ v.gone = Hub.gone
  <2>1. [Hub EXCEPT !.obj = Append(obj, r)] \in HubRec
    BY <1>1, <1>5, Zenon DEF HubRec
  <2> QED BY <1>1, <1>5, <1>6, <1>7, <1>9, Zenon DEF HubRec
<1> HIDE DEF v
<1>11. Adds(Hub, v, c, r, y)
  BY <1>1, <1>4, <1>8, <1>9, <1>10, Zenon DEF Adds, HubOf, Cn
<1>12. Enters(Hub, v, r.hub, r.sid, y.obj)
  BY <1>1, <1>4, <1>6, <1>8, <1>10 DEF Enters, At
<1>13. HubInv(v)
  BY <1>0, <1>1, <1>4, <1>8, <1>11, <1>12, EnterKeeps, Zenon DEF Cn
<1>14. \A g \in Hubs, s \in Sid : At(Hub, g, s) # 0 => At(v, g, s) = At(Hub, g, s)
  <2>1. \A g \in Hubs : bySid[g][d.sid] = 0
    BY <1>0, <1>1, <1>2, Zenon DEF HubInv, InHand, Carries, At, Cn
  <2> HIDE DEF h, d
  <2> QED BY <1>1, <1>6, <1>10, <2>1 DEF At
<1>15. ASSUME d.touched PROVE Safe(v, d.sid)
  <2>1. Ob(v, o) = r /\ o # 0
    BY <1>1, <1>4, <1>10, Added, SMTT(30)
  <2> HIDE DEF o, h, d
  <2>2. At(v, h, d.sid) = o /\ r.touched
    BY <1>4, <1>6, <1>10, <1>15 DEF At
  <2> QED BY <1>1, <2>1, <2>2, Zenon DEF Safe
<1>16. Tells(Hub, v, {})
  <2>1. \A s \in Sid : Cn(Hub, c).pc \in {"adopt", "enter"} /\ Cn(Hub, c).data.sid = s /\ Cn(Hub, c).data.touched => Safe(v, s)
    BY <1>1, <1>15, Zenon DEF Cn
  <2> HIDE DEF d, h, o
  <2> QED BY <1>0, <1>1, <1>8, <1>10, <1>11, <1>14, <2>1, AddsTells, Zenon DEF Early, Cn
<1> QED BY <1>0, <1>3, <1>13, <1>16, StepTo, Zenon

\* The socket is attached to the session it has brought over.
LEMMA AttachStep ==
  ASSUME SessionBounds, SessInv, NEW c \in CN, AttachAdopted(c)
  PROVE  SessInv'
<1> DEFINE o == conn[c].obj
<1>0. HubInv(Hub) /\ Frame /\ conn[c].pc = "attach" /\ Hub.conn = conn /\ Hub.obj = obj
  BY HubVars DEF SessInv, AttachAdopted, Frame
<1>1. Becomes(Attach(Hub, c, o))
  BY Zenon DEF AttachAdopted
<1>2. RecOK(Cn(Hub, c)) /\ Cn(Hub, c).obj = o /\ Cn(Hub, c).pc = "attach"
  BY <1>0, ConnFields DEF Cn
<1>3. o # 0
  BY <1>2, Zenon DEF RecOK, Early
<1>4. o \in DOMAIN Hub.obj /\ Ob(Hub, o).hub = Cn(Hub, c).hub
  BY <1>0, <1>3, Zenon DEF HubInv, ConnOK, Cn
<1>5. Settled(Hub, o)
  <2>1. ASSUME NEW d \in CN, Cn(Hub, d).pc = "register", Cn(Hub, d).obj = o PROVE FALSE
    <3>1. Cn(Hub, c).obj = Cn(Hub, d).obj => c = d
      BY <1>0, <2>1, Zenon DEF HubInv, ConnOK
    <3> QED BY <1>2, <2>1, <3>1
  <2> QED BY <2>1, Zenon DEF Settled
<1> HIDE DEF o
<1>6. HubInv(Attach(Hub, c, o)) /\ Tells(Hub, Attach(Hub, c, o), {})
  BY <1>0, <1>2, <1>4, <1>5, AttachKeeps, AttachTells, Zenon DEF TookOver
<1> QED BY <1>0, <1>1, <1>6, StepTo, Zenon

\* sessions_of_user.
LEMMA LookupStep ==
  ASSUME SessionBounds, SessInv, NEW c \in CN, Lookup(c)
  PROVE  SessInv'
<1>0. HubInv(Hub) /\ Frame /\ conn[c].pc = "lookup"
  BY Zenon DEF SessInv, Lookup, Frame
<1>1. PICK t \in SUBSET (Hubs \X Sid) : Becomes([Hub EXCEPT !.conn[c].pc = "evict", !.conn[c].data = t])
  BY Zenon DEF Lookup
<1> DEFINE y == [conn[c] EXCEPT !.pc = "evict", !.data = t]
           v == [Hub EXCEPT !.conn[c] = y]
<1>2. Hub \in HubRec /\ conn[c] \in ConnRec /\ RecOK(conn[c]) /\ Hub.conn = conn /\ conn \in [CN -> ConnRec]
  BY <1>0, ConnFields, HubVars, HubFields, Zenon DEF Cn
<1>3. Becomes(v)
  <2>1. [Hub EXCEPT !.conn[c].pc = "evict", !.conn[c].data = t] = v
    BY <1>2, Zenon
  <2> QED BY <1>1, <2>1, Zenon
<1>4. y \in ConnRec /\ y.pc = "evict" /\ y.pc \in Early /\ RecOK(y) /\ y.req = "none"
  BY <1>0, <1>2, Zenon DEF ConnRec, RecOK, Early, Pcs, Data
<1> HIDE DEF y
<1>5. Moves(Hub, v, c, y) /\ Hub.gone = v.gone /\ Brings(Hub, c, y)
  BY <1>0, <1>2, <1>4, MoveTo DEF Brings, Cn
<1> HIDE DEF v
<1>6. HubInv(v)
  BY <1>0, <1>2, <1>4, <1>5, EarlyMove, Zenon DEF Early, Cn
<1>7. Tells(Hub, v, {})
  BY <1>5, MoveTells, Zenon
<1> QED BY <1>0, <1>3, <1>6, <1>7, StepTo

\* A connection looks at its list of sessions elsewhere once more.
LEMMA Shorten ==
  ASSUME NEW w, HubInv(w), NEW c \in CN, Cn(w, c).pc = "evict", NEW x
  PROVE  /\ HubInv([w EXCEPT !.conn[c].data = @ \ {x}])
         /\ Tells(w, [w EXCEPT !.conn[c].data = @ \ {x}], {})
<1> DEFINE y == [Cn(w, c) EXCEPT !.data = @ \ {x}]
           v == [w EXCEPT !.conn[c] = y]
<1>1. w \in HubRec /\ Cn(w, c) \in ConnRec /\ RecOK(Cn(w, c))
  BY ConnFields, Zenon
<1>2. Cn(w, c).data \ {x} \in SUBSET (Hubs \X Sid)
  BY <1>1 DEF RecOK
<1>3. y \in ConnRec /\ y.pc = "evict" /\ y.pc \in Early /\ RecOK(y) /\ y.req = "none"
  BY <1>1, <1>2, Zenon DEF ConnRec, RecOK, Early, Data
<1>4. [w EXCEPT !.conn[c].data = @ \ {x}] = v
  BY DEF Cn
<1> HIDE DEF y
<1>5. Moves(w, v, c, y) /\ v.gone = w.gone /\ Brings(w, c, y)
  BY <1>1, <1>3, MoveTo DEF Brings
<1> HIDE DEF v
<1>6. HubInv(v)
  BY <1>3, <1>5, EarlyMove, Zenon DEF Early
<1>7. Tells(w, v, {})
  BY <1>5, MoveTells
<1> QED BY <1>4, <1>6, <1>7, Zenon

\* A session elsewhere is evicted, or the call to do it fails.
LEMMA EvictThereStep ==
  ASSUME SessionBounds, SessInv, NEW c \in CN, EvictThere(c)
  PROVE  SessInv'
<1>0. HubInv(Hub) /\ Hub \in HubRec /\ Frame /\ conn[c].pc = "evict" /\ Hub.conn = conn /\ Hub.bySid = bySid
  BY HubVars, Zenon DEF SessInv, EvictThere, HubInv, Frame
<1>1. PICK x \in conn[c].data :
        LET o == bySid[x[1]][x[2]]
            w == IF o = 0 THEN Hub ELSE Evict(Hub, o, "duplicate")
        IN \/ Becomes([w EXCEPT !.conn[c].data = @ \ {x}])
           \/ Becomes([Hub EXCEPT !.conn[c].data = @ \ {x}])
  BY Zenon DEF EvictThere
<1>2. RecOK(Cn(Hub, c))
  BY <1>0, ConnFields
<1>3. x[1] \in Hubs /\ x[2] \in Sid
  BY <1>0, <1>1, <1>2, Zenon DEF RecOK, Cn
<1> DEFINE o == bySid[x[1]][x[2]]
           w == IF o = 0 THEN Hub ELSE Evict(Hub, o, "duplicate")
<1>4. Becomes([w EXCEPT !.conn[c].data = @ \ {x}]) \/ Becomes([Hub EXCEPT !.conn[c].data = @ \ {x}])
  BY <1>1, Zenon
<1>5. HubInv(w) /\ Cn(w, c).pc = "evict" /\ Tells(Hub, w, {})
  <2>1. CASE o = 0
    BY <1>0, <2>1, Zenon DEF Tells, Cn
  <2>2. CASE o # 0
    <3>1. w = Evict(Hub, At(Hub, x[1], x[2]), "duplicate") /\ "duplicate" \in Codes
      BY <1>0, <2>2, Zenon DEF Codes, At
    <3> HIDE DEF w
    <3>2. Quiet(Hub, w) /\ Tells(Hub, w, {})
      BY <1>0, <1>3, <2>2, <3>1, EvictTells DEF At
    <3> QED BY <1>0, <3>2, QuietKeeps DEF Quiet, SameConns, Cn
  <2> QED BY <2>1, <2>2, Zenon
<1> HIDE DEF w
<1>6. /\ HubInv([w EXCEPT !.conn[c].data = @ \ {x}]) /\ Tells(w, [w EXCEPT !.conn[c].data = @ \ {x}], {})
      /\ HubInv([Hub EXCEPT !.conn[c].data = @ \ {x}]) /\ Tells(Hub, [Hub EXCEPT !.conn[c].data = @ \ {x}], {})
  BY <1>0, <1>5, Shorten, Zenon DEF Cn
<1>7. Tells(Hub, [w EXCEPT !.conn[c].data = @ \ {x}], {})
  BY <1>5, <1>6, TellsBoth
<1> QED BY <1>0, <1>4, <1>6, <1>7, StepTo, Zenon

\* A new session is declared.
LEMMA DeclareStep ==
  ASSUME SessionBounds, SessInv, NEW c \in CN, Declare(c)
  PROVE  SessInv'
<1> DEFINE h == HubOf(c)
           n == Len(obj) + 1
<1>0. HubInv(Hub) /\ Frame /\ conn[c].pc = "evict"
  BY Zenon DEF SessInv, Declare, Frame
<1>1. /\ Hub \in HubRec /\ conn[c] \in ConnRec /\ RecOK(conn[c])
      /\ Hub.conn = conn /\ Hub.bySid = bySid /\ Hub.obj = obj /\ Hub.toks = toks
      /\ conn \in [CN -> ConnRec] /\ h \in Hubs /\ toks \in [Hubs -> SUBSET Sid]
      /\ obj \in Seq(SessRec) /\ UserOf(c) \in Users
  BY <1>0, ConnFields, HubVars, HubFields, ConnOf DEF HubOf, Cn
<1> DEFINE s == NewSid(c)
           r == NewSession(h, UserOf(c), s, FALSE, FALSE, c)
           t == [toks EXCEPT ![h] = @ \cup {s}]
           y == [conn[c] EXCEPT !.pc = "register", !.data = <<>>, !.obj = n]
           k == [conn EXCEPT ![c] = y]
           v == [Hub EXCEPT !.obj = Append(obj, r), !.toks = t, !.conn = k]
<1>3. s \in Sid /\ s = c
  BY Zenon DEF NewSid, Sid, CN
<1>5. r \in SessRec /\ r.hub = h /\ r.sid = s /\ r.conn = c
  BY <1>1, <1>3, ConnOf, Zenon DEF NewSession, SessRec
<1>6. Append(obj, r) \in Seq(SessRec) /\ Len(Append(obj, r)) = n /\ n \in Nat
  <2> HIDE DEF r
  <2> QED BY <1>1, <1>5
<1>7. Becomes(v)
  <2> DEFINE a == [Hub EXCEPT !.obj = Append(@, r)]
  <2>1. Becomes([a EXCEPT !.toks[h] = @ \cup {s}, !.conn[c] = [@ EXCEPT !.pc = "register", !.data = <<>>, !.obj = Len(a.obj)]])
    <3> HIDE DEF s
    <3> QED BY Zenon DEF Declare, s
  <2>2. a = [Hub EXCEPT !.obj = Append(obj, r)] /\ a.toks = toks /\ a.conn = conn /\ Len(a.obj) = n
    <3> HIDE DEF r, n
    <3> QED BY <1>1, <1>6 DEF HubRec
  <2> HIDE DEF a
  <2>3. Becomes([a EXCEPT !.toks = t, !.conn = k])
    <3> HIDE DEF r, n, s, h
    <3> QED BY <2>1, <2>2, Zenon
  <2> HIDE DEF t, k, r
  <2> QED BY <2>2, <2>3, Zenon
<1>8. t \in [Hubs -> SUBSET Sid]
  <2> HIDE DEF s, h
  <2> QED BY <1>1, <1>3
<1>9. y \in ConnRec /\ y.pc = "register" /\ y.obj = n /\ y.hub = h /\ y.req = conn[c].req
  <2> HIDE DEF n
  <2> QED BY <1>1, <1>6, ZenonT(30) DEF ConnRec, Pcs, Data, HubOf
<1> HIDE DEF y, t, r, s
<1>10. k \in [CN -> ConnRec] /\ k[c] = y /\ \A e \in CN : e # c => k[e] = conn[e]
  BY <1>1, <1>9
<1> HIDE DEF k
<1>11. v \in HubRec /\ v.obj = Append(obj, r) /\ v.bySid = bySid /\ v.conn = k /\ v.gone = Hub.gone
  BY <1>1, <1>6, <1>8, <1>10, Zenon DEF HubRec
<1> HIDE DEF v
<1>12. Adds(Hub, v, c, r, y)
  BY <1>1, <1>5, <1>9, <1>10, <1>11, Zenon DEF Adds, HubOf, Cn
<1>13. HubInv(v)
  BY <1>0, <1>1, <1>3, <1>5, <1>9, <1>11, <1>12, DeclareKeeps, Zenon DEF Cn
<1>14. Tells(Hub, v, {})
  BY <1>0, <1>1, <1>9, <1>11, <1>12, AddsTells, Zenon DEF Early, At, Cn
<1> QED BY <1>0, <1>7, <1>13, <1>14, StepTo, Zenon

\* The new session is entered and its id answered.
LEMMA RegisterStep ==
  ASSUME SessionBounds, SessInv, NEW c \in CN, RegisterNew(c)
  PROVE  SessInv'
<1> DEFINE o == conn[c].obj
           s == obj[o].sid
           h == HubOf(c)
           b == [bySid EXCEPT ![h][s] = o]
           z == [byUser EXCEPT ![h][UserOf(c)] = s]
           y == [conn[c] EXCEPT !.pc = "open"]
           k == [conn EXCEPT ![c] = y]
           v == [Hub EXCEPT !.bySid = b, !.byUser = z, !.conn = k]
<1>0. /\ HubInv(Hub) /\ SidsOK /\ sids' = [sids EXCEPT ![UserOf(c)] = s] /\ conn[c].pc = "register"
      /\ member' = member /\ late' = late
  BY Zenon DEF SessInv, RegisterNew
<1>1. /\ Hub \in HubRec /\ conn[c] \in ConnRec /\ RecOK(conn[c])
      /\ Hub.conn = conn /\ Hub.bySid = bySid /\ Hub.obj = obj /\ Hub.byUser = byUser
      /\ conn \in [CN -> ConnRec] /\ h \in Hubs /\ bySid \in [Hubs -> [Sid -> Nat]]
      /\ byUser \in [Hubs -> [Users -> {0} \cup Sid]] /\ UserOf(c) \in Users
  BY <1>0, ConnFields, HubVars, HubFields, ConnOf, Zenon DEF HubOf, Cn
<1>2. o # 0 /\ o \in DOMAIN obj
  <2>1. o # 0
    BY <1>0, <1>1, Zenon DEF RecOK, Early
  <2> QED BY <1>0, <1>1, <2>1, Zenon DEF HubInv, ConnOK, Cn
<1>3. s \in Sid /\ o \in Nat
  BY <1>1, <1>2, SessFields, Zenon DEF Ob
<1>4. Becomes(v)
  BY <1>1, ZenonT(30) DEF RegisterNew
<1> HIDE DEF o, s, h
<1>5. b \in [Hubs -> [Sid -> Nat]] /\ b[h][s] = o /\ \A g \in Hubs, t \in Sid : g # h \/ t # s => b[g][t] = bySid[g][t]
  BY <1>1, <1>3
<1>6. z \in [Hubs -> [Users -> {0} \cup Sid]]
  BY <1>1, <1>3
<1>7. y \in ConnRec /\ y.pc = "open" /\ y.obj = o /\ y.hub = h /\ y.req = conn[c].req
  BY <1>1, Zenon DEF ConnRec, Pcs, HubOf, o, h
<1> HIDE DEF y, b, z
<1>8. k \in [CN -> ConnRec] /\ k[c] = y /\ \A e \in CN : e # c => k[e] = conn[e]
  BY <1>1, <1>7, Zenon
<1> HIDE DEF k
<1>9. v \in HubRec /\ v.obj = obj /\ v.bySid = b /\ v.conn = k /\ v.gone = Hub.gone
  BY <1>1, <1>5, <1>6, <1>8, Zenon DEF HubRec
<1> HIDE DEF v
<1>10. Enters(Hub, v, Cn(Hub, c).hub, Ob(Hub, Cn(Hub, c).obj).sid, Cn(Hub, c).obj)
  <2>1. Cn(Hub, c).hub = h /\ Cn(Hub, c).obj = o /\ Ob(Hub, o).sid = s
    BY <1>1, Zenon DEF HubOf, o, s, h, Ob, Cn
  <2>2. \A g \in Hubs, t \in Sid : At(v, g, t) = b[g][t] /\ At(Hub, g, t) = bySid[g][t]
    BY <1>1, <1>9, Zenon DEF At
  <2>3. Enters(Hub, v, h, s, o)
    <3>1. At(v, h, s) = o
      BY <1>1, <1>3, <1>5, <2>2, Zenon
    <3>2. ASSUME NEW g \in Hubs, NEW t \in Sid, g # h \/ t # s PROVE At(v, g, t) = At(Hub, g, t)
      <4>1. b[g][t] = bySid[g][t]
        BY <1>5, <3>2
      <4> QED BY <2>2, <4>1, Zenon
    <3> QED BY <3>1, <3>2, Zenon DEF Enters
  <2> QED BY <2>1, <2>3, Zenon
<1>11. /\ y.obj = Cn(Hub, c).obj /\ y.hub = Cn(Hub, c).hub /\ y.req = Cn(Hub, c).req /\ v.obj = Hub.obj
       /\ Cn(v, c) = y /\ \A d \in CN : d # c => Cn(v, d) = Cn(Hub, d)
  BY <1>1, <1>7, <1>8, <1>9, Zenon DEF HubOf, o, h, Cn
<1>12. HubInv(v)
  BY <1>0, <1>1, <1>7, <1>9, <1>10, <1>11, RegisterKeeps, ZenonT(30) DEF Cn
<1>13. Hub' = v
  BY <1>4, <1>9, HubNext, Zenon
<1>14. SidsOK'
  BY <1>0, <1>1, <1>3, Zenon DEF SidsOK
<1>15. Tells(Hub, v, {})
  <2>1. s = Ob(Hub, Cn(Hub, c).obj).sid /\ Enters(Hub, v, Cn(Hub, c).hub, s, Cn(Hub, c).obj) /\ Cn(Hub, c).pc = "register"
    BY <1>0, <1>1, <1>10, Zenon DEF s, o, Ob, Cn
  <2> QED BY <1>0, <1>3, <1>9, <1>11, <2>1, RegisterTells, Zenon
<1>16. Asking(v) /\ Members'
  <2>1. Asking(v) /\ \A t \in Sid : Safe(Hub, t) => Safe(v, t)
    BY <1>15 DEF SessInv, Tells
  <2>2. \A u \in Users : member[u] = 0 \/ member[u] \in late \/ Safe(v, member[u])
    BY <2>1, Zenon DEF SessInv, Members
  <2> QED BY <1>0, <1>13, <2>1, <2>2, Zenon DEF SessInv, Members
<1> QED BY <1>12, <1>13, <1>14, <1>16, Zenon DEF SessInv

(* VisitAll as a recursion *)

\* The element a fold takes next.
Pick(s) == CHOOSE x \in s : TRUE
\* g is the recursion that VisitAll unfolds to, on the subsets of S.
IsIter(k, b, S, g) == g = [s \in SUBSET S |-> IF s = {} THEN b ELSE Visit(k, g[s \ {Pick(s)}], Pick(s))]
\* The recursion it chooses.
Iter(k, b, S) == CHOOSE g : IsIter(k, b, S, g)

\* The loop of the model is that recursion.
LEMMA VisitIsIter == ASSUME NEW k, NEW S PROVE VisitAll(k, S) = Iter(k, Hub, S)[S]
BY Zenon DEF VisitAll, FoldSet, MapThenFoldSet, Iter, IsIter, Pick
====
