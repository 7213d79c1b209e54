--------------------------- MODULE HubStepProofs ---------------------------
(***************************************************************************)
(* The steps of a bound connection, of the sweep and of the media server    *)
(* keep the invariant of the hubs' sessions; so do the loops over sets of   *)
(* sessions; and the invariant gives OneHome, NoOrphan and NoGhost for any  *)
(* hubs, users and connections.  The theorems on finite sets and on         *)
(* induction are taken in after the steps, which do not need them.          *)
(***************************************************************************)
EXTENDS HubProofs

\* The session object of a connection whose bind is over.
LEMMA ServedSettled ==
  ASSUME NEW w, HubInv(w), NEW c \in CN, Cn(w, c).pc \in Serving
  PROVE  /\ Cn(w, c).obj \in DOMAIN w.obj /\ Settled(w, Cn(w, c).obj)
         /\ Ob(w, Cn(w, c).obj).hub = Cn(w, c).hub
<1>1. RecOK(Cn(w, c))
  BY ConnFields
<1>2. Cn(w, c).obj # 0 /\ Cn(w, c).pc # "register"
  BY <1>1 DEF RecOK, Early, Serving
<1> QED BY <1>2 DEF HubInv, ConnOK, Settled

\* The socket ends or the client leaves.
LEMMA SocketEndsStep ==
  ASSUME SessionBounds, SessInv, NEW c \in CN, SocketEnds(c)
  PROVE  SessInv'
<1> DEFINE o == conn[c].obj
<1>0. HubInv(Hub) /\ Hub \in HubRec /\ Frame /\ Cn(Hub, c).pc = "open" /\ Hub.conn = conn
  BY HubVars, Zenon DEF SessInv, SocketEnds, HubInv, Frame, Cn
<1>1. Cn(Hub, c).pc \in Serving /\ "drain" \in Serving /\ "left" \in Serving
  BY <1>0 DEF Serving
<1>2. o \in DOMAIN Hub.obj /\ Settled(Hub, o)
  BY <1>0, <1>1, ServedSettled, Zenon DEF Cn
<1>3. CASE Becomes([Hub EXCEPT !.conn[c].pc = "drain"])
  <2>1. HubInv([Hub EXCEPT !.conn[c].pc = "drain"]) /\ Tells(Hub, [Hub EXCEPT !.conn[c].pc = "drain"], {})
    BY <1>0, <1>1, PcMove, Zenon
  <2> QED BY <1>0, <1>3, <2>1, StepTo
<1>4. CASE Becomes([Dispose(Hub, o) EXCEPT !.conn[c].pc = "left"]) /\ late' = late \cup Stale(o)
  <2> DEFINE w == Dispose(Hub, o)
  <2> HIDE DEF o
  <2>1. Quiet(Hub, w) /\ w.bySid = Unregister(Hub, o).bySid /\ Spares(Hub, w, Stale(o))
    <3>1. Hub.obj = obj /\ Hub.bySid = bySid
      BY HubVars, Zenon
    <3> QED BY <1>0, <1>2, <3>1, DisposeQuiet, DisposeSpares, Zenon DEF Stale, At, Ob
  <2>2. At(w, Ob(Hub, o).hub, Ob(Hub, o).sid) = 0
    BY <1>0, <1>2, <2>1, UnregisterQuiet, Zenon DEF At
  <2>a. Becomes([w EXCEPT !.conn[c].pc = "left"])
    BY <1>4
  <2> HIDE DEF w
  <2>3. Cn(w, c).pc = "open" /\ Cn(w, c).obj = o /\ At(w, Ob(w, o).hub, Ob(w, o).sid) = 0
    BY <1>0, <1>2, <2>1, <2>2, Zenon DEF Quiet, SameConns, SameObjs, o, Cn
  <2>4. HubInv(w) /\ Tells(Hub, w, Stale(o))
    BY <1>0, <2>1, QuietKeeps, QuietTells, Zenon
  <2>5. HubInv([w EXCEPT !.conn[c].pc = "left"]) /\ Tells(w, [w EXCEPT !.conn[c].pc = "left"], {})
    BY <1>1, <2>3, <2>4, PcMove, Zenon DEF Serving
  <2>6. Tells(Hub, [w EXCEPT !.conn[c].pc = "left"], Stale(o) \cup {})
    BY <2>4, <2>5, TellsTrans, Zenon
  <2>7. Stale(o) \cup {} \subseteq late'
    BY <1>4, Zenon
  <2> QED BY <1>0, <2>a, <2>5, <2>6, <2>7, StepLosing
<1> QED BY <1>3, <1>4, Zenon DEF SocketEnds

\* socket_dropped.
LEMMA SocketDroppedStep ==
  ASSUME SessionBounds, SessInv, NEW c \in CN, SocketDropped(c)
  PROVE  SessInv'
<1> DEFINE o == conn[c].obj
           mine == obj[o].conn = c /\ bySid[HubOf(c)][obj[o].sid] # 0
           w == IF mine THEN Dropped(Hub, o, c) ELSE Hub
           X == IF mine THEN Stale(o) ELSE {}
<1>0. /\ HubInv(Hub) /\ Hub \in HubRec /\ Frame /\ Cn(Hub, c).pc = "drain" /\ Hub.conn = conn
      /\ Hub.obj = obj /\ Hub.bySid = bySid
  BY HubVars, Zenon DEF SessInv, SocketDropped, HubInv, Frame, Cn
<1>1. Cn(Hub, c).pc \in Serving /\ "closed" \in Serving
  BY <1>0, Zenon DEF Serving
<1>2. o \in DOMAIN Hub.obj /\ Settled(Hub, o) /\ Ob(Hub, o).hub = HubOf(c)
  BY <1>0, <1>1, ServedSettled, Zenon DEF HubOf, Cn
<1>3. Becomes([w EXCEPT !.conn[c].pc = "closed"]) /\ X \subseteq late'
  BY Zenon DEF SocketDropped
<1>4. /\ HubInv(w) /\ Cn(w, c).pc \in Serving /\ Cn(w, c).obj = o
      /\ Ob(w, o).conn # c \/ At(w, Ob(w, o).hub, Ob(w, o).sid) = 0
      /\ Tells(Hub, w, X)
  <2>1. CASE ~mine
    <3>1. w = Hub
      BY <2>1, Zenon
    <3>2. Tells(Hub, w, X)
      BY <3>1, Zenon DEF Tells
    <3> HIDE DEF X
    <3> QED BY <2>1, <1>0, <1>1, <1>2, <3>1, <3>2, Zenon DEF At, Ob, Cn
  <2>2. CASE mine /\ conn[c].code \in {"revoked", "shutdown"}
    <3>1. w = Dispose(Hub, o) /\ X = IF At(Hub, Ob(Hub, o).hub, Ob(Hub, o).sid) \in {0, o} THEN {} ELSE {Ob(Hub, o).sid}
      BY <2>2, <1>0, Zenon DEF Dropped, Stale, At, Ob
    <3> HIDE DEF o, w, X
    <3>2. Quiet(Hub, w) /\ w.bySid = Unregister(Hub, o).bySid /\ Spares(Hub, w, X)
      BY <1>0, <1>2, <3>1, DisposeQuiet, DisposeSpares, Zenon
    <3>3. At(w, Ob(Hub, o).hub, Ob(Hub, o).sid) = 0
      BY <1>0, <1>2, <3>2, UnregisterQuiet DEF At
    <3>4. Cn(w, c).pc \in Serving /\ Cn(w, c).obj = o /\ At(w, Ob(w, o).hub, Ob(w, o).sid) = 0
      BY <1>0, <1>1, <1>2, <3>2, <3>3, Zenon DEF Quiet, SameConns, SameObjs, o, Cn
    <3>5. HubInv(w) /\ Tells(Hub, w, X)
      BY <1>0, <3>2, QuietKeeps, QuietTells
    <3> QED BY <3>4, <3>5, Zenon
  <2>3. CASE mine /\ conn[c].code \notin {"revoked", "shutdown"}
    <3> DEFINE r == [obj[o] EXCEPT !.bound = FALSE, !.conn = 0, !.dropped = TRUE]
               b == [obj EXCEPT ![o] = r]
    <3>1. w = [Hub EXCEPT !.obj = b]
      BY <2>3, <1>0, Zenon DEF Dropped
    <3>2. obj[o] \in SessRec
      BY <1>0, <1>2, SessFields DEF Ob
    <3>3. r \in SessRec /\ r.hub = obj[o].hub /\ r.sid = obj[o].sid /\ r.conn = 0 /\ r.dropped /\ r.touched = obj[o].touched
      BY <3>2, Zenon DEF SessRec
    <3> HIDE DEF r, o, w, X
    <3>4. b \in Seq(SessRec) /\ DOMAIN b = DOMAIN obj /\ b[o] = r /\ \A p \in DOMAIN obj : p # o => b[p] = obj[p]
      BY <1>0, <1>2, <3>3, ObjUpdate, Zenon
    <3> HIDE DEF b
    <3>5. w \in HubRec /\ w.obj = b /\ w.bySid = bySid /\ w.conn = conn /\ w.gone = Hub.gone
      BY <1>0, <3>1, <3>4, Zenon DEF HubRec
    <3>6. HubInv(w)
      BY <1>0, <1>2, <3>3, <3>4, <3>5, LetGo DEF Ob
    <3>7. Ob(w, o).conn # c
      <4>1. c # 0
        BY Numbered
      <4> QED BY <4>1, <3>3, <3>4, <3>5, Zenon DEF Ob
    <3>8. \A p \in DOMAIN Hub.obj : Ob(w, p).touched = Ob(Hub, p).touched
      BY <1>0, <3>3, <3>4, <3>5, Zenon DEF Ob
    <3>9. Tells(Hub, w, {})
      BY <1>0, <3>5, <3>8, SameTells
    <3>10. Tells(Hub, w, X)
      BY <3>9 DEF Tells
    <3> QED BY <1>0, <1>1, <3>5, <3>6, <3>7, <3>10, Zenon DEF o, Cn
  <2> QED BY <2>1, <2>2, <2>3, Zenon
<1> HIDE DEF w, X
<1>5. HubInv([w EXCEPT !.conn[c].pc = "closed"]) /\ Tells(w, [w EXCEPT !.conn[c].pc = "closed"], {})
  BY <1>1, <1>4, PcMove, Zenon
<1>6. Tells(Hub, [w EXCEPT !.conn[c].pc = "closed"], X \cup {})
  BY <1>4, <1>5, TellsTrans, Zenon
<1>7. X \cup {} \subseteq late'
  BY <1>3, Zenon
<1> QED BY <1>0, <1>3, <1>5, <1>6, <1>7, StepLosing

\* One visit of a loop to a session that is registered, or no longer, is quiet.
LEMMA VisitQuiet ==
  ASSUME NEW w \in HubRec, NEW o \in DOMAIN w.obj, NEW k \in {"dispose", "shutdown", "dropped"}, Settled(w, o),
         At(w, Ob(w, o).hub, Ob(w, o).sid) \in {0, o}
  PROVE  Quiet(w, Visit(k, w, o)) /\ Spares(w, Visit(k, w, o), {})
<1>1. CASE k = "dispose"
  <2>1. Visit(k, w, o) = Dispose(w, o)
    BY <1>1 DEF Visit
  <2> DEFINE X == IF At(w, Ob(w, o).hub, Ob(w, o).sid) \in {0, o} THEN {} ELSE {Ob(w, o).sid}
  <2>2. X = {}
    BY Zenon
  <2>3. Quiet(w, Dispose(w, o)) /\ Spares(w, Dispose(w, o), X)
    BY DisposeQuiet, DisposeSpares, Zenon
  <2> HIDE DEF X
  <2> QED BY <2>1, <2>2, <2>3, Zenon
<1>2. CASE k = "shutdown"
  <2>1. Visit(k, w, o) = Kick(w, o, "shutdown") /\ "shutdown" \in Codes
    BY <1>2 DEF Visit, Codes
  <2> QED BY <2>1, KickQuiet, KickSpares
<1>3. CASE k = "dropped"
  <2>1. Visit(k, w, o) = SetRoom(w, o, FALSE)
    BY <1>3, Zenon DEF Visit
  <2>2. /\ Quiet(w, SetRoom(w, o, FALSE))
        /\ SetRoom(w, o, FALSE).bySid = w.bySid /\ SetRoom(w, o, FALSE).gone = w.gone
    BY SetRoomQuiet, Zenon
  <2> QED BY <2>1, <2>2, Zenon DEF Spares, At
<1> QED BY <1>1, <1>2, <1>3, Zenon

\* cut.
LEMMA CutStep ==
  ASSUME SessionBounds, SessInv, NEW h \in Hubs, NEW u \in Users, Cut(h, u)
  PROVE  SessInv'
<1> DEFINE s == byUser[h][u]
           o == IF s = 0 THEN 0 ELSE bySid[h][s]
<1>0. HubInv(Hub) /\ Hub \in HubRec /\ Frame /\ Hub.byUser = byUser /\ Hub.bySid = bySid
  BY HubVars, Zenon DEF SessInv, Cut, HubInv, Frame
<1>1. o # 0 /\ Becomes(Evict(Hub, o, "revoked")) /\ "revoked" \in Codes
  BY Zenon DEF Cut, Codes
<1>2. s \in Sid /\ bySid[h][s] # 0 /\ o = bySid[h][s]
  <2>1. s \in {0} \cup Sid
    BY <1>0, HubFields
  <2> QED BY <1>1, <2>1, Zenon
<1> HIDE DEF s
<1> HIDE DEF o
<1>3. Becomes(Evict(Hub, At(Hub, h, s), "revoked")) /\ At(Hub, h, s) # 0
  BY <1>0, <1>1, <1>2 DEF At
<1>4. Quiet(Hub, Evict(Hub, At(Hub, h, s), "revoked")) /\ Tells(Hub, Evict(Hub, At(Hub, h, s), "revoked"), {})
  BY <1>0, <1>1, <1>2, <1>3, EvictTells, Zenon
<1>5. HubInv(Evict(Hub, At(Hub, h, s), "revoked"))
  BY <1>0, <1>4, QuietKeeps, Zenon
<1> QED BY <1>0, <1>3, <1>4, <1>5, StepTo, Zenon

\* A request goes out.
LEMMA AskStep ==
  ASSUME SessionBounds, SessInv, NEW c \in CN, NEW op \in {"join", "leave", "resume"}, Ask(c, op)
  PROVE  SessInv'
<1> DEFINE o == conn[c].obj
           r == [obj[o] EXCEPT !.touched = @ \/ op # "resume"]
           b == [obj EXCEPT ![o] = r]
           i == [interest EXCEPT ![HubOf(c)] = IF op = "join" THEN @ + 1 ELSE @]
           w == [Hub EXCEPT !.obj = b, !.interest = i]
<1>0. /\ HubInv(Hub) /\ Hub \in HubRec /\ Frame /\ conn[c].pc \in Serving /\ Hub.conn = conn
      /\ Hub.obj = obj /\ Hub.bySid = bySid /\ Hub.interest = interest
  BY HubVars, Zenon DEF SessInv, Ask, HubInv, Serving, Frame
<1>1. /\ o \in DOMAIN Hub.obj /\ HubOf(c) \in Hubs /\ conn \in [CN -> ConnRec] /\ interest \in [Hubs -> Nat]
  BY <1>0, ServedSettled, HubFields, ConnFields, Zenon DEF HubOf, Cn
<1>2. obj[o] \in SessRec /\ obj[o].touched \in BOOLEAN
  BY <1>0, <1>1, SessFields DEF Ob
<1>3. /\ r \in SessRec /\ r.conn = obj[o].conn /\ r.hub = obj[o].hub /\ r.sid = obj[o].sid /\ r.user = obj[o].user
      /\ (obj[o].touched => r.touched) /\ r.dropped = obj[o].dropped /\ (op = "join" => r.touched)
  BY <1>2, Zenon DEF SessRec
<1>4. i \in [Hubs -> Nat]
  BY <1>1
<1>5. Becomes([w EXCEPT !.conn[c].req = op])
  <2>1. [Hub EXCEPT !.conn[c].req = op, !.obj[o].touched = @ \/ op # "resume",
                    !.interest[HubOf(c)] = IF op = "join" THEN @ + 1 ELSE @] = [w EXCEPT !.conn[c].req = op]
    BY <1>0, ZenonT(30) DEF HubRec
  <2>2. Becomes([Hub EXCEPT !.conn[c].req = op, !.obj[o].touched = @ \/ op # "resume",
                    !.interest[HubOf(c)] = IF op = "join" THEN @ + 1 ELSE @])
    BY Zenon DEF Ask
  <2> QED BY <2>1, <2>2, Zenon
<1> HIDE DEF r, i, o
<1>6. b \in Seq(SessRec) /\ DOMAIN b = DOMAIN obj /\ b[o] = r /\ \A p \in DOMAIN obj : p # o => b[p] = obj[p]
  BY <1>0, <1>1, <1>3, ObjUpdate
<1> HIDE DEF b
<1>7. w \in HubRec /\ w.obj = b /\ w.bySid = bySid /\ w.conn = conn /\ w.gone = Hub.gone
  BY <1>0, <1>4, <1>6, Zenon DEF HubRec
<1> HIDE DEF w
<1>8. Quiet(Hub, w)
  <2>1. SameObjs(Hub, w)
    BY <1>0, <1>1, <1>3, <1>6, <1>7, Zenon DEF SameObjs, Ob
  <2>2. Leaves(Hub, w)
    BY <1>0, <1>1, <1>3, <1>6, <1>7, Zenon DEF Leaves, At, Ob
  <2> QED BY <1>0, <1>7, <2>1, <2>2, Zenon DEF Quiet, SameConns, Cn
<1>9. HubInv(w)
  BY <1>0, <1>8, QuietKeeps, Zenon
<1>10. Tells(Hub, w, {})
  <2>1. Spares(Hub, w, {})
    BY <1>0, <1>7, Zenon DEF Spares, At
  <2> QED BY <1>0, <1>8, <2>1, QuietTells
<1>11. op # "join" \/ Ob(w, Cn(w, c).obj).touched
  BY <1>3, <1>6, <1>7, Zenon DEF o, Ob, Cn
<1>12. HubInv([w EXCEPT !.conn[c].req = op]) /\ Tells(w, [w EXCEPT !.conn[c].req = op], {})
  BY <1>0, <1>7, <1>9, <1>11, ReqMove, Zenon DEF Reqs, Cn
<1>13. Tells(Hub, [w EXCEPT !.conn[c].req = op], {})
  BY <1>10, <1>12, TellsBoth, Zenon
<1> QED BY <1>0, <1>5, <1>12, <1>13, StepTo, Zenon

\* A step of a processor that only changes what it waits for.
LEMMA ReqChange ==
  ASSUME SessInv, NEW c \in CN, conn[c].req # "none", NEW r \in Reqs, r # "join"
  PROVE  HubInv([Hub EXCEPT !.conn[c].req = r]) /\ Tells(Hub, [Hub EXCEPT !.conn[c].req = r], {})
<1>0. HubInv(Hub) /\ Hub.conn = conn
  BY HubVars, Zenon DEF SessInv
<1>1. Cn(Hub, c).pc \in Serving
  BY <1>0, Requesting, Zenon DEF Cn
<1> QED BY <1>0, <1>1, ReqMove, Zenon

\* A join is carried out: the new member's session is registered and has called the
\* server, or is in late.
LEMMA JoinStep ==
  ASSUME SessionBounds, SessInv, NEW c \in CN, conn[c].req = "join",
         Becomes([Hub EXCEPT !.conn[c].req = "joined"]), sids' = sids,
         member' = [member EXCEPT ![UserOf(c)] = obj[conn[c].obj].sid],
         late' = IF Registered(conn[c].obj) THEN late \ {obj[conn[c].obj].sid} ELSE late \cup {obj[conn[c].obj].sid}
  PROVE  SessInv'
<1> DEFINE o == conn[c].obj
           s == obj[o].sid
           v == [Hub EXCEPT !.conn[c].req = "joined"]
<1>0. /\ HubInv(Hub) /\ Hub \in HubRec /\ Hub.conn = conn /\ Hub.obj = obj /\ Hub.bySid = bySid
      /\ SidsOK /\ Asking(Hub) /\ Members /\ UserOf(c) \in Users
  BY HubVars, ConnOf, Zenon DEF SessInv, HubInv
<1>1. HubInv(v) /\ Tells(Hub, v, {})
  BY ReqChange, Zenon DEF Reqs
<1>2. Hub' = v
  BY <1>1, HubNext, Zenon DEF HubInv
<1>3. o \in DOMAIN Hub.obj /\ o # 0 /\ obj[o].touched
  BY <1>0, JoinsObject, Zenon DEF Asking, Ob, Cn
<1>4. s \in Sid /\ obj[o].hub \in Hubs
  BY <1>0, <1>3, SessFields, Zenon DEF Ob
<1> HIDE DEF v
<1>5. Registered(o) => Safe(v, s)
  <2>1. Registered(o) => Safe(Hub, s)
    BY <1>0, <1>3, <1>4, Zenon DEF Safe, Registered, At, Ob
  <2> QED BY <1>1, <1>4, <2>1, Zenon DEF Tells
<1>6. s \in late' \/ Safe(v, s)
  BY <1>5, Zenon
<1>7. \A u \in Users : member'[u] = IF u = UserOf(c) THEN s ELSE member[u]
  BY <1>0, Zenon DEF Members
<1>8. member' \in [Users -> {0} \cup Sid]
  BY <1>0, <1>4, Zenon DEF Members
<1> HIDE DEF o, s
<1>9. ASSUME NEW u \in Users PROVE member'[u] = 0 \/ member'[u] \in late' \/ Safe(v, member'[u])
  <2>1. CASE u = UserOf(c) \/ member[u] = s
    BY <1>6, <1>7, <2>1, Zenon
  <2>2. CASE u # UserOf(c) /\ member[u] # s
    <3>1. member[u] \in late => member[u] \in late'
      BY <2>2, Zenon DEF o, s
    <3>2. member[u] \in {0} \cup Sid /\ (member[u] = 0 \/ member[u] \in late \/ Safe(Hub, member[u]))
      BY <1>0, Zenon DEF Members
    <3>3. member[u] \in Sid /\ Safe(Hub, member[u]) => Safe(v, member[u])
      BY <1>1, Zenon DEF Tells
    <3> QED BY <1>7, <2>2, <3>1, <3>2, <3>3, Zenon
  <2> QED BY <2>1, <2>2, Zenon
<1>10. Members'
  BY <1>2, <1>8, <1>9, Zenon DEF Members
<1>11. Asking(v) /\ SidsOK'
  BY <1>0, <1>1, Zenon DEF Tells, SidsOK
<1> QED BY <1>1, <1>2, <1>10, <1>11, Zenon DEF SessInv

\* The media server answers.
LEMMA ServeStep ==
  ASSUME SessionBounds, SessInv, NEW c \in CN, Serve(c)
  PROVE  SessInv'
<1> DEFINE u == UserOf(c)
           Served(r) == [Hub EXCEPT !.conn[c].req = r]
<1>1. CASE conn[c].req = "join"
  BY <1>1, JoinStep, Zenon DEF Serve
<1>2. CASE conn[c].req = "leave"
  <2> DEFINE r == IF member[u] # 0 THEN "out" ELSE "failed"
  <2>1. member' = [member EXCEPT ![u] = 0] /\ late' = late /\ sids' = sids /\ Becomes(Served(r))
    BY <1>2, Zenon DEF Serve
  <2>2. r \in Reqs /\ r # "join" /\ conn[c].req # "none"
    BY <1>2 DEF Reqs
  <2> HIDE DEF r, u
  <2>3. HubInv(Served(r)) /\ Tells(Hub, Served(r), {})
    BY <2>2, ReqChange, Zenon
  <2>4. Hub' = Served(r)
    BY <2>1, <2>3, HubNext, Zenon DEF HubInv
  <2> HIDE DEF Served
  <2>5. Members'
    <3>1. /\ member \in [Users -> {0} \cup Sid]
          /\ \A n \in Users : member[n] = 0 \/ member[n] \in late \/ Safe(Hub, member[n])
      BY Zenon DEF SessInv, Members
    <3>2. \A t \in Sid : Safe(Hub, t) => Safe(Served(r), t)
      BY <2>3, Zenon DEF Tells
    <3>3. member' \in [Users -> {0} \cup Sid] /\ \A n \in Users : member'[n] \in {0, member[n]}
      BY <2>1, <3>1, Zenon
    <3>4. \A n \in Users : member'[n] = 0 \/ member'[n] \in late' \/ Safe(Served(r), member'[n])
      BY <2>1, <3>1, <3>2, <3>3, Zenon
    <3> QED BY <2>4, <3>3, <3>4, Zenon DEF Members
  <2>6. SidsOK' /\ Asking(Hub')
    BY <2>1, <2>3, <2>4, Zenon DEF SessInv, SidsOK, Tells
  <2> QED BY <2>3, <2>4, <2>5, <2>6 DEF SessInv
<1>3. CASE conn[c].req = "resume"
  <2> DEFINE r == IF member[u] # 0 THEN "in" ELSE "out"
  <2>1. Frame /\ Becomes(Served(r))
    BY <1>3, Zenon DEF Serve, Frame
  <2>2. r \in Reqs /\ r # "join" /\ conn[c].req # "none"
    BY <1>3 DEF Reqs
  <2> HIDE DEF r
  <2>3. HubInv(Served(r)) /\ Tells(Hub, Served(r), {})
    BY <2>2, ReqChange, Zenon
  <2> HIDE DEF Served
  <2> QED BY <2>1, <2>3, StepTo
<1> QED BY <1>1, <1>2, <1>3, Zenon DEF Serve

\* The call fails.
LEMMA CallFailsStep ==
  ASSUME SessionBounds, SessInv, NEW c \in CN, CallFails(c)
  PROVE  SessInv'
<1> DEFINE r == IF Cn(Hub, c).req \in {"join", "joined"} THEN "nojoin" ELSE "failed"
<1>1. conn[c].req # "none" /\ Frame /\ r \in Reqs /\ r # "join"
  BY Zenon DEF CallFails, Reqs, Frame
<1>2. Becomes([Hub EXCEPT !.conn[c].req = r])
  BY Zenon DEF CallFails, Cn
<1> HIDE DEF r
<1>3. HubInv([Hub EXCEPT !.conn[c].req = r]) /\ Tells(Hub, [Hub EXCEPT !.conn[c].req = r], {})
  BY <1>1, ReqChange, Zenon
<1> QED BY <1>1, <1>2, <1>3, StepTo, Zenon

\* A change of a hub's interest is quiet.
LEMMA InterestQuiet ==
  ASSUME NEW w \in HubRec, NEW h \in Hubs, NEW n \in Nat
  PROVE  /\ Quiet(w, [w EXCEPT !.interest[h] = n])
         /\ [w EXCEPT !.interest[h] = n].obj = w.obj /\ [w EXCEPT !.interest[h] = n].bySid = w.bySid
         /\ [w EXCEPT !.interest[h] = n].gone = w.gone
<1> DEFINE i == [w.interest EXCEPT ![h] = n]
           v == [w EXCEPT !.interest[h] = n]
<1>1. i \in [Hubs -> Nat] /\ v = [w EXCEPT !.interest = i]
  BY HubFields
<1> HIDE DEF i
<1>2. v \in HubRec /\ v.obj = w.obj /\ v.bySid = w.bySid /\ v.conn = w.conn /\ v.gone = w.gone
  BY <1>1, Zenon DEF HubRec
<1> HIDE DEF v
<1>3. Quiet(w, v)
  BY <1>2, Zenon DEF Quiet, SameObjs, SameConns, Leaves, At, Ob, Cn
<1> QED BY <1>2, <1>3 DEF v

\* The answer is applied.
LEMMA AnsweredStep ==
  ASSUME SessionBounds, SessInv, NEW c \in CN, Answered(c)
  PROVE  SessInv'
<1> DEFINE o == conn[c].obj
           h == HubOf(c)
           r == conn[c].req
           w == CASE r = "joined" -> [SetRoom(Hub, o, TRUE) EXCEPT !.interest[h] = Minus(@)]
                  [] r = "nojoin" -> [Hub EXCEPT !.interest[h] = Minus(@)]
                  [] r = "out" -> SetRoom(Hub, o, FALSE)
                  [] r = "in" -> SetRoom(Hub, o, TRUE)
                  [] r = "failed" -> Hub
<1>0. HubInv(Hub) /\ Hub \in HubRec /\ Frame /\ Hub.conn = conn /\ Hub.obj = obj
  BY HubVars, Zenon DEF SessInv, Answered, HubInv, Frame
<1>1. r \in {"joined", "nojoin", "out", "in", "failed"} /\ Becomes([w EXCEPT !.conn[c].req = "none"])
  BY Zenon DEF Answered
<1>2. conn[c].pc \in Serving /\ o \in DOMAIN Hub.obj /\ h \in Hubs
  BY <1>0, <1>1, Requesting, ConnFields, Zenon DEF HubOf, Cn
<1> HIDE DEF o, h
<1>3. Quiet(Hub, w) /\ w.bySid = Hub.bySid /\ w.gone = Hub.gone
  <2> DEFINE t == SetRoom(Hub, o, TRUE)
             e == SetRoom(Hub, o, FALSE)
  <2>1. /\ Quiet(Hub, t) /\ t \in HubRec /\ t.bySid = Hub.bySid /\ t.gone = Hub.gone
        /\ Quiet(Hub, e) /\ e.bySid = Hub.bySid /\ e.gone = Hub.gone
    BY <1>0, <1>2, SetRoomQuiet, Zenon DEF Quiet
  <2>a. Quiet(Hub, Hub)
    BY <1>0 DEF Quiet, SameObjs, SameConns, Leaves
  <2> HIDE DEF t, e
  <2>2. \A x \in HubRec : Minus(x.interest[h]) \in Nat
    BY <1>2, HubFields DEF Minus
  <2>3. Quiet(t, [t EXCEPT !.interest[h] = Minus(@)]) /\ Quiet(Hub, [Hub EXCEPT !.interest[h] = Minus(@)])
    BY <1>0, <1>2, <2>1, <2>2, InterestQuiet
  <2>4. Quiet(Hub, [t EXCEPT !.interest[h] = Minus(@)])
    <3>1. [t EXCEPT !.interest[h] = Minus(@)] \in HubRec
      BY <2>3, Zenon DEF Quiet
    <3> QED BY <1>0, <2>1, <2>3, <3>1, QuietTrans
  <2>b. /\ [t EXCEPT !.interest[h] = Minus(@)].bySid = Hub.bySid /\ [t EXCEPT !.interest[h] = Minus(@)].gone = Hub.gone
        /\ [Hub EXCEPT !.interest[h] = Minus(@)].bySid = Hub.bySid /\ [Hub EXCEPT !.interest[h] = Minus(@)].gone = Hub.gone
    BY <1>0, <1>2, <2>1, <2>2, InterestQuiet
  <2>5. w \in {[t EXCEPT !.interest[h] = Minus(@)], [Hub EXCEPT !.interest[h] = Minus(@)], e, t, Hub}
    BY <1>1, Zenon DEF t, e
  <2> HIDE DEF w
  <2> QED BY <2>1, <2>a, <2>3, <2>4, <2>b, <2>5, Zenon
<1> HIDE DEF w
<1>4. HubInv(w) /\ Cn(w, c).pc \in Serving
  BY <1>0, <1>2, <1>3, QuietKeeps, Zenon DEF Quiet, SameConns, Cn
<1>5. HubInv([w EXCEPT !.conn[c].req = "none"]) /\ Tells(w, [w EXCEPT !.conn[c].req = "none"], {})
  BY <1>4, ReqMove, Zenon DEF Reqs
<1>6. Tells(Hub, w, {})
  <2>1. Spares(Hub, w, {})
    BY <1>3, Zenon DEF Spares, At
  <2> QED BY <1>0, <1>3, <2>1, QuietTells
<1>7. Tells(Hub, [w EXCEPT !.conn[c].req = "none"], {})
  BY <1>5, <1>6, TellsBoth, Zenon
<1> QED BY <1>0, <1>1, <1>5, <1>7, StepTo, Zenon

\* Steps of the media server on its own.
LEMMA ServerStep ==
  ASSUME SessInv, UNCHANGED <<obj, bySid, byUser, toks, interest, conn, sids>>, gone' \in SUBSET gone, Members'
  PROVE  SessInv'
<1>0. HubInv(Hub) /\ Hub \in HubRec /\ SidsOK
  BY Zenon DEF SessInv, HubInv
<1>1. /\ Hub'.obj = Hub.obj /\ Hub'.bySid = Hub.bySid /\ Hub'.byUser = Hub.byUser /\ Hub'.toks = Hub.toks
      /\ Hub'.interest = Hub.interest /\ Hub'.conn = Hub.conn /\ Hub'.gone = gone' /\ Hub.gone = gone
  BY DEF Hub
<1>a. Hub'.gone \in SUBSET Sid
  BY <1>0, <1>1, HubFields, Zenon
<1>2. Hub' \in HubRec
  BY <1>0, <1>1, <1>a, HubFields, Zenon DEF HubRec, Hub
<1>3. Quiet(Hub, Hub')
  BY <1>1, <1>2, Zenon DEF Quiet, SameObjs, SameConns, Leaves, At, Ob, Cn
<1>4. HubInv(Hub')
  BY <1>0, <1>3, QuietKeeps
<1>5. Asking(Hub')
  BY <1>1, Zenon DEF SessInv, Asking, Ob, Cn
<1> QED BY <1>0, <1>4, <1>5, Zenon DEF SessInv, SidsOK

\* SessionGone takes the members of the session out of the room; the others stay safe.
LEMMA GoneServedStep ==
  ASSUME SessInv, NEW s \in Sid, GoneServed(s)
  PROVE  SessInv'
<1>1. UNCHANGED <<obj, bySid, byUser, toks, interest, conn, sids>> /\ gone' \in SUBSET gone /\ late' = late
  BY Zenon DEF GoneServed
<1>2. \A t \in Sid : t # s /\ Safe(Hub, t) => Safe(Hub', t)
  <2>1. /\ Hub'.obj = Hub.obj /\ Hub'.bySid = Hub.bySid /\ Hub'.conn = Hub.conn
        /\ Hub'.gone = gone' /\ Hub.gone = gone
    BY <1>1, Zenon DEF Hub
  <2>2. gone' = gone \ {s}
    BY DEF GoneServed
  <2> QED BY <2>1, <2>2, Zenon DEF Safe, At, Ob, Cn
<1>3. /\ member \in [Users -> {0} \cup Sid]
      /\ \A u \in Users : member[u] = 0 \/ member[u] \in late \/ Safe(Hub, member[u])
  BY DEF SessInv, Members
<1>4. member' = [u \in Users |-> IF member[u] = s THEN 0 ELSE member[u]]
  BY DEF GoneServed
<1>5. member' \in [Users -> {0} \cup Sid]
  BY <1>3, <1>4
<1>6. ASSUME NEW u \in Users PROVE member'[u] = 0 \/ member'[u] \in late' \/ Safe(Hub', member'[u])
  <2>1. CASE member[u] = s
    BY <1>4, <2>1, Zenon
  <2>2. CASE member[u] # s
    <3>1. member'[u] = member[u] /\ member[u] \in {0} \cup Sid
      BY <1>3, <1>4, <2>2
    <3> QED BY <1>1, <1>2, <1>3, <2>2, <3>1, Zenon
  <2> QED BY <2>1, <2>2, Zenon
<1>7. Members'
  BY <1>5, <1>6, Zenon DEF Members
<1> QED BY <1>1, <1>7, ServerStep, Zenon

(* Loops over sets of sessions *)

\* The connections bound at the start.
Bound0 == {c \in DOMAIN Conns : Conns[c].start # "new"}
Hub0 == [c \in DOMAIN Conns |-> CHOOSE h \in Conns[c].hubs : TRUE]
\* The size of a set: the recursion of Cardinality written out, since the definition of
\* FiniteSets and the one that the library's theorems bring along have two names.
Size(S) == LET CS[T \in SUBSET S] == IF T = {} THEN 0 ELSE 1 + CS[T \ {CHOOSE x : x \in T}] IN CS[S]
\* It is the Cardinality of the model.
LEMMA SizeIs == ASSUME NEW S PROVE Cardinality(S) = Size(S)
BY Zenon DEF Cardinality, Size
\* What the steps below need of finite sets and of the recursion of VisitAll.  The lemma
\* SetFacts proves it at the end, where the library's theorems are in scope.
LoopsKeep ==
    \A k, P, S : /\ S \in SUBSET DOMAIN obj /\ Hub \in P
                 /\ \A o \in S, w \in P : Visit(k, w, o) \in P
                 => VisitAll(k, S) \in P
Counted ==
    /\ \E k \in Nat : Bound0 = 1 .. k /\ k <= Len(Conns)
    /\ \A S \in SUBSET Sid : Max({0} \cup S) \in {0} \cup S
    /\ \A S \in SUBSET CN : Size(S) \in Nat
Alone(S) == (\A x \in S, y \in S : x = y) => Size(S) <= 1

\* So is a whole loop over registered sessions.
LEMMA LoopQuiet ==
  ASSUME LoopsKeep, HubInv(Hub), NEW S \in SUBSET DOMAIN obj, \A o \in S : Registered(o), NEW k \in {"dispose", "shutdown", "dropped"}
  PROVE  Quiet(Hub, VisitAll(k, S)) /\ Tells(Hub, VisitAll(k, S), {})
<1> DEFINE P == {w \in HubRec : Quiet(Hub, w) /\ Tells(Hub, w, {})}
<1>1. Hub \in HubRec /\ Hub.obj = obj /\ Hub.bySid = bySid
  BY HubVars DEF HubInv
<1>2. Hub \in P
  BY <1>1, Zenon DEF Quiet, SameObjs, SameConns, Leaves, Tells
<1>3. ASSUME NEW o \in S, NEW w \in P PROVE Visit(k, w, o) \in P
  <2>1. w \in HubRec /\ Quiet(Hub, w) /\ Tells(Hub, w, {})
    OBVIOUS
  <2>a. HubInv(w)
    BY <2>1, QuietKeeps, Zenon
  <2>2. o \in DOMAIN Hub.obj /\ obj[o].hub \in Hubs /\ obj[o].sid \in Sid /\ bySid[obj[o].hub][obj[o].sid] = o /\ o # 0
    BY <1>1, SessFields DEF Registered, Ob
  <2>3. Settled(Hub, o)
    BY <1>1, <2>2, RegisteredSettled DEF At
  <2>4. o \in DOMAIN w.obj /\ Settled(w, o)
    BY <2>1, <2>2, <2>3, Zenon DEF Quiet, SameObjs, SameConns, Settled
  <2>b. At(w, Ob(w, o).hub, Ob(w, o).sid) \in {0, o}
    <3>1. Ob(w, o).hub = Ob(Hub, o).hub /\ Ob(w, o).sid = Ob(Hub, o).sid
      BY <2>1, <2>2, Zenon DEF Quiet, SameObjs
    <3>2. Ob(Hub, o).hub = obj[o].hub /\ Ob(Hub, o).sid = obj[o].sid
      BY <1>1, Zenon DEF Ob
    <3>3. At(Hub, obj[o].hub, obj[o].sid) = o
      BY <1>1, <2>2, Zenon DEF At
    <3>4. At(w, obj[o].hub, obj[o].sid) \in {0, At(Hub, obj[o].hub, obj[o].sid)}
      BY <2>1, <2>2, Zenon DEF Quiet, Leaves
    <3> QED BY <3>1, <3>2, <3>3, <3>4, Zenon
  <2>5. Quiet(w, Visit(k, w, o)) /\ Spares(w, Visit(k, w, o), {})
    BY <2>1, <2>4, <2>b, VisitQuiet
  <2> DEFINE v == Visit(k, w, o)
  <2> HIDE DEF v, P
  <2>6. Quiet(w, v) /\ v \in HubRec /\ Spares(w, v, {})
    BY <2>5 DEF Quiet, v
  <2>7. Quiet(Hub, v)
    BY <1>1, <2>1, <2>6, QuietTrans, Zenon
  <2>8. Tells(w, v, {})
    BY <2>a, <2>6, QuietTells, Zenon
  <2>9. Tells(Hub, v, {})
    BY <2>1, <2>8, TellsBoth, Zenon
  <2> QED BY <2>6, <2>7, <2>9 DEF P, v
<1> HIDE DEF P
<1>5. VisitAll(k, S) \in P
  BY <1>2, <1>3, Zenon DEF LoopsKeep
<1> QED BY <1>5, Zenon DEF P

\* sweep, shutdown_all and room_dropped.
LEMMA LoopStep ==
  ASSUME LoopsKeep, SessionBounds, SessInv, NEW h \in Hubs, Sweep(h) \/ Shutdown(h) \/ RoomDropped(h)
  PROVE  SessInv'
<1>0. HubInv(Hub) /\ Frame
  BY Zenon DEF SessInv, Sweep, Shutdown, RoomDropped, Frame
<1>1. \E S \in SUBSET DOMAIN obj, k \in {"dispose", "shutdown", "dropped"} :
         (\A o \in S : Registered(o)) /\ Becomes(VisitAll(k, S))
  <2>1. CASE Sweep(h)
    <3> DEFINE S == {o \in DOMAIN obj : obj[o].hub = h /\ Registered(o) /\ ~obj[o].bound /\ obj[o].dropped}
    <3>1. S \in SUBSET DOMAIN obj /\ (\A o \in S : Registered(o)) /\ Becomes(VisitAll("dispose", S))
      BY <2>1, Zenon DEF Sweep
    <3> QED BY <3>1
  <2>2. CASE Shutdown(h)
    <3> DEFINE S == {o \in DOMAIN obj : obj[o].hub = h /\ Registered(o)}
    <3>1. S \in SUBSET DOMAIN obj /\ (\A o \in S : Registered(o)) /\ Becomes(VisitAll("shutdown", S))
      BY <2>2, Zenon DEF Shutdown
    <3> QED BY <3>1, Zenon
  <2>3. CASE RoomDropped(h)
    <3> DEFINE S == {o \in DOMAIN obj : obj[o].hub = h /\ Registered(o) /\ obj[o].room}
    <3>1. S \in SUBSET DOMAIN obj /\ (\A o \in S : Registered(o)) /\ Becomes(VisitAll("dropped", S))
      BY <2>3 DEF RoomDropped
    <3> QED BY <3>1, Zenon
  <2> QED BY <2>1, <2>2, <2>3
<1>2. PICK S \in SUBSET DOMAIN obj, k \in {"dispose", "shutdown", "dropped"} :
         (\A o \in S : Registered(o)) /\ Becomes(VisitAll(k, S))
  BY <1>1
<1>3. Quiet(Hub, VisitAll(k, S)) /\ Tells(Hub, VisitAll(k, S), {})
  BY <1>0, <1>2, LoopQuiet, Zenon
<1>4. HubInv(VisitAll(k, S))
  BY <1>0, <1>3, QuietKeeps, Zenon
<1> QED BY <1>0, <1>2, <1>3, <1>4, StepTo

(* The initial state *)

\* The invariant at the start.
LEMMA SessInit == ASSUME Counted, SessionBounds, Init PROVE SessInv
<1> DEFINE n == Len(Conns)
           open == Bound0
<1>1. n \in Nat /\ CN = 1 .. n /\ Sid = CN
  BY Numbered
<1>2. PICK k \in Nat : open = 1 .. k /\ k <= n
  BY Zenon DEF Counted
<1>3. \A c \in CN : Hub0[c] \in Hubs
  BY ConnOf, Zenon DEF Hub0, CN
<1>a. open \in SUBSET CN
  BY Zenon DEF Bound0, CN
<1> DEFINE in == [c \in DOMAIN Conns |-> Conns[c].start = "joined"]
           of(u) == {c \in open : UserOf(c) = u}
<1>4. obj = [c \in open |-> NewSession(Hub0[c], UserOf(c), c, in[c], in[c], c)]
  BY Zenon DEF Init, Bound0, Hub0
<1>5. /\ bySid = [h \in Hubs |-> [s \in Sid |-> IF s \in open /\ Hub0[s] = h THEN s ELSE 0]]
      /\ byUser = [h \in Hubs |-> [u \in Users |-> Max({0} \cup {c \in of(u) : Hub0[c] = h})]]
      /\ toks = [h \in Hubs |-> {c \in open : Hub0[c] = h}]
      /\ interest = [h \in Hubs |-> Cardinality({c \in open : Hub0[c] = h /\ in[c]})]
  <2>1. bySid = [h \in Hubs |-> [s \in Sid |-> IF s \in open /\ Hub0[s] = h THEN s ELSE 0]]
    BY Zenon DEF Init, Bound0, Hub0
  <2>2. byUser = [h \in Hubs |-> [u \in Users |-> Max({0} \cup {c \in of(u) : Hub0[c] = h})]]
    BY Zenon DEF Init, Bound0, Hub0
  <2>3. toks = [h \in Hubs |-> {c \in open : Hub0[c] = h}]
    BY Zenon DEF Init, Bound0, Hub0
  <2>4. interest = [h \in Hubs |-> Cardinality({c \in open : Hub0[c] = h /\ in[c]})]
    BY Zenon DEF Init, Bound0, Hub0
  <2> HIDE DEF open, in, of
  <2> QED BY <2>1, <2>2, <2>3, <2>4, Zenon
<1>6. /\ conn = [c \in CN |-> IF c \in open THEN [NewConn(Hub0[c]) EXCEPT !.pc = "open", !.obj = c] ELSE NewConn(Hub0[c])]
      /\ gone = {} /\ sids = [u \in Users |-> Max({0} \cup of(u))]
  BY Zenon DEF Init, Bound0, Hub0, CN
<1>7. \A c \in open : /\ obj[c] \in SessRec /\ obj[c].hub = Hub0[c] /\ obj[c].sid = c /\ obj[c].conn = c
                       /\ (Conns[c].start = "joined" => obj[c].touched)
  <2> TAKE c \in open
  <2>0. c \in CN /\ c \in Sid /\ c # 0
    BY <1>1, <1>2, <1>a
  <2>a. UserOf(c) \in Users
    BY <2>0, ConnOf
  <2>b. in[c] = (Conns[c].start = "joined")
    BY <2>0 DEF CN
  <2>1. c \in CN /\ UserOf(c) \in Users /\ in[c] \in BOOLEAN /\ c \in Sid /\ c # 0
    BY <2>0, <2>a, <2>b, Zenon
  <2> HIDE DEF in
  <2>2. /\ obj[c] \in SessRec /\ obj[c].hub = Hub0[c] /\ obj[c].sid = c /\ obj[c].conn = c /\ obj[c].touched = in[c]
    BY <1>3, <1>4, <2>1, Zenon DEF NewSession, SessRec
  <2>3. Conns[c].start = "joined" => obj[c].touched
    BY <2>b, <2>2, Zenon
  <2> QED BY <2>2, <2>3
<1>8. obj \in Seq(SessRec) /\ DOMAIN obj = open
  <2> HIDE DEF in, open
  <2>1. DOMAIN obj = open
    BY <1>4
  <2>2. obj \in [open -> SessRec]
    BY <1>4, <1>7
  <2> QED BY <1>2, <2>1, <2>2
<1>9. bySid \in [Hubs -> [Sid -> Nat]] /\ \A h \in Hubs, s \in Sid : bySid[h][s] = IF s \in open /\ Hub0[s] = h THEN s ELSE 0
  BY <1>1, <1>5
<1>10. byUser \in [Hubs -> [Users -> {0} \cup Sid]]
  <2>1. \A h \in Hubs, u \in Users : Max({0} \cup {c \in of(u) : Hub0[c] = h}) \in {0} \cup Sid
    <3> TAKE h \in Hubs, u \in Users
    <3> DEFINE S == {c \in of(u) : Hub0[c] = h}
    <3>1. S \in SUBSET Sid
      BY <1>1, <1>a, Zenon
    <3> HIDE DEF S
    <3>2. Max({0} \cup S) \in {0} \cup Sid
      BY <3>1, Zenon DEF Counted
    <3> QED BY <3>2 DEF S
  <2> QED BY <1>5, <2>1, Zenon
<1>11. toks \in [Hubs -> SUBSET Sid]
  BY <1>1, <1>5, <1>a, Zenon
<1>12. interest \in [Hubs -> Nat]
  <2>1. \A h \in Hubs : Cardinality({c \in open : Hub0[c] = h /\ in[c]}) \in Nat
    <3> TAKE h \in Hubs
    <3> DEFINE S == {c \in open : Hub0[c] = h /\ in[c]}
    <3>1. S \in SUBSET CN
      BY <1>a
    <3> HIDE DEF S
    <3>2. Cardinality(S) \in Nat
      BY <3>1, SizeIs, Zenon DEF Counted
    <3> QED BY <3>2, Zenon DEF S
  <2> QED BY <1>5, <2>1, Zenon
<1>13. \A c \in CN : /\ conn[c] \in ConnRec /\ conn[c].hub = Hub0[c] /\ conn[c].req = "none"
                     /\ conn[c].pc = (IF c \in open THEN "open" ELSE "new")
                     /\ conn[c].obj = (IF c \in open THEN c ELSE 0)
  <2> TAKE c \in CN
  <2>1. c \in Nat
    BY <1>1
  <2> QED BY <1>3, <1>6, <2>1, Zenon DEF NewConn, ConnRec, Pcs, Early, Reqs, Codes, Data
<1>14. conn \in [CN -> ConnRec]
  BY <1>6, <1>13, Zenon
<1> HIDE DEF open, in, of
<1>15. Hub \in HubRec
  <2>1. gone \in SUBSET Sid
    BY <1>6, Zenon
  <2> QED BY <1>8, <1>9, <1>10, <1>11, <1>12, <1>14, <2>1 DEF HubRec, Hub
<1>16. Hub.obj = obj /\ Hub.bySid = bySid /\ Hub.conn = conn
  BY HubVars, Zenon
<1>17. Known(Hub)
  BY <1>7, <1>8, <1>9, <1>16, <1>1, <1>2 DEF Known, At, Ob
<1>18. Single(Hub)
  BY <1>9, <1>16 DEF Single, At
<1>19. InHand(Hub)
  BY <1>13, <1>16, Zenon DEF InHand, Carries, Cn
<1>20. Drawn(Hub)
  BY <1>7, <1>8, <1>13, <1>16, <1>a, Zenon DEF Drawn, Early, Ob, Cn
<1>21. ConnOK(Hub)
  <2>1. \A c \in CN : RecOK(conn[c])
    BY <1>1, <1>2, <1>13 DEF RecOK, Early
  <2>2. \A c \in CN : conn[c].obj # 0 => conn[c].obj = c /\ c \in open
    BY <1>13, Zenon
  <2>3. \A c \in CN : conn[c].obj # 0 => conn[c].obj \in DOMAIN obj /\ obj[conn[c].obj].hub = conn[c].hub
    BY <1>7, <1>8, <1>13, <2>2
  <2>4. \A c \in CN : conn[c].pc # "register"
    BY <1>13
  <2> QED BY <1>16, <2>1, <2>3, <2>4, Zenon DEF ConnOK, Ob, Cn
<1>22. ObjOK(Hub)
  BY <1>7, <1>8, <1>13, <1>16, <1>a DEF ObjOK, open, Ob, Cn
<1>23. Reclaimable(Hub)
  BY <1>1, <1>2, <1>7, <1>8, <1>13, <1>16, <1>a DEF Reclaimable, Held, open, Ob, Cn
<1>24. SidsOK
  <2>1. \A u \in Users : Max({0} \cup of(u)) \in {0} \cup Sid
    <3> TAKE u \in Users
    <3>1. of(u) \in SUBSET Sid
      BY <1>1, <1>a, Zenon DEF of, open
    <3> QED BY <3>1 DEF Counted
  <2> QED BY <1>6, <2>1, Zenon DEF SidsOK
<1>25. Asking(Hub)
  BY <1>13, <1>16, Zenon DEF Asking, Cn
<1>26. Members
  <2> DEFINE J(u) == {c \in of(u) : Conns[c].start = "joined"}
  <2>1. member = [u \in Users |-> Max({0} \cup J(u))]
    <3>1. \A u \in Users : J(u) = {c \in of(u) : in[c]}
      BY <1>a, Zenon DEF of, open, in, CN
    <3>2. member = [u \in Users |-> Max({0} \cup {c \in of(u) : in[c]})]
      BY Zenon DEF Init, Bound0, Hub0, of, open, in
    <3> HIDE DEF J
    <3> QED BY <3>1, <3>2, Zenon
  <2>2. \A u \in Users : \A c \in J(u) : c \in open /\ c \in Sid /\ Conns[c].start = "joined"
    BY <1>1, <1>a, Zenon DEF of, open
  <2>3. \A u \in Users : member[u] \in {0} \cup J(u)
    <3> TAKE u \in Users
    <3>1. J(u) \in SUBSET Sid
      BY <2>2, Zenon
    <3> HIDE DEF J
    <3>2. Max({0} \cup J(u)) \in {0} \cup J(u)
      BY <3>1 DEF Counted
    <3> QED BY <2>1, <3>2, Zenon
  <2>4. member \in [Users -> {0} \cup Sid]
    <3> HIDE DEF J
    <3>1. \A u \in Users : Max({0} \cup J(u)) \in {0} \cup Sid
      BY <2>1, <2>2, <2>3, Zenon
    <3> QED BY <2>1, <3>1, Zenon
  <2>5. \A c \in open : c \in Sid /\ Conns[c].start = "joined" => Safe(Hub, c)
    <3> TAKE c \in open
    <3> HAVE c \in Sid /\ Conns[c].start = "joined"
    <3>1. Hub0[c] \in Hubs /\ bySid[Hub0[c]][c] = c /\ c # 0 /\ obj[c].touched
      BY <1>1, <1>2, <1>3, <1>7, <1>9
    <3> QED BY <1>16, <3>1, Zenon DEF Safe, At, Ob
  <2> HIDE DEF J
  <2>6. \A u \in Users : member[u] = 0 \/ Safe(Hub, member[u])
    BY <2>2, <2>3, <2>5
  <2> QED BY <2>4, <2>6, Zenon DEF Members
<1> QED BY <1>15, <1>17, <1>18, <1>19, <1>20, <1>21, <1>22, <1>23, <1>24, <1>25, <1>26, Zenon DEF SessInv, HubInv

\* Every step keeps the invariant.
LEMMA SessStep == ASSUME LoopsKeep, SessionBounds, SessInv, [Next]_vars PROVE SessInv'
<1>1. ASSUME NEW c \in CN, conn[c].pc = "new" /\ \E h \in Conns[c].hubs, resume \in BOOLEAN : Bind(c, h, resume) PROVE SessInv'
  BY <1>1, BindStep, Zenon
<1>2. ASSUME NEW c \in CN, Find(c) \/ HandOver(c) \/ Adopt(c) \/ Enter(c) \/ AttachAdopted(c) PROVE SessInv'
  BY <1>2, FindStep, HandOverStep, AdoptStep, EnterStep, AttachStep
<1>3. ASSUME NEW c \in CN, Lookup(c) \/ EvictThere(c) \/ Declare(c) \/ RegisterNew(c) PROVE SessInv'
  BY <1>3, LookupStep, EvictThereStep, DeclareStep, RegisterStep
<1>4. ASSUME NEW c \in CN, SocketEnds(c) \/ SocketDropped(c) PROVE SessInv'
  BY <1>4, SocketEndsStep, SocketDroppedStep, Zenon
<1>5. ASSUME NEW c \in CN, NEW op \in {"join", "leave", "resume"}, Ask(c, op) PROVE SessInv'
  BY <1>5, AskStep, Zenon
<1>6. ASSUME NEW c \in CN, Serve(c) \/ CallFails(c) \/ Answered(c) PROVE SessInv'
  BY <1>6, ServeStep, CallFailsStep, AnsweredStep, Zenon
<1>7. ASSUME NEW h \in Hubs, Sweep(h) \/ RoomDropped(h) \/ Shutdown(h) PROVE SessInv'
  BY <1>7, LoopStep, Zenon
<1>8. ASSUME NEW h \in Hubs, NEW u \in Users, Cut(h, u) PROVE SessInv'
  BY <1>8, CutStep, Zenon
<1>9. ASSUME NEW s \in Sid, GoneServed(s) PROVE SessInv'
  BY <1>9, GoneServedStep
<1>10. CASE RoomDestroyed
  <2>1. UNCHANGED <<obj, bySid, byUser, toks, interest, conn, sids>> /\ gone' \in SUBSET gone
    BY <1>10 DEF RoomDestroyed
  <2>2. member' = [u \in Users |-> 0]
    BY <1>10 DEF RoomDestroyed
  <2>3. Members'
    BY <2>2, Zenon DEF Members
  <2> QED BY <2>1, <2>3, ServerStep, Zenon
<1>11. CASE UNCHANGED vars
  <2>1. UNCHANGED <<obj, bySid, byUser, toks, interest, conn, sids>> /\ gone' \in SUBSET gone
    BY <1>11, Zenon DEF vars
  <2>2. Hub' = Hub /\ member' = member /\ late' = late
    BY <1>11, Zenon DEF vars, Hub
  <2>3. Members'
    BY <2>2, Zenon DEF SessInv, Members
  <2> QED BY <2>1, <2>3, ServerStep, Zenon
<1> DEFINE OfConn(c) == \/ conn[c].pc = "new" /\ \E h \in Conns[c].hubs, resume \in BOOLEAN : Bind(c, h, resume)
                        \/ Find(c) \/ HandOver(c) \/ Adopt(c) \/ Enter(c) \/ AttachAdopted(c)
                        \/ Lookup(c) \/ EvictThere(c) \/ Declare(c) \/ RegisterNew(c)
                        \/ SocketEnds(c) \/ SocketDropped(c)
                        \/ spent < MaxCmd /\ \E op \in {"join", "leave", "resume"} : Ask(c, op)
                        \/ Serve(c) \/ CallFails(c) \/ Answered(c)
<1>12. ASSUME NEW c \in CN, OfConn(c) PROVE SessInv'
  BY <1>1, <1>2, <1>3, <1>4, <1>5, <1>6, <1>12, Zenon
<1>13. ASSUME Next
       PROVE  \/ \E c \in CN : OfConn(c)
              \/ \E h \in Hubs : Sweep(h) \/ RoomDropped(h) \/ Shutdown(h)
              \/ \E h \in Hubs, u \in Users : Cut(h, u)
              \/ \E s \in Sid : GoneServed(s)
              \/ RoomDestroyed
  BY <1>13, Zenon DEF Next, CN
<1> HIDE DEF OfConn
<1> QED BY <1>7, <1>8, <1>9, <1>10, <1>11, <1>12, <1>13, Zenon

(* What the invariant says *)

\* What the invariant says of the properties.
LEMMA SessImplies == ASSUME \A S : Alone(S), SessionBounds, SessInv PROVE OneHome /\ NoOrphan /\ NoGhost
<1>0. HubInv(Hub) /\ Hub \in HubRec /\ Hub.bySid = bySid /\ Hub.obj = obj /\ Hub.conn = conn
  BY HubVars DEF SessInv, HubInv
<1>1. NoOrphan
  BY <1>0, Zenon DEF HubInv, Reclaimable, Held, NoOrphan, Registered, CN, At, Ob, Cn
<1>2. OneHome
  <2>1. ASSUME NEW s \in Sid PROVE Cardinality({h \in Hubs : bySid[h][s] # 0}) <= 1
    <3> DEFINE S == {h \in Hubs : bySid[h][s] # 0}
    <3>1. \A h \in S, g \in S : h = g
      BY <1>0, Zenon DEF HubInv, Single, At
    <3> HIDE DEF S
    <3>2. Cardinality(S) <= 1
      BY <3>1, SizeIs, Zenon DEF Alone
    <3> QED BY <3>2, Zenon DEF S
  <2> QED BY <2>1, Zenon DEF OneHome
<1>3. NoGhost
  <2> SUFFICES ASSUME NEW u \in Users, member[u] # 0, member[u] \notin late
               PROVE  \/ Anywhere(member[u]) \/ member[u] \in gone
                      \/ \E c \in DOMAIN Conns : conn[c].pc \in {"adopt", "enter"} /\ conn[c].data.sid = member[u]
    BY DEF NoGhost
  <2>1. Safe(Hub, member[u]) /\ Hub.gone = gone
    BY HubVars DEF SessInv, Members
  <2> QED BY <1>0, <2>1, Zenon DEF Safe, Anywhere, CN, At, Cn
<1> QED BY <1>1, <1>2, <1>3, Zenon

(* Finite sets, and the recursion of VisitAll *)

LOCAL INSTANCE FiniteSetTheorems
LOCAL INSTANCE NaturalsInduction
LOCAL INSTANCE WellFoundedInduction

\* The element a fold takes next is one of the set.
LEMMA PickIn == ASSUME NEW s, s # {} PROVE Pick(s) \in s
BY DEF Pick

\* A non-empty set of naturals has a least element: induction as a minimal
\* counterexample.
LEMMA LeastNat ==
  ASSUME NEW S \in SUBSET Nat, S # {}
  PROVE  \E x \in S : \A y \in S : x <= y
<1>1. PICK x \in S : \A y \in S : ~(<<y, x>> \in OpToRel(<, Nat))
  BY NatLessThanWellFounded, WFMin, Zenon
<1>2. ASSUME NEW y \in S PROVE x <= y
  <2>1. <<y, x>> \in Nat \X Nat
    BY Zenon
  <2>2. ~(y < x)
    BY <1>1, <2>1 DEF OpToRel
  <2> QED BY <2>2
<1> QED BY <1>2, Zenon

\* The set left after taking an element is smaller.
LEMMA Less ==
  ASSUME NEW S, IsFiniteSet(S), S # {}
  PROVE  IsFiniteSet(S \ {Pick(S)}) /\ Cardinality(S) \in Nat /\ Cardinality(S \ {Pick(S)}) \in Nat
         /\ Cardinality(S \ {Pick(S)}) < Cardinality(S)
<1>1. Pick(S) \in S BY PickIn, Zenon
<1>2. IsFiniteSet(S \ {Pick(S)}) /\ Cardinality(S \ {Pick(S)}) = Cardinality(S) - 1 BY <1>1, FS_RemoveElement, Zenon
<1> QED BY <1>2, FS_CardinalityType

\* g and h agree on the finite sets in the domain of both.
Agree(S, g, T, h) == \A t \in SUBSET S : t \in SUBSET T /\ IsFiniteSet(t) => g[t] = h[t]
\* Two recursions agree on the finite sets both are defined for.
LEMMA IterUnique ==
  ASSUME NEW k, NEW b, NEW S, NEW g, NEW T, NEW h, IsIter(k, b, S, g), IsIter(k, b, T, h)
  PROVE  Agree(S, g, T, h)
<1> SUFFICES ASSUME NEW t \in SUBSET S, t \in SUBSET T, IsFiniteSet(t) PROVE g[t] = h[t]
  BY Zenon DEF Agree
<1> DEFINE Bad == {n \in Nat : \E u \in SUBSET t : IsFiniteSet(u) /\ Cardinality(u) = n /\ g[u] # h[u]}
<1>1. SUFFICES ASSUME Bad # {} PROVE FALSE
  BY FS_CardinalityType, Zenon
<1>2. PICK n \in Bad : \A m \in Bad : n <= m
  BY <1>1, LeastNat, Zenon
<1>3. PICK u \in SUBSET t : IsFiniteSet(u) /\ Cardinality(u) = n /\ g[u] # h[u]
  BY <1>2, Zenon
<1>4. u \in SUBSET S /\ u \in SUBSET T
  BY Zenon
<1>5. g[u] = IF u = {} THEN b ELSE Visit(k, g[u \ {Pick(u)}], Pick(u))
  BY <1>4, Zenon DEF IsIter
<1>6. h[u] = IF u = {} THEN b ELSE Visit(k, h[u \ {Pick(u)}], Pick(u))
  BY <1>4, Zenon DEF IsIter
<1>7. u # {} /\ g[u \ {Pick(u)}] # h[u \ {Pick(u)}]
  BY <1>3, <1>5, <1>6
<1>8. Cardinality(u \ {Pick(u)}) \in Bad /\ Cardinality(u \ {Pick(u)}) < n
  BY <1>7, <1>3, Less, Zenon
<1>9. n \in Nat /\ Cardinality(u \ {Pick(u)}) \in Nat /\ n <= Cardinality(u \ {Pick(u)})
  BY <1>8, <1>2, Zenon
<1> QED BY <1>8, <1>9

\* The recursion exists on finite sets, so the one chosen satisfies it.
LEMMA IterExists ==
  ASSUME NEW k, NEW b, NEW S, IsFiniteSet(S)
  PROVE  IsIter(k, b, S, Iter(k, b, S))
<1> DEFINE Bad == {n \in Nat : \E u \in SUBSET S : IsFiniteSet(u) /\ Cardinality(u) = n /\ ~\E g : IsIter(k, b, u, g)}
<1>1. SUFFICES ASSUME Bad # {} PROVE FALSE
  <2>1. SUFFICES \E g : IsIter(k, b, S, g)
    BY Zenon DEF Iter
  <2> QED BY FS_CardinalityType, Zenon
<1>2. PICK n \in Bad : \A m \in Bad : n <= m
  BY <1>1, LeastNat, Zenon
<1>3. PICK u \in SUBSET S : IsFiniteSet(u) /\ Cardinality(u) = n /\ ~\E g : IsIter(k, b, u, g)
  BY <1>2, Zenon
<1>4. ASSUME NEW s \in SUBSET u, s # u PROVE IsFiniteSet(s) /\ IsIter(k, b, s, Iter(k, b, s))
  <2>1. IsFiniteSet(s) /\ Cardinality(s) \in Nat /\ Cardinality(s) < Cardinality(u)
    BY <1>3, <1>4, FS_Subset, FS_CardinalityType
  <2>2. Cardinality(s) \notin Bad
    BY <2>1, <1>2, <1>3
  <2>3. \E g : IsIter(k, b, s, g)
    BY <2>1, <2>2, <1>4
  <2> QED BY <2>1, <2>3, Zenon DEF Iter
<1> DEFINE v(s) == IF s = {} THEN b ELSE Visit(k, Iter(k, b, s \ {Pick(s)})[s \ {Pick(s)}], Pick(s))
           g == [s \in SUBSET u |-> v(s)]
<1>5. ASSUME NEW s \in SUBSET u, s # {} PROVE g[s \ {Pick(s)}] = Iter(k, b, s \ {Pick(s)})[s \ {Pick(s)}]
  <2> DEFINE w == s \ {Pick(s)}
  <2>1. Pick(s) \in s
    BY <1>5, PickIn, Zenon
  <2>2. w \in SUBSET u /\ w # u /\ IsFiniteSet(w) /\ IsIter(k, b, w, Iter(k, b, w))
    BY <2>1, <1>4
  <2>3. Iter(k, b, w)[w] = IF w = {} THEN b ELSE Visit(k, Iter(k, b, w)[w \ {Pick(w)}], Pick(w))
    BY <2>2, Zenon DEF IsIter
  <2>4. CASE w = {}
    BY <2>4, <2>3, <2>2
  <2>5. CASE w # {}
    <3> DEFINE x == w \ {Pick(w)}
    <3>1. Pick(w) \in w
      BY <2>5, PickIn, Zenon
    <3>2. x \in SUBSET u /\ x # u /\ IsFiniteSet(x) /\ IsIter(k, b, x, Iter(k, b, x)) /\ x \subseteq w
      BY <3>1, <2>2, <1>4, Zenon
    <3> HIDE DEF x
    <3>3. Iter(k, b, w)[x] = Iter(k, b, x)[x]
      <4> HIDE DEF w
      <4>1. x \in SUBSET x /\ x \in SUBSET w /\ IsFiniteSet(x)
        BY <3>2, Zenon
      <4>2. IsIter(k, b, w, Iter(k, b, w)) /\ IsIter(k, b, x, Iter(k, b, x))
        BY <2>2, <3>2, Zenon
      <4>3. Agree(w, Iter(k, b, w), x, Iter(k, b, x))
        BY <4>2, IterUnique, Zenon
      <4> QED BY <4>1, <4>3, Zenon DEF Agree
    <3> QED BY <3>3, <2>5, <2>3, <2>2, Zenon DEF x
  <2> QED BY <2>4, <2>5
<1>6. IsIter(k, b, u, g)
  BY <1>5, Zenon DEF IsIter
<1> QED BY <1>6, <1>3

\* What one visit keeps, the loop keeps: P is the set of the states that have it.
LEMMA LoopKeeps ==
  ASSUME NEW k, NEW S, IsFiniteSet(S), NEW P, Hub \in P, \A o \in S, w \in P : Visit(k, w, o) \in P
  PROVE  VisitAll(k, S) \in P
<1> DEFINE g == Iter(k, Hub, S)
           Bad == {n \in Nat : \E u \in SUBSET S : IsFiniteSet(u) /\ Cardinality(u) = n /\ g[u] \notin P}
<1>0. IsIter(k, Hub, S, g)
  BY IterExists, Zenon
<1> HIDE DEF g
<1>1. SUFFICES ASSUME Bad # {} PROVE FALSE
  <2>1. VisitAll(k, S) = g[S]
    BY VisitIsIter DEF g
  <2> QED BY <2>1, FS_CardinalityType
<1>2. PICK n \in Bad : \A m \in Bad : n <= m
  BY <1>1, LeastNat, Zenon
<1>3. PICK u \in SUBSET S : IsFiniteSet(u) /\ Cardinality(u) = n /\ g[u] \notin P
  BY <1>2, Zenon
<1>4. g[u] = IF u = {} THEN Hub ELSE Visit(k, g[u \ {Pick(u)}], Pick(u))
  BY <1>0, Zenon DEF IsIter
<1>5. u # {}
  BY <1>3, <1>4, Zenon
<1>6. Pick(u) \in S
  BY <1>5, PickIn
<1>7. g[u \ {Pick(u)}] \notin P
  BY <1>3, <1>4, <1>5, <1>6, Zenon
<1>8. Cardinality(u \ {Pick(u)}) \in Bad /\ Cardinality(u \ {Pick(u)}) < n
  BY <1>3, <1>5, <1>7, Less, Zenon
<1>9. n \in Nat /\ Cardinality(u \ {Pick(u)}) \in Nat /\ n <= Cardinality(u \ {Pick(u)})
  BY <1>8, <1>2, Zenon
<1> QED BY <1>8, <1>9

\* A bounded set of naturals has a maximum.
LEMMA MaxNat ==
  ASSUME NEW n \in Nat, NEW S \in SUBSET (0 .. n), S # {}
  PROVE  Max(S) \in S /\ \A y \in S : y <= Max(S)
<1> DEFINE T == {n - x : x \in S}
<1>1. T \in SUBSET Nat /\ T # {}
  <2>1. PICK x \in S : TRUE
    BY Zenon
  <2>2. n - x \in T
    OBVIOUS
  <2> QED BY <2>2
<1>2. PICK t \in T : \A y \in T : t <= y
  BY <1>1, LeastNat, Zenon
<1>3. PICK x \in S : t = n - x
  BY <1>2, Zenon
<1>4. \A y \in S : x >= y
  <2>1. ASSUME NEW y \in S PROVE x >= y
    <3>1. n - y \in T
      BY Zenon
    <3>2. n - x <= n - y
      BY <1>2, <1>3, <3>1, Zenon
    <3> QED BY <3>2
  <2> QED BY <2>1, Zenon
<1>5. \E z \in S : \A y \in S : z >= y
  BY <1>4, Zenon
<1>6. Max(S) \in S /\ \A y \in S : Max(S) >= y
  BY <1>5, Zenon DEF Max
<1> QED BY <1>6

\* The loops run over finitely many sessions.
LEMMA FiniteLoop ==
  ASSUME NEW w \in HubRec, NEW S \in SUBSET DOMAIN w.obj
  PROVE  IsFiniteSet(S)
<1>1. w.obj \in Seq(SessRec)
  BY HubFields, Zenon
<1>2. PICK n \in Nat : DOMAIN w.obj = 1 .. n
  BY <1>1
<1>3. IsFiniteSet(1 .. n)
  BY FS_Interval
<1> QED BY <1>2, <1>3, FS_Subset

\* There are finitely many connections.
LEMMA FiniteConns == ASSUME SessionBounds PROVE IsFiniteSet(CN)
<1>1. PICK n \in Nat : CN = 1 .. n
  BY Numbered, Zenon
<1>2. IsFiniteSet(1 .. n)
  BY FS_Interval
<1> QED BY <1>1, <1>2, Zenon

\* They come first.
LEMMA BoundFirst ==
  ASSUME SessionBounds
  PROVE  \E k \in Nat : Bound0 = 1 .. k /\ k <= Len(Conns)
<1>1. CN = 1 .. Len(Conns) /\ Len(Conns) \in Nat
  BY Numbered, Zenon
<1> DEFINE S == {n \in Nat : n >= 1 /\ n \notin Bound0}
<1>2. Len(Conns) + 1 \in S
  BY <1>1 DEF Bound0, CN
<1>3. PICK m \in S : \A y \in S : m <= y
  BY <1>2, LeastNat, Zenon
<1>4. m \in Nat /\ m >= 1 /\ m \notin Bound0 /\ m <= Len(Conns) + 1 /\ \A y \in Nat : y >= 1 /\ y < m => y \in Bound0
  BY <1>1, <1>2, <1>3
<1>5. \A d \in Bound0 : d \in Nat /\ d >= 1 /\ d < m
  <2> TAKE d \in Bound0
  <2>1. d \in Nat /\ d >= 1 /\ d <= Len(Conns)
    BY <1>1 DEF Bound0, CN
  <2>2. \A e \in 1 .. d : e \in Bound0
    <3>1. \A e \in 1 .. d : e \in DOMAIN Conns
      BY <1>1, <2>1 DEF CN
    <3>2. \A e \in 1 .. d : Conns[e].start # "new"
      BY Zenon DEF SessionBounds, Bound0
    <3> QED BY <3>1, <3>2 DEF Bound0
  <2> QED BY <1>4, <2>1, <2>2
<1>6. PICK k \in Nat : k = m - 1 /\ k <= Len(Conns)
  BY <1>1, <1>4
<1>7. \A d : d \in Bound0 <=> d \in 1 .. k
  BY <1>4, <1>5, <1>6
<1>8. Bound0 = 1 .. k
  BY <1>7, Zenon
<1> QED BY <1>6, <1>8, Zenon

\* The greatest of some sids, or 0.
LEMMA MaxSid ==
  ASSUME SessionBounds, NEW S \in SUBSET Sid
  PROVE  Max({0} \cup S) \in {0} \cup S
<1>1. PICK n \in Nat : Sid = 1 .. n
  BY Numbered
<1> DEFINE T == {0} \cup S
<1>2. T \in SUBSET (0 .. n) /\ T # {}
  BY <1>1
<1> HIDE DEF T
<1>3. Max(T) \in T
  BY <1>2, MaxNat, Zenon
<1> QED BY <1>3, Zenon DEF T

\* A set whose elements are all the same has at most one.
LEMMA AtMostOne ==
  ASSUME NEW S
  PROVE  Alone(S)
<1> SUFFICES ASSUME \A x \in S, y \in S : x = y PROVE Size(S) <= 1
  BY Zenon DEF Alone
<1>0. Cardinality(S) = Size(S)
  BY Zenon DEF Cardinality, Size
<1>1. CASE S = {}
  BY <1>0, <1>1, FS_EmptySet
<1>2. CASE S # {}
  <2>1. PICK x \in S : TRUE
    BY <1>2, Zenon
  <2>2. S = {x}
    BY <2>1
  <2> QED BY <1>0, <2>2, FS_Singleton
<1> QED BY <1>1, <1>2

\* The size of a part of a finite set is a number.
LEMMA CountNat == ASSUME NEW T, IsFiniteSet(T), NEW S \in SUBSET T PROVE Size(S) \in Nat
<1>1. Cardinality(S) = Size(S)
  BY Zenon DEF Cardinality, Size
<1>2. Cardinality(S) \in Nat
  BY FS_Subset, FS_CardinalityType
<1> QED BY <1>1, <1>2, Zenon

\* So the invariant has what its proof needs.
LEMMA SetFacts == ASSUME SessionBounds PROVE Counted /\ (\A S : Alone(S)) /\ (SessInv => LoopsKeep)
<1>1. Counted
  <2>1. \A S \in SUBSET Sid : Max({0} \cup S) \in {0} \cup S
    BY MaxSid, Zenon
  <2>2. \A S \in SUBSET CN : Size(S) \in Nat
    BY FiniteConns, CountNat, Zenon
  <2>3. \E k \in Nat : Bound0 = 1 .. k /\ k <= Len(Conns)
    BY BoundFirst, Zenon
  <2> QED BY <2>1, <2>2, <2>3, Zenon DEF Counted
<1>2. ASSUME NEW S PROVE Alone(S)
  BY AtMostOne, Zenon
<1>3. ASSUME SessInv PROVE LoopsKeep
  <2>1. Hub \in HubRec /\ Hub.obj = obj
    BY <1>3, HubVars, Zenon DEF SessInv, HubInv
  <2>2. \A S \in SUBSET DOMAIN obj : IsFiniteSet(S)
    BY <2>1, FiniteLoop, Zenon
  <2>3. ASSUME NEW k, NEW P, NEW S, S \in SUBSET DOMAIN obj, Hub \in P, \A o \in S, w \in P : Visit(k, w, o) \in P
        PROVE VisitAll(k, S) \in P
    BY <2>2, <2>3, LoopKeeps, Zenon
  <2> QED BY <2>3, Zenon DEF LoopsKeep
<1> QED BY <1>1, <1>2, <1>3, Zenon

(* The theorems *)

\* A session id is registered on one hub at a time, and every registered session has a
\* connection that serves it or is about to, or is marked for the sweep: for any hubs,
\* users and connections, however binds, hand-overs, evictions and sweeps overlap.
THEOREM SessionsHaveOneHome == ASSUME SessionBounds PROVE Spec => [](OneHome /\ NoOrphan)
<1>1. Init => SessInv
  BY SetFacts, SessInit, Zenon
<1>2. SessInv /\ [Next]_vars => SessInv'
  BY SetFacts, SessStep, Zenon
<1>3. SessInv => OneHome /\ NoOrphan
  BY SetFacts, SessImplies, Zenon
<1> QED BY <1>1, <1>2, <1>3, PTL DEF Spec

\* The media server keeps no member whose session is on no hub and of whose end nobody
\* will tell it, but for the three causes that NoGhost names: dispose reports every
\* session that called the server, and a hand-over carries the mark along.
THEOREM SessionsLeaveNoGhost == ASSUME SessionBounds PROVE Spec => []NoGhost
<1>1. Init => SessInv
  BY SetFacts, SessInit, Zenon
<1>2. SessInv /\ [Next]_vars => SessInv'
  BY SetFacts, SessStep, Zenon
<1>3. SessInv => NoGhost
  BY SetFacts, SessImplies, Zenon
<1> QED BY <1>1, <1>2, <1>3, PTL DEF Spec
====
