----------------------------- MODULE LinkProofs -----------------------------
(***************************************************************************)
(* The indexes of the receive thread, for every number of transports,      *)
(* addresses and control threads and every length of the command queue.    *)
(* The invariant says of each transport what the index owes it once the    *)
(* commands in the queue are done.                                         *)
(***************************************************************************)
EXTENDS Link, FiniteSetTheorems, TLAPS

\* The ufrags made so far, the commands, and the places of the control threads.
Made == DOMAIN owner
Ops == {"register", "drop", "unregister"}
CmdRec == [op : Ops, tr : Trs, ufrag : Nat]
CtlRec == [pc : {"idle", "drop", "register"}, tr : Trs \cup {0}, old : Nat, new : Nat]

\* The commands that put ufrag u in the index and that take it out.
IsAdd(c, u) == c.op = "register" /\ c.ufrag = u
IsKill(c, u, t) == (c.op = "drop" /\ c.ufrag = u) \/ (c.op = "unregister" /\ c.tr = t)

\* Whether u will be in the index once every command in the queue has been done.
Due(q, ix, t, u) ==
    \/ u \in ix /\ \A i \in 1 .. Len(q) : ~IsKill(q[i], u, t)
    \/ \E i \in 1 .. Len(q) : IsAdd(q[i], u) /\ \A j \in 1 .. Len(q) : j > i => ~IsKill(q[j], u, t)

\* One more command at the end of the queue.
LEMMA DuePush ==
  ASSUME NEW q \in Seq(CmdRec), NEW c \in CmdRec, NEW ix, NEW t, NEW u
  PROVE  Due(Append(q, c), ix, t, u) <=> IsAdd(c, u) \/ (Due(q, ix, t, u) /\ ~IsKill(c, u, t))
<1> DEFINE a == Append(q, c)
           n == Len(q) + 1
<1>1. n \in Nat /\ Len(q) \in Nat /\ Len(a) = n /\ a[n] = c /\ \A i \in 1 .. Len(q) : a[i] = q[i]
  OBVIOUS
<1>2. 1 .. n = (1 .. Len(q)) \cup {n} /\ n \notin 1 .. Len(q) /\ \A i \in 1 .. Len(q) : n > i /\ i \in Nat
  BY <1>1
<1> HIDE DEF a, n
<1>3. (\A i \in 1 .. Len(a) : ~IsKill(a[i], u, t)) <=> (\A i \in 1 .. Len(q) : ~IsKill(q[i], u, t)) /\ ~IsKill(c, u, t)
  BY <1>1, <1>2
<1>4. ASSUME NEW i \in 1 .. Len(q) PROVE (\A j \in 1 .. Len(a) : j > i => ~IsKill(a[j], u, t)) <=> (\A j \in 1 .. Len(q) : j > i => ~IsKill(q[j], u, t)) /\ ~IsKill(c, u, t)
  BY <1>1, <1>2
<1>5. \A j \in 1 .. Len(a) : ~(j > n)
  BY <1>1
<1>6. (\E i \in 1 .. Len(a) : IsAdd(a[i], u) /\ \A j \in 1 .. Len(a) : j > i => ~IsKill(a[j], u, t))
        <=> IsAdd(c, u) \/ ((\E i \in 1 .. Len(q) : IsAdd(q[i], u) /\ \A j \in 1 .. Len(q) : j > i => ~IsKill(q[j], u, t)) /\ ~IsKill(c, u, t))
  BY <1>1, <1>2, <1>4, <1>5
<1>7. Due(a, ix, t, u) <=> IsAdd(c, u) \/ (Due(q, ix, t, u) /\ ~IsKill(c, u, t))
  BY <1>3, <1>6, Zenon DEF Due
<1> QED BY <1>7 DEF a

\* Doing the first command keeps what is due.
LEMMA DueDrain ==
  ASSUME NEW q \in Seq(CmdRec), q # <<>>, NEW ix, NEW jx, NEW t, NEW u,
         u \in jx <=> IsAdd(Head(q), u) \/ (u \in ix /\ ~IsKill(Head(q), u, t))
  PROVE  Due(Tail(q), jx, t, u) <=> Due(q, ix, t, u)
<1> DEFINE a == Tail(q)
           c == Head(q)
           n == Len(q) - 1
<1>1. n \in Nat /\ Len(a) = n /\ c = q[1] /\ Len(q) = n + 1 /\ \A i \in 1 .. n : a[i] = q[i + 1]
  OBVIOUS
<1>a. u \in jx <=> IsAdd(c, u) \/ (u \in ix /\ ~IsKill(c, u, t))
  OBVIOUS
<1> HIDE DEF a, n, c
<1>2. \A i \in 1 .. Len(q) : i = 1 \/ (i - 1 \in 1 .. n /\ q[i] = a[i - 1])
  <2>1. ASSUME NEW i \in 1 .. Len(q), i # 1 PROVE i - 1 \in 1 .. n /\ q[i] = a[i - 1]
    <3>1. i - 1 \in 1 .. n /\ (i - 1) + 1 = i
      BY <1>1, <2>1
    <3> QED BY <1>1, <3>1
  <2> QED BY <2>1
<1>3. (\A i \in 1 .. Len(q) : ~IsKill(q[i], u, t)) <=> (\A i \in 1 .. Len(a) : ~IsKill(a[i], u, t)) /\ ~IsKill(c, u, t)
  BY <1>1, <1>2
<1>4. (\A j \in 1 .. Len(q) : j > 1 => ~IsKill(q[j], u, t)) <=> (\A i \in 1 .. Len(a) : ~IsKill(a[i], u, t))
  BY <1>1, <1>2
<1>5. ASSUME NEW i \in 1 .. n PROVE (\A j \in 1 .. Len(q) : j > i + 1 => ~IsKill(q[j], u, t)) <=> (\A j \in 1 .. Len(a) : j > i => ~IsKill(a[j], u, t))
  <2>1. ASSUME NEW j \in 1 .. Len(a) PROVE a[j] = q[j+1] /\ j + 1 \in 1 .. Len(q) /\ (j > i <=> j + 1 > i + 1)
    BY <1>1
  <2>2. ASSUME NEW j \in 1 .. Len(q), j > i + 1 PROVE j - 1 \in 1 .. n /\ q[j] = a[j - 1] /\ j - 1 > i
    BY <1>1, <1>2, <2>2
  <2> QED BY <1>1, <2>1, <2>2
<1>6. (\E i \in 1 .. Len(q) : IsAdd(q[i], u) /\ \A j \in 1 .. Len(q) : j > i => ~IsKill(q[j], u, t))
        <=> (IsAdd(c, u) /\ \A i \in 1 .. Len(a) : ~IsKill(a[i], u, t))
            \/ (\E i \in 1 .. Len(a) : IsAdd(a[i], u) /\ \A j \in 1 .. Len(a) : j > i => ~IsKill(a[j], u, t))
  <2>1. ASSUME NEW i \in 1 .. Len(q), IsAdd(q[i], u), \A j \in 1 .. Len(q) : j > i => ~IsKill(q[j], u, t)
        PROVE (IsAdd(c, u) /\ \A k \in 1 .. Len(a) : ~IsKill(a[k], u, t))
            \/ (\E k \in 1 .. Len(a) : IsAdd(a[k], u) /\ \A j \in 1 .. Len(a) : j > k => ~IsKill(a[j], u, t))
    <3>1. CASE i = 1
      BY <3>1, <2>1, <1>1, <1>4
    <3>2. CASE i # 1
      <4>1. i - 1 \in 1 .. n /\ q[i] = a[i - 1] /\ (i - 1) + 1 = i
        BY <3>2, <1>2, <1>1
      <4> QED BY <4>1, <2>1, <1>1, <1>5
    <3> QED BY <3>1, <3>2
  <2>2. ASSUME IsAdd(c, u), \A i \in 1 .. Len(a) : ~IsKill(a[i], u, t)
        PROVE \E i \in 1 .. Len(q) : IsAdd(q[i], u) /\ \A j \in 1 .. Len(q) : j > i => ~IsKill(q[j], u, t)
    <3>1. 1 \in 1 .. Len(q) /\ IsAdd(q[1], u) /\ \A j \in 1 .. Len(q) : j > 1 => ~IsKill(q[j], u, t)
      BY <2>2, <1>1, <1>4
    <3> QED BY <3>1
  <2>3. ASSUME NEW k \in 1 .. Len(a), IsAdd(a[k], u), \A j \in 1 .. Len(a) : j > k => ~IsKill(a[j], u, t)
        PROVE \E i \in 1 .. Len(q) : IsAdd(q[i], u) /\ \A j \in 1 .. Len(q) : j > i => ~IsKill(q[j], u, t)
    <3>1. k + 1 \in 1 .. Len(q) /\ q[k + 1] = a[k] /\ k \in 1 .. n
      BY <1>1
    <3> QED BY <3>1, <2>3, <1>5
  <2> QED BY <2>1, <2>2, <2>3
<1>7. Due(a, jx, t, u) <=> Due(q, ix, t, u)
  BY <1>3, <1>6, <1>a, Zenon DEF Due
<1> QED BY <1>7 DEF a
\* The types, and that a check in flight is of a ufrag in the index.
Shape ==
    /\ Cardinality(Made) \in Nat /\ Made = 1 .. Cardinality(Made) /\ owner \in [Made -> Trs]
    /\ creds \in [Trs -> [active : Nat, pending : Nat]]
    /\ open \subseteq Trs
    /\ cmds \in Seq(CmdRec) /\ Len(cmds) <= CmdLimit
    /\ byUfrag \subseteq given /\ given \subseteq Made
    /\ byAddr \in [Addrs -> Trs \cup {0}]
    /\ ctl \in [Threads -> CtlRec]
    /\ check # NoCheck => /\ check \in [tr : Trs, ufrag : Nat, addr : Addrs]
                          /\ check.ufrag \in byUfrag /\ owner[check.ufrag] = check.tr
\* A suspect transport has a path.
Paths ==
    /\ path \in [Trs -> Addrs \cup {None}]
    /\ state \in [Trs -> {"Alive", "Suspect"}]
    /\ \A t \in Trs : state[t] = "Suspect" => path[t] # None

\* The credentials of a transport are its own.
CredsOwned ==
    \A t \in Trs :
        /\ creds[t].active \in given /\ owner[creds[t].active] = t
        /\ creds[t].pending # None => creds[t].pending \in Made /\ owner[creds[t].pending] = t
        /\ creds[t].active # creds[t].pending

\* Commands name ufrags of their transport, and each is registered once.
QueueOwned ==
    \A i \in 1 .. Len(cmds) :
        /\ cmds[i].op # "unregister" => cmds[i].ufrag \in Made /\ owner[cmds[i].ufrag] = cmds[i].tr
        /\ cmds[i].op = "register" =>
              /\ cmds[i].ufrag \in given \ byUfrag
              /\ \A t \in Trs : cmds[i].ufrag # creds[t].active
              /\ \A j \in 1 .. Len(cmds) : IsAdd(cmds[j], cmds[i].ufrag) => j = i

\* A restart in progress has a new ufrag of its own that nobody has been given.
CtlOwned ==
    \A h \in Threads :
        /\ ctl[h].pc = "idle" => ctl[h] = Idle
        /\ ctl[h].pc # "idle" => /\ ctl[h].tr \in Trs
                                 /\ ctl[h].new \in Made \ given /\ owner[ctl[h].new] = ctl[h].tr
                                 /\ \A g \in Threads : ctl[g].pc # "idle" /\ ctl[g].new = ctl[h].new => g = h
        /\ ctl[h].pc = "drop" => /\ ctl[h].old \in Made /\ owner[ctl[h].old] = ctl[h].tr
                                 /\ ctl[h].old # ctl[h].new

\* The threads restarting t, and the ufrags the index owes t.
Working(t) == {h \in Threads : ctl[h].tr = t}
Want(t) == (Ufrags(t) \ {ctl[h].new : h \in Working(t)}) \cup {ctl[h].old : h \in {g \in Working(t) : ctl[g].pc = "drop"}}

\* One thread at a time restarts t, while it is open.
Alone(t) ==
    /\ \A h \in Threads, g \in Threads : ctl[h].tr = t /\ ctl[g].tr = t => h = g
    /\ \A h \in Threads : ctl[h].tr = t =>
          /\ t \in open /\ creds[t].pending = ctl[h].new
          /\ ctl[h].pc = "drop" => ctl[h].old # creds[t].active

\* IndexExact holds only when nothing is under way; inductive is that the index will
\* be right once the queue is done.
Indexed(t) ==
    t \in open =>
        /\ \A u \in Made : owner[u] = t => (Due(cmds, byUfrag, t, u) <=> u \in Want(t))
        /\ \A i \in 1 .. Len(cmds) : ~(cmds[i].op = "unregister" /\ cmds[i].tr = t)

\* The commands that end t and that give it a ufrag.
Leaves(c, t) == c.op = "unregister" /\ c.tr = t
Enters(c, t) == c.op = "register" /\ c.tr = t

\* A closed transport leaves the index, now or by a command behind every register.
Forgotten(t) ==
    t \notin open =>
        \/ \E i \in 1 .. Len(cmds) : Leaves(cmds[i], t) /\ \A j \in 1 .. Len(cmds) : j > i => ~Enters(cmds[j], t)
        \/ /\ \A u \in byUfrag : owner[u] # t
           /\ \A a \in Addrs : byAddr[a] # t
           /\ \A j \in 1 .. Len(cmds) : ~Enters(cmds[j], t)

\* What holds of the transports that no refused command and no crossed close touched.
Clean == \A t \in Trs \ crossed : Alone(t) /\ Indexed(t) /\ Forgotten(t)

\* The inductive invariant.
Owned == Shape /\ CredsOwned /\ QueueOwned /\ CtlOwned
LinkInv == Owned /\ Paths /\ Clean

\* A step that leaves the credentials, the commands and the index alone keeps what
\* rests on them.
LEMMA CleanKept ==
  ASSUME Clean, UNCHANGED <<creds, open, cmds, byUfrag, byAddr, ctl, owner, crossed>>
  PROVE  Clean'
<1>1. ASSUME NEW t \in Trs, Alone(t) PROVE Alone(t)'
  BY <1>1 DEF Alone
<1>2. ASSUME NEW t \in Trs, Indexed(t) PROVE Indexed(t)'
  <2>1. Working(t)' = Working(t)
    BY DEF Working
  <2>2. Want(t)' = Want(t)
    BY <2>1 DEF Want, Ufrags
  <2>3. Made' = Made
    BY DEF Made
  <2> QED BY <1>2, <2>2, <2>3 DEF Indexed
<1>3. ASSUME NEW t \in Trs, Forgotten(t) PROVE Forgotten(t)'
  BY <1>3 DEF Forgotten
<1> QED BY <1>1, <1>2, <1>3 DEF Clean

\* And who owns which ufrag.
LEMMA OwnedKept ==
  ASSUME Owned, UNCHANGED <<creds, open, cmds, byUfrag, byAddr, check, ctl, given, owner>>
  PROVE  Owned'
<1>0. Made' = Made
  BY DEF Made
<1>1. Shape'
  BY <1>0 DEF Owned, Shape
<1>2. CredsOwned'
  BY <1>0 DEF Owned, CredsOwned
<1>3. QueueOwned'
  BY <1>0 DEF Owned, QueueOwned
<1>4. CtlOwned'
  BY <1>0 DEF Owned, CtlOwned
<1> QED BY <1>1, <1>2, <1>3, <1>4 DEF Owned

\* Every transport starts with its first ufrag in the index.
LEMMA LinkInit == ASSUME LinkBounds, Init PROVE LinkInv
<1>0. PICK n \in Nat : Trs = 1 .. n
  BY DEF LinkBounds
<1>1. Cardinality(Trs) = n /\ Made = Trs
  BY <1>0, FS_Interval DEF Init, Made
<1>2. Shape
  <2>1. Cardinality(Made) \in Nat /\ Made = 1 .. Cardinality(Made) /\ owner \in [Made -> Trs]
    BY <1>0, <1>1 DEF Init
  <2>2. creds \in [Trs -> [active : Nat, pending : Nat]]
    BY <1>0 DEF Init, None
  <2>3. cmds \in Seq(CmdRec) /\ Len(cmds) <= CmdLimit
    BY DEF Init, LinkBounds
  <2>4. ctl \in [Threads -> CtlRec]
    BY DEF Init, Idle, CtlRec, None
  <2> QED BY <2>1, <2>2, <2>3, <2>4, <1>1 DEF Init, Shape, None
<1>3. CredsOwned
  BY <1>0, <1>1 DEF Init, CredsOwned, None
<1>4. QueueOwned /\ Len(cmds) = 0
  BY DEF Init, QueueOwned
<1>5. CtlOwned
  BY DEF Init, CtlOwned, Idle
<1>6. Paths
  BY DEF Init, Paths
<1>7. ASSUME NEW t \in Trs PROVE Alone(t) /\ Indexed(t) /\ Forgotten(t)
  <2>1. \A h \in Threads : ctl[h].tr # t
    BY <1>0 DEF Init, Idle, None
  <2>2. Want(t) = {t}
    <3>1. Working(t) = {}
      BY <2>1 DEF Working
    <3>2. creds[t].active = t /\ creds[t].pending = None
      BY DEF Init
    <3> QED BY <3>1, <3>2 DEF Want, Ufrags
  <2>3. \A u \in Made : Due(cmds, byUfrag, t, u) /\ owner[u] = u
    BY <1>1, <1>4 DEF Due, Init
  <2>4. Indexed(t)
    BY <2>2, <2>3, <1>4 DEF Indexed
  <2>5. Alone(t)
    BY <2>1 DEF Alone
  <2>6. Forgotten(t)
    BY DEF Init, Forgotten
  <2> QED BY <2>4, <2>5, <2>6
<1> QED BY <1>2, <1>3, <1>4, <1>5, <1>6, <1>7 DEF LinkInv, Owned, Clean

\* What a push does to the queue.
LEMMA PushFacts ==
  ASSUME LinkBounds, Shape, NEW c \in CmdRec, Push(c)
  PROVE  /\ cmds' \in Seq(CmdRec) /\ Len(cmds') <= CmdLimit
         /\ \A i \in 1 .. Len(cmds) : i \in 1 .. Len(cmds') /\ cmds'[i] = cmds[i]
         /\ \A i \in 1 .. Len(cmds') : (i \in 1 .. Len(cmds) /\ cmds'[i] = cmds[i]) \/ (cmds'[i] = c /\ i = Len(cmds) + 1)
         /\ Len(cmds) < CmdLimit => /\ cmds' = Append(cmds, c)
                                    /\ Len(cmds) + 1 \in 1 .. Len(cmds') /\ Len(cmds') = Len(cmds) + 1 /\ cmds'[Len(cmds) + 1] = c
         /\ ~(Len(cmds) < CmdLimit) => cmds' = cmds
<1>0. cmds \in Seq(CmdRec) /\ Len(cmds) \in Nat /\ Len(cmds) <= CmdLimit
  BY DEF Shape
<1>1. CASE Len(cmds) < CmdLimit
  <2>1. cmds' = Append(cmds, c)
    BY <1>1 DEF Push
  <2>2. Append(cmds, c) \in Seq(CmdRec) /\ Len(Append(cmds, c)) = Len(cmds) + 1 /\ Append(cmds, c)[Len(cmds) + 1] = c
        /\ \A i \in 1 .. Len(cmds) : Append(cmds, c)[i] = cmds[i]
    BY <1>0
  <2>3. Len(cmds') = Len(cmds) + 1 /\ CmdLimit \in Nat
    BY <2>1, <2>2 DEF LinkBounds
  <2>4. \A i \in 1 .. Len(cmds') : i \in 1 .. Len(cmds) \/ i = Len(cmds) + 1
    BY <2>3, <1>0
  <2>5. Len(cmds') <= CmdLimit /\ Len(cmds) + 1 \in 1 .. Len(cmds') /\ \A i \in 1 .. Len(cmds) : i \in 1 .. Len(cmds')
    BY <2>3, <1>0, <1>1
  <2> QED BY <1>1, <2>1, <2>2, <2>3, <2>4, <2>5
<1>2. CASE ~(Len(cmds) < CmdLimit)
  BY <1>0, <1>2 DEF Push
<1> QED BY <1>1, <1>2

\* An ICE restart makes a ufrag.
LEMMA RestartStep ==
  ASSUME LinkBounds, LinkInv, NEW h \in Threads, NEW t0 \in Trs, Restart(h, t0)
  PROVE  LinkInv'
<1> DEFINE new == Cardinality(DOMAIN owner) + 1
           old == creds[t0].pending
<1>0. Shape /\ CredsOwned /\ QueueOwned /\ CtlOwned /\ Paths /\ Clean
  BY DEF LinkInv, Owned
<1>1. /\ ctl[h] = Idle
      /\ creds' = [creds EXCEPT ![t0].pending = new]
      /\ owner' = [u \in 1 .. new |-> IF u = new THEN t0 ELSE owner[u]]
      /\ ctl' = [ctl EXCEPT ![h] = [pc |-> IF old = None THEN "register" ELSE "drop", tr |-> t0, old |-> old, new |-> new]]
      /\ crossed' = crossed \cup Busy(h, t0) \cup (IF t0 \in open THEN {} ELSE {t0})
      /\ UNCHANGED <<open, path, state, cmds, byUfrag, byAddr, check, given>>
  BY DEF Restart
<1>2. new \in Nat /\ new # 0 /\ new \notin Made /\ Made \subseteq 1 .. new /\ 1 .. new = Made \cup {new}
  BY <1>0 DEF Shape, Made
<1>3. Made' = Made \cup {new} /\ owner'[new] = t0 /\ (\A u \in Made : owner'[u] = owner[u]) /\ owner' \in [Made' -> Trs]
  <2>1. Made' = 1 .. new
    BY <1>1 DEF Made
  <2> QED BY <1>0, <1>1, <1>2, <2>1 DEF Shape
<1> HIDE DEF new
<1>4. Cardinality(Made') = new /\ Made' = 1 .. new
  <2>1. Cardinality(1 .. new) = new
    BY <1>2, FS_Interval
  <2> QED BY <2>1, <1>2, <1>3
<1>5. creds' \in [Trs -> [active : Nat, pending : Nat]] /\ creds'[t0].pending = new /\ creds'[t0].active = creds[t0].active
      /\ \A t \in Trs : t # t0 => creds'[t] = creds[t]
  <2>1. creds \in [Trs -> [active : Nat, pending : Nat]]
    BY <1>0 DEF Shape
  <2>2. creds' \in [Trs -> [active : Nat, pending : Nat]]
    BY <1>1, <1>2, <2>1
  <2>3. creds'[t0].pending = new /\ creds'[t0].active = creds[t0].active
    BY <1>1, <2>1
  <2> QED BY <1>1, <2>1, <2>2, <2>3
<1>6. old \in Nat /\ ctl'[h] = [pc |-> IF old = None THEN "register" ELSE "drop", tr |-> t0, old |-> old, new |-> new]
      /\ \A g \in Threads : g # h => ctl'[g] = ctl[g]
  BY <1>0, <1>1 DEF Shape
<1>7. ctl' \in [Threads -> CtlRec]
  BY <1>0, <1>1, <1>2, <1>6 DEF Shape, CtlRec, None
<1>8. Shape'
  <2>1. check' # NoCheck => owner'[check'.ufrag] = check'.tr
    BY <1>0, <1>1, <1>3 DEF Shape
  <2> QED BY <1>0, <1>1, <1>2, <1>3, <1>4, <1>5, <1>7, <2>1 DEF Shape
<1>9. CredsOwned'
  BY <1>0, <1>1, <1>2, <1>3, <1>5 DEF CredsOwned, Shape
<1>10. QueueOwned'
  BY <1>0, <1>1, <1>2, <1>3, <1>5 DEF QueueOwned
<1>11. CtlOwned'
  BY <1>0, <1>1, <1>2, <1>3, <1>6 DEF CtlOwned, CredsOwned, Shape, Idle, None
<1>12. Paths'
  BY <1>0, <1>1 DEF Paths
<1>13. ASSUME NEW t \in Trs \ crossed', t # t0 PROVE Alone(t)' /\ Indexed(t)' /\ Forgotten(t)'
  <2>1. t \in Trs \ crossed /\ Alone(t) /\ Indexed(t) /\ Forgotten(t) /\ creds'[t] = creds[t]
    BY <1>0, <1>1, <1>5, <1>13 DEF Clean
  <2>2. \A g \in Threads : ctl'[g].tr = t <=> ctl[g].tr = t
    BY <1>0, <1>1, <1>6, <1>13, LinkBounds DEF Idle, None, LinkBounds
  <2>3. \A g \in Threads : ctl'[g].tr = t => ctl'[g] = ctl[g]
    BY <1>6, <1>13
  <2>4. Alone(t)'
    <3>1. open' = open
      BY <1>1
    <3> QED BY <2>1, <2>2, <2>3, <3>1 DEF Alone
  <2>5. Want(t)' = Want(t)
    <3>1. Working(t)' = Working(t) /\ \A g \in Working(t) : ctl'[g] = ctl[g]
      BY <2>2, <2>3 DEF Working
    <3>2. Ufrags(t)' = Ufrags(t)
      BY <2>1 DEF Ufrags
    <3> QED BY <3>1, <3>2 DEF Want
  <2>6. Indexed(t)'
    BY <1>1, <1>3, <1>13, <2>1, <2>5 DEF Indexed
  <2>7. Forgotten(t)'
    BY <1>0, <1>1, <1>3, <2>1 DEF Forgotten, Shape
  <2> QED BY <2>4, <2>6, <2>7
<1>14. ASSUME t0 \notin crossed' PROVE Alone(t0)' /\ Indexed(t0)' /\ Forgotten(t0)'
  <2>1. t0 \in Trs \ crossed /\ Alone(t0) /\ Indexed(t0) /\ t0 \in open /\ Busy(h, t0) = {}
    BY <1>0, <1>1, <1>14 DEF Clean, Busy
  <2>2. \A g \in Threads : ctl[g].tr # t0
    BY <1>1, <2>1 DEF Busy, Idle, None, LinkBounds
  <2>3. \A g \in Threads : ctl'[g].tr = t0 <=> g = h
    BY <1>6, <2>2
  <2>4. Alone(t0)'
    BY <1>0, <1>1, <1>5, <1>6, <2>1, <2>3 DEF Alone, CredsOwned
  <2>5. Want(t0) = Ufrags(t0)
    <3>1. Working(t0) = {}
      BY <2>2 DEF Working
    <3> QED BY <3>1 DEF Want
  <2>6. Want(t0)' = Ufrags(t0)
    <3>1. Working(t0)' = {h}
      BY <2>3 DEF Working
    <3>2. Ufrags(t0)' = {creds[t0].active, new}
      BY <1>2, <1>5 DEF Ufrags, None
    <3>3. creds[t0].active # new
      BY <1>0, <1>2 DEF CredsOwned, Shape
    <3>4. Want(t0)' = {creds[t0].active} \cup (IF old = None THEN {} ELSE {old})
      BY <3>1, <3>2, <3>3, <1>6 DEF Want
    <3> QED BY <3>4 DEF Ufrags
  <2>7. ~Due(cmds, byUfrag, t0, new) /\ new \notin Ufrags(t0)
    <3>1. new \notin byUfrag
      BY <1>0, <1>2 DEF Shape
    <3>2. \A i \in 1 .. Len(cmds) : ~IsAdd(cmds[i], new)
      BY <1>0, <1>2 DEF QueueOwned, IsAdd
    <3>3. new \notin Ufrags(t0)
      BY <1>0, <1>2 DEF CredsOwned, Shape, Ufrags
    <3> QED BY <3>1, <3>2, <3>3 DEF Due
  <2>8. Indexed(t0)'
    BY <1>1, <1>3, <2>1, <2>5, <2>6, <2>7 DEF Indexed
  <2> QED BY <2>1, <2>4, <2>8, <1>1 DEF Forgotten
<1> QED BY <1>8, <1>9, <1>10, <1>11, <1>12, <1>13, <1>14 DEF LinkInv, Owned, Clean
\* A transport that a step does not concern stays as it is.
LEMMA CleanSame ==
  ASSUME LinkBounds, LinkInv, NEW t \in Trs \ crossed, t \notin crossed' ,
         UNCHANGED <<open, owner>>, UNCHANGED (creds[t]),
         \A g \in Threads : ctl'[g].tr = t <=> ctl[g].tr = t,
         \A g \in Threads : ctl[g].tr = t => ctl'[g] = ctl[g],
         \A u \in Made : owner[u] = t => (Due(cmds', byUfrag', t, u) <=> Due(cmds, byUfrag, t, u)),
         t \in open => \A i \in 1 .. Len(cmds') : ~Leaves(cmds'[i], t),
         Forgotten(t)'
  PROVE  Alone(t)' /\ Indexed(t)' /\ Forgotten(t)'
<1>1. Alone(t) /\ Indexed(t)
  BY DEF LinkInv, Clean
<1>2. Alone(t)'
  BY <1>1 DEF Alone
<1>3. Want(t)' = Want(t)
  <2>1. Working(t)' = Working(t) /\ \A g \in Working(t) : ctl'[g] = ctl[g]
    BY DEF Working
  <2>2. Ufrags(t)' = Ufrags(t)
    BY DEF Ufrags
  <2> QED BY <2>1, <2>2 DEF Want
<1>4. Indexed(t)'
  BY <1>1, <1>3 DEF Indexed, Made, Leaves
<1> QED BY <1>2, <1>4

\* A command that gives t no ufrag keeps it forgotten.
LEMMA ForgottenPush ==
  ASSUME LinkBounds, Shape, NEW t \in Trs, Forgotten(t), NEW c \in CmdRec, Push(c), ~Enters(c, t),
         UNCHANGED <<open, byUfrag, byAddr, owner>>
  PROVE  Forgotten(t)'
<1>1. CASE \E i \in 1 .. Len(cmds) : Leaves(cmds[i], t) /\ \A j \in 1 .. Len(cmds) : j > i => ~Enters(cmds[j], t)
  BY <1>1, PushFacts DEF Forgotten
<1>2. CASE /\ \A u \in byUfrag : owner[u] # t
           /\ \A a \in Addrs : byAddr[a] # t
           /\ \A j \in 1 .. Len(cmds) : ~Enters(cmds[j], t)
  BY <1>2, PushFacts DEF Forgotten
<1> QED BY <1>1, <1>2 DEF Forgotten

\* Dropping the ufrag that a second restart replaces.
LEMMA DropOldStep ==
  ASSUME LinkBounds, LinkInv, NEW h \in Threads, DropOld(h)
  PROVE  LinkInv'
<1> DEFINE c == [op |-> "drop", tr |-> ctl[h].tr, ufrag |-> ctl[h].old]
<1>0. Shape /\ CredsOwned /\ QueueOwned /\ CtlOwned /\ Paths /\ Clean
  BY DEF LinkInv, Owned
<1>1. /\ ctl[h].pc = "drop" /\ Push(c) /\ ctl' = [ctl EXCEPT ![h].pc = "register"]
      /\ crossed' = crossed \cup Lost(ctl[h].tr)
      /\ UNCHANGED <<creds, open, path, state, byUfrag, byAddr, check, given, owner>>
  BY DEF DropOld
<1>2. PICK t0 \in Trs, o \in Made : ctl[h].tr = t0 /\ ctl[h].old = o /\ owner[o] = t0 /\ o \in Nat
  BY <1>0, <1>1 DEF CtlOwned, Shape, CtlRec
<1>3. c \in CmdRec /\ c.op = "drop" /\ c.tr = t0 /\ c.ufrag = o
  BY <1>2 DEF CmdRec, Ops
<1>4. /\ ctl' \in [Threads -> CtlRec]
      /\ ctl'[h].pc = "register" /\ ctl'[h].tr = ctl[h].tr /\ ctl'[h].new = ctl[h].new
      /\ \A g \in Threads : g # h => ctl'[g] = ctl[g]
  BY <1>0, <1>1 DEF Shape, CtlRec
<1> HIDE DEF c
<1>5. Shape'
  BY <1>0, <1>1, <1>3, <1>4, PushFacts DEF Shape, Made
<1>6. CredsOwned'
  BY <1>0, <1>1 DEF CredsOwned, Made
<1>7. QueueOwned'
  <2>1. ASSUME NEW i \in 1 .. Len(cmds')
        PROVE (i \in 1 .. Len(cmds) /\ cmds'[i] = cmds[i]) \/ (cmds'[i] = c)
    BY <1>0, <1>1, <1>3, PushFacts
  <2>2. Made' = Made
    BY <1>1 DEF Made
  <2> QED BY <1>0, <1>1, <1>2, <1>3, <2>1, <2>2 DEF QueueOwned, IsAdd
<1>8. CtlOwned'
  BY <1>0, <1>1, <1>4 DEF CtlOwned, Made
<1>9. Paths'
  BY <1>0, <1>1 DEF Paths
<1>10. ASSUME NEW t \in Trs \ crossed', t # t0 PROVE Alone(t)' /\ Indexed(t)' /\ Forgotten(t)'
  <2>1. t \in Trs \ crossed /\ Indexed(t) /\ Forgotten(t)
    BY <1>0, <1>1, <1>10 DEF Clean
  <2>2. \A g \in Threads : (ctl'[g].tr = t <=> ctl[g].tr = t) /\ (ctl[g].tr = t => ctl'[g] = ctl[g])
    BY <1>2, <1>4, <1>10
  <2>3. ASSUME NEW u \in Made, owner[u] = t PROVE Due(cmds', byUfrag', t, u) <=> Due(cmds, byUfrag, t, u)
    <3>1. ~IsAdd(c, u) /\ ~IsKill(c, u, t)
      BY <1>2, <1>3, <1>10, <2>3 DEF IsAdd, IsKill
    <3>2. cmds' = cmds \/ cmds' = Append(cmds, c)
      BY <1>0, <1>1, <1>3, PushFacts
    <3>3. CASE cmds' = Append(cmds, c)
      BY <1>0, <1>1, <1>3, <3>1, <3>3, DuePush DEF Shape
    <3> QED BY <1>1, <3>2, <3>3
  <2>4. t \in open => \A i \in 1 .. Len(cmds') : ~Leaves(cmds'[i], t)
    BY <1>0, <1>1, <1>3, <2>1, PushFacts DEF Indexed, Leaves
  <2>5. Forgotten(t)'
    BY <1>0, <1>1, <1>3, <2>1, ForgottenPush DEF Enters
  <2> QED BY <1>1, <1>10, <2>1, <2>2, <2>3, <2>4, <2>5, CleanSame
<1>11. ASSUME t0 \notin crossed' PROVE Alone(t0)' /\ Indexed(t0)' /\ Forgotten(t0)'
  <2>1. t0 \in Trs \ crossed /\ Alone(t0) /\ Indexed(t0) /\ Len(cmds) < CmdLimit
    BY <1>0, <1>1, <1>2, <1>11 DEF Clean, Lost
  <2>2. t0 \in open /\ creds[t0].pending = ctl[h].new /\ o # creds[t0].active
    BY <1>1, <1>2, <2>1 DEF Alone
  <2>3. \A g \in Threads : ctl'[g].tr = t0 <=> g = h
    BY <1>2, <1>4, <2>1 DEF Alone
  <2>4. Alone(t0)'
    BY <1>1, <1>2, <1>4, <2>1, <2>2, <2>3 DEF Alone
  <2>5. ctl[h].new # o /\ creds[t0].active # creds[t0].pending
    BY <1>0, <1>1, <1>2 DEF CtlOwned, CredsOwned
  <2>6. Want(t0) = {creds[t0].active, o}
    <3>1. Working(t0) = {h}
      BY <1>2, <2>1 DEF Working, Alone
    <3>2. {g \in Working(t0) : ctl[g].pc = "drop"} = {h}
      BY <1>1, <3>1
    <3> QED BY <1>2, <2>2, <2>5, <3>1, <3>2 DEF Want, Ufrags
  <2>7. Want(t0)' = {creds[t0].active}
    <3>1. Working(t0)' = {h}
      BY <2>3 DEF Working
    <3>2. {g \in Working(t0) : ctl[g].pc = "drop"}' = {}
      BY <1>4, <3>1
    <3>3. Ufrags(t0)' = Ufrags(t0)
      BY <1>1 DEF Ufrags
    <3> QED BY <1>4, <2>2, <2>5, <3>1, <3>2, <3>3 DEF Want, Ufrags
  <2>8. ASSUME NEW u \in Made PROVE Due(cmds', byUfrag', t0, u) <=> Due(cmds, byUfrag, t0, u) /\ u # o
    <3>1. ~IsAdd(c, u) /\ (IsKill(c, u, t0) <=> u = o)
      BY <1>3 DEF IsAdd, IsKill
    <3>2. cmds' = Append(cmds, c)
      BY <1>0, <1>1, <1>3, <2>1, PushFacts
    <3> QED BY <1>0, <1>1, <1>3, <3>1, <3>2, DuePush DEF Shape
  <2>9. \A i \in 1 .. Len(cmds') : ~(cmds'[i].op = "unregister" /\ cmds'[i].tr = t0)
    BY <1>0, <1>1, <1>3, <2>1, <2>2, PushFacts DEF Indexed
  <2>10. Indexed(t0)'
    BY <1>1, <2>1, <2>2, <2>6, <2>7, <2>8, <2>9 DEF Indexed, Made
  <2> QED BY <1>1, <2>2, <2>4, <2>10 DEF Forgotten
<1> QED BY <1>5, <1>6, <1>7, <1>8, <1>9, <1>10, <1>11 DEF LinkInv, Owned, Clean

\* Registering the new ufrag.
LEMMA RegisterStep ==
  ASSUME LinkBounds, LinkInv, NEW h \in Threads, Register(h)
  PROVE  LinkInv'
<1> DEFINE c == [op |-> "register", tr |-> ctl[h].tr, ufrag |-> ctl[h].new]
<1>0. Shape /\ CredsOwned /\ QueueOwned /\ CtlOwned /\ Paths /\ Clean
  BY DEF LinkInv, Owned
<1>1. /\ ctl[h].pc = "register" /\ Push(c) /\ ctl' = [ctl EXCEPT ![h] = Idle]
      /\ given' = given \cup {ctl[h].new}
      /\ crossed' = crossed \cup Lost(ctl[h].tr)
      /\ UNCHANGED <<creds, open, path, state, byUfrag, byAddr, check, owner>>
  BY DEF Register
<1>2. PICK t0 \in Trs, n \in Made \ given : ctl[h].tr = t0 /\ ctl[h].new = n /\ owner[n] = t0 /\ n \in Nat
  BY <1>0, <1>1 DEF CtlOwned, Shape, CtlRec
<1>3. c \in CmdRec /\ c.op = "register" /\ c.tr = t0 /\ c.ufrag = n
  BY <1>2 DEF CmdRec, Ops
<1>a. 0 \notin Trs /\ Idle.tr = 0 /\ Idle.pc = "idle" /\ Idle \in CtlRec
  BY DEF LinkBounds, Idle, None, CtlRec
<1>4. ctl' \in [Threads -> CtlRec] /\ ctl'[h] = Idle /\ \A g \in Threads : g # h => ctl'[g] = ctl[g]
  BY <1>0, <1>1, <1>a DEF Shape
<1> HIDE DEF c
<1>5. Shape'
  BY <1>0, <1>1, <1>2, <1>3, <1>4, PushFacts DEF Shape, Made
<1>6. CredsOwned'
  BY <1>0, <1>1 DEF CredsOwned, Made
<1>7. QueueOwned'
  <2>1. ASSUME NEW i \in 1 .. Len(cmds')
        PROVE (i \in 1 .. Len(cmds) /\ cmds'[i] = cmds[i]) \/ (cmds'[i] = c /\ i = Len(cmds) + 1)
    BY <1>0, <1>1, <1>3, PushFacts
  <2>2. Made' = Made
    BY <1>1 DEF Made
  <2>3. n \in given' /\ n \notin byUfrag' /\ \A t \in Trs : n # creds'[t].active
    BY <1>0, <1>1, <1>2 DEF Shape, CredsOwned
  <2>4. \A i \in 1 .. Len(cmds) : ~IsAdd(cmds[i], n)
    BY <1>0, <1>2 DEF QueueOwned, IsAdd
  <2>5. ASSUME NEW i \in 1 .. Len(cmds') PROVE cmds'[i].op # "unregister" => cmds'[i].ufrag \in Made' /\ owner'[cmds'[i].ufrag] = cmds'[i].tr
    BY <1>0, <1>1, <1>2, <1>3, <2>1, <2>2 DEF QueueOwned
  <2>6. ASSUME NEW i \in 1 .. Len(cmds'), cmds'[i].op = "register"
        PROVE /\ cmds'[i].ufrag \in given' \ byUfrag' /\ \A t \in Trs : cmds'[i].ufrag # creds'[t].active
              /\ \A j \in 1 .. Len(cmds') : IsAdd(cmds'[j], cmds'[i].ufrag) => j = i
    <3>1. CASE i \in 1 .. Len(cmds) /\ cmds'[i] = cmds[i]
      <4>1. cmds[i].ufrag # n
        BY <2>4, <2>6, <3>1 DEF IsAdd
      <4> QED BY <1>0, <1>1, <1>3, <2>1, <2>6, <3>1, <4>1 DEF QueueOwned, IsAdd
    <3>2. CASE cmds'[i] = c /\ i = Len(cmds) + 1
      BY <1>3, <2>1, <2>3, <2>4, <3>2
    <3> QED BY <2>1, <3>1, <3>2
  <2> QED BY <2>5, <2>6 DEF QueueOwned
<1>8. CtlOwned'
  BY <1>0, <1>1, <1>2, <1>4, <1>a DEF CtlOwned, Made
<1>9. Paths'
  BY <1>0, <1>1 DEF Paths
<1>10. ASSUME NEW t \in Trs \ crossed', t # t0 PROVE Alone(t)' /\ Indexed(t)' /\ Forgotten(t)'
  <2>1. t \in Trs \ crossed /\ Indexed(t) /\ Forgotten(t)
    BY <1>0, <1>1, <1>10 DEF Clean
  <2>2. \A g \in Threads : (ctl'[g].tr = t <=> ctl[g].tr = t) /\ (ctl[g].tr = t => ctl'[g] = ctl[g])
    BY <1>2, <1>4, <1>10, <1>a
  <2>3. ASSUME NEW u \in Made, owner[u] = t PROVE Due(cmds', byUfrag', t, u) <=> Due(cmds, byUfrag, t, u)
    <3>1. ~IsAdd(c, u) /\ ~IsKill(c, u, t)
      BY <1>2, <1>3, <1>10, <2>3 DEF IsAdd, IsKill
    <3>2. cmds' = cmds \/ cmds' = Append(cmds, c)
      BY <1>0, <1>1, <1>3, PushFacts
    <3>3. CASE cmds' = Append(cmds, c)
      BY <1>0, <1>1, <1>3, <3>1, <3>3, DuePush DEF Shape
    <3> QED BY <1>1, <3>2, <3>3
  <2>4. t \in open => \A i \in 1 .. Len(cmds') : ~Leaves(cmds'[i], t)
    BY <1>0, <1>1, <1>3, <2>1, PushFacts DEF Indexed, Leaves
  <2>5. Forgotten(t)'
    BY <1>0, <1>1, <1>3, <1>10, <2>1, ForgottenPush DEF Enters
  <2> QED BY <1>1, <1>10, <2>1, <2>2, <2>3, <2>4, <2>5, CleanSame
<1>11. ASSUME t0 \notin crossed' PROVE Alone(t0)' /\ Indexed(t0)' /\ Forgotten(t0)'
  <2>1. t0 \in Trs \ crossed /\ Alone(t0) /\ Indexed(t0) /\ Len(cmds) < CmdLimit
    BY <1>0, <1>1, <1>2, <1>11 DEF Clean, Lost
  <2>2. t0 \in open /\ creds[t0].pending = n
    BY <1>1, <1>2, <2>1 DEF Alone
  <2>3. \A g \in Threads : ctl'[g].tr # t0
    BY <1>2, <1>4, <1>a, <2>1 DEF Alone
  <2>4. Alone(t0)'
    BY <2>3 DEF Alone
  <2>5. creds[t0].active # n
    BY <1>0, <1>2, <2>2 DEF CredsOwned
  <2>6. Want(t0) = {creds[t0].active}
    <3>1. Working(t0) = {h}
      BY <1>2, <2>1 DEF Working, Alone
    <3>2. {g \in Working(t0) : ctl[g].pc = "drop"} = {}
      BY <1>1, <3>1
    <3> QED BY <1>2, <2>2, <2>5, <3>1, <3>2 DEF Want, Ufrags
  <2>7. Want(t0)' = {creds[t0].active, n}
    <3>1. Working(t0)' = {}
      BY <2>3 DEF Working
    <3>2. Ufrags(t0)' = {creds[t0].active, n}
      <4>1. n # None
        BY <1>0, <1>2 DEF Shape, None
      <4> QED BY <1>1, <2>2, <4>1 DEF Ufrags
    <3> QED BY <3>1, <3>2 DEF Want
  <2>8. ASSUME NEW u \in Made PROVE Due(cmds', byUfrag', t0, u) <=> Due(cmds, byUfrag, t0, u) \/ u = n
    <3>1. ~IsKill(c, u, t0) /\ (IsAdd(c, u) <=> u = n)
      BY <1>3 DEF IsAdd, IsKill
    <3>2. cmds' = Append(cmds, c)
      BY <1>0, <1>1, <1>3, <2>1, PushFacts
    <3> QED BY <1>0, <1>1, <1>3, <3>1, <3>2, DuePush DEF Shape
  <2>9. \A i \in 1 .. Len(cmds') : ~(cmds'[i].op = "unregister" /\ cmds'[i].tr = t0)
    BY <1>0, <1>1, <1>3, <2>1, <2>2, PushFacts DEF Indexed
  <2>10. Indexed(t0)'
    BY <1>1, <2>1, <2>2, <2>6, <2>7, <2>8, <2>9 DEF Indexed, Made
  <2> QED BY <1>1, <2>2, <2>4, <2>10 DEF Forgotten
<1> QED BY <1>5, <1>6, <1>7, <1>8, <1>9, <1>10, <1>11 DEF LinkInv, Owned, Clean

\* Closing a transport.
LEMMA CloseStep ==
  ASSUME LinkBounds, LinkInv, NEW h \in Threads, NEW t0 \in Trs, Close(h, t0)
  PROVE  LinkInv'
<1> DEFINE c == [op |-> "unregister", tr |-> t0, ufrag |-> None]
<1>0. Shape /\ CredsOwned /\ QueueOwned /\ CtlOwned /\ Paths /\ Clean
  BY DEF LinkInv, Owned
<1>1. /\ ctl[h] = Idle /\ open' = open \ {t0} /\ Push(c)
      /\ crossed' = crossed \cup Busy(h, t0) \cup Lost(t0)
      /\ UNCHANGED <<creds, path, state, byUfrag, byAddr, check, ctl, given, owner>>
  BY DEF Close
<1>3. c \in CmdRec /\ c.op = "unregister" /\ c.tr = t0
  BY DEF CmdRec, Ops, None
<1>a. 0 \notin Trs /\ Idle.tr = 0
  BY DEF LinkBounds, Idle, None
<1> HIDE DEF c
<1>5. Shape'
  BY <1>0, <1>1, <1>3, PushFacts DEF Shape, Made
<1>6. CredsOwned' /\ CtlOwned' /\ Paths'
  BY <1>0, <1>1 DEF CredsOwned, CtlOwned, Paths, Made
<1>7. QueueOwned'
  <2>1. ASSUME NEW i \in 1 .. Len(cmds')
        PROVE (i \in 1 .. Len(cmds) /\ cmds'[i] = cmds[i]) \/ (cmds'[i] = c)
    BY <1>0, <1>1, <1>3, PushFacts
  <2>2. Made' = Made
    BY <1>1 DEF Made
  <2>3. ASSUME NEW i \in 1 .. Len(cmds'), cmds'[i].op = "register"
        PROVE /\ i \in 1 .. Len(cmds) /\ cmds'[i] = cmds[i]
              /\ \A j \in 1 .. Len(cmds') : IsAdd(cmds'[j], cmds'[i].ufrag) => j = i
    <3>1. i \in 1 .. Len(cmds) /\ cmds'[i] = cmds[i]
      BY <1>3, <2>1, <2>3
    <3>2. ASSUME NEW j \in 1 .. Len(cmds'), IsAdd(cmds'[j], cmds'[i].ufrag)
          PROVE j \in 1 .. Len(cmds) /\ cmds'[j] = cmds[j]
      BY <1>3, <2>1, <3>2 DEF IsAdd
    <3> QED BY <1>0, <2>3, <3>1, <3>2 DEF QueueOwned
  <2>4. ASSUME NEW i \in 1 .. Len(cmds'), cmds'[i].op # "unregister"
        PROVE i \in 1 .. Len(cmds) /\ cmds'[i] = cmds[i]
    BY <1>3, <2>1, <2>4
  <2>5. ASSUME NEW i \in 1 .. Len(cmds'), cmds'[i].op # "unregister"
        PROVE cmds'[i].ufrag \in Made' /\ owner'[cmds'[i].ufrag] = cmds'[i].tr
    BY <1>0, <1>1, <2>2, <2>4, <2>5 DEF QueueOwned
  <2>6. ASSUME NEW i \in 1 .. Len(cmds'), cmds'[i].op = "register"
        PROVE cmds'[i].ufrag \in given' \ byUfrag' /\ \A t \in Trs : cmds'[i].ufrag # creds'[t].active
    BY <1>0, <1>1, <2>3, <2>6 DEF QueueOwned
  <2> QED BY <2>3, <2>5, <2>6 DEF QueueOwned
<1>10. ASSUME NEW t \in Trs \ crossed', t # t0 PROVE Alone(t)' /\ Indexed(t)' /\ Forgotten(t)'
  <2>1. t \in Trs \ crossed /\ Alone(t) /\ Indexed(t) /\ Forgotten(t) /\ (t \in open' <=> t \in open)
    BY <1>0, <1>1, <1>10 DEF Clean
  <2>2. Alone(t)'
    BY <1>1, <2>1 DEF Alone
  <2>3. ASSUME NEW u \in Made, owner[u] = t PROVE Due(cmds', byUfrag', t, u) <=> Due(cmds, byUfrag, t, u)
    <3>1. ~IsAdd(c, u) /\ ~IsKill(c, u, t)
      BY <1>3, <1>10 DEF IsAdd, IsKill
    <3>2. cmds' = cmds \/ cmds' = Append(cmds, c)
      BY <1>0, <1>1, <1>3, PushFacts
    <3>3. CASE cmds' = Append(cmds, c)
      BY <1>0, <1>1, <1>3, <3>1, <3>3, DuePush DEF Shape
    <3> QED BY <1>1, <3>2, <3>3
  <2>4. t \in open => \A i \in 1 .. Len(cmds') : ~Leaves(cmds'[i], t)
    BY <1>0, <1>1, <1>3, <1>10, <2>1, PushFacts DEF Indexed, Leaves
  <2>5. Want(t)' = Want(t)
    BY <1>1 DEF Want, Working, Ufrags
  <2>6. Indexed(t)'
    BY <1>1, <2>1, <2>3, <2>4, <2>5 DEF Indexed, Leaves, Made
  <2>7. Forgotten(t)'
    <3>1. \A i \in 1 .. Len(cmds) : i \in 1 .. Len(cmds') /\ cmds'[i] = cmds[i]
      BY <1>0, <1>1, <1>3, PushFacts
    <3>2. \A i \in 1 .. Len(cmds') : (i \in 1 .. Len(cmds) /\ cmds'[i] = cmds[i]) \/ ~Enters(cmds'[i], t)
      BY <1>0, <1>1, <1>3, PushFacts DEF Enters
    <3> QED BY <1>1, <2>1, <3>1, <3>2 DEF Forgotten
  <2> QED BY <2>2, <2>6, <2>7
<1>11. ASSUME t0 \notin crossed' PROVE Alone(t0)' /\ Indexed(t0)' /\ Forgotten(t0)'
  <2>1. Busy(h, t0) = {} /\ Len(cmds) < CmdLimit
    BY <1>1, <1>11 DEF Busy, Lost
  <2>2. \A g \in Threads : ctl[g].tr # t0
    BY <1>1, <1>a, <2>1 DEF Busy
  <2>3. Alone(t0)'
    BY <1>1, <2>2 DEF Alone
  <2>4. Indexed(t0)'
    BY <1>1 DEF Indexed
  <2>5. Forgotten(t0)'
    <3>1. Len(cmds) + 1 \in 1 .. Len(cmds') /\ cmds'[Len(cmds) + 1] = c /\ Len(cmds') = Len(cmds) + 1
      BY <1>0, <1>1, <1>3, <2>1, PushFacts
    <3>2. Leaves(cmds'[Len(cmds) + 1], t0) /\ \A j \in 1 .. Len(cmds') : ~(j > Len(cmds) + 1)
      BY <1>0, <1>3, <3>1 DEF Leaves, Shape
    <3> QED BY <3>1, <3>2 DEF Forgotten
  <2> QED BY <2>3, <2>4, <2>5
<1> QED BY <1>5, <1>6, <1>7, <1>10, <1>11 DEF LinkInv, Owned, Clean

\* A check that passes the index latches its address.
LEMMA StunCheckStep ==
  ASSUME LinkBounds, LinkInv, NEW a \in Addrs, NEW u \in DOMAIN owner, StunCheck(a, u)
  PROVE  LinkInv'
<1>0. Shape /\ CredsOwned /\ QueueOwned /\ CtlOwned /\ Paths /\ Clean
  BY DEF LinkInv, Owned
<1>1. PICK t0 \in Trs : /\ t0 = owner[u] /\ u \in byUfrag /\ u \in Ufrags(t0) /\ check' = [tr |-> t0, ufrag |-> u, addr |-> a]
                       /\ byAddr' = [byAddr EXCEPT ![a] = t0]
                       /\ UNCHANGED <<creds, open, path, state, cmds, byUfrag, ctl, given, owner, crossed>>
  <2>1. owner[u] \in Trs
    BY <1>0 DEF Shape, Made
  <2> QED BY <2>1 DEF StunCheck
<1>2. Shape'
  <2>1. check' \in [tr : Trs, ufrag : Nat, addr : Addrs] /\ check'.ufrag = u /\ check'.tr = t0
    BY <1>0, <1>1 DEF Shape, Made
  <2>2. byAddr' \in [Addrs -> Trs \cup {0}]
    BY <1>0, <1>1 DEF Shape
  <2> QED BY <1>0, <1>1, <2>1, <2>2 DEF Shape, Made
<1>3. CredsOwned' /\ QueueOwned' /\ CtlOwned' /\ Paths'
  BY <1>0, <1>1 DEF CredsOwned, QueueOwned, CtlOwned, Paths, Made
<1>4. ASSUME NEW t \in Trs \ crossed' PROVE Alone(t)' /\ Indexed(t)' /\ Forgotten(t)'
  <2>1. t \in Trs \ crossed /\ Forgotten(t)
    BY <1>0, <1>1, <1>4 DEF Clean
  <2>2. Forgotten(t)'
    <3>1. CASE t0 = t
      BY <1>1, <2>1, <3>1 DEF Forgotten
    <3>2. CASE t0 # t
      <4>1. \A b \in Addrs : byAddr'[b] = t => byAddr[b] = t
        BY <1>0, <1>1, <3>2 DEF Shape
      <4> QED BY <1>1, <2>1, <4>1 DEF Forgotten
    <3> QED BY <3>1, <3>2
  <2>3. t \in open => \A i \in 1 .. Len(cmds') : ~Leaves(cmds'[i], t)
    BY <1>0, <1>1, <1>4 DEF Clean, Indexed, Leaves
  <2> QED BY <1>1, <1>4, <2>1, <2>2, <2>3, CleanSame
<1> QED BY <1>2, <1>3, <1>4 DEF LinkInv, Owned, Clean

\* A closed TCP connection unlatches its address.
LEMMA TcpClosedStep ==
  ASSUME LinkBounds, LinkInv, NEW a \in Addrs, TcpClosed(a)
  PROVE  LinkInv'
<1>0. Shape /\ CredsOwned /\ QueueOwned /\ CtlOwned /\ Paths /\ Clean
  BY DEF LinkInv, Owned
<1>1. /\ byAddr' = [byAddr EXCEPT ![a] = 0]
      /\ UNCHANGED <<creds, open, path, state, cmds, byUfrag, check, ctl, given, owner, crossed>>
  BY DEF TcpClosed, None
<1>2. Shape'
  <2>2. byAddr' \in [Addrs -> Trs \cup {0}]
    BY <1>0, <1>1 DEF Shape
  <2> QED BY <1>0, <1>1, <2>2 DEF Shape, Made
<1>3. CredsOwned' /\ QueueOwned' /\ CtlOwned' /\ Paths'
  <2>1. CredsOwned'
    BY <1>0, <1>1 DEF CredsOwned, Made
  <2>2. QueueOwned'
    BY <1>0, <1>1 DEF QueueOwned, Made
  <2>3. CtlOwned' /\ Paths'
    BY <1>0, <1>1 DEF CtlOwned, Paths, Made
  <2> QED BY <2>1, <2>2, <2>3
<1>4. ASSUME NEW t \in Trs \ crossed' PROVE Alone(t)' /\ Indexed(t)' /\ Forgotten(t)'
  <2>1. t \in Trs \ crossed /\ Forgotten(t)
    BY <1>0, <1>1, <1>4 DEF Clean
  <2>2. Forgotten(t)'
    <3>1. \A b \in Addrs : byAddr'[b] = t => byAddr[b] = t
      BY <1>0, <1>1 DEF Shape, LinkBounds
    <3> QED BY <1>1, <2>1, <3>1 DEF Forgotten
  <2>3. t \in open => \A i \in 1 .. Len(cmds') : ~Leaves(cmds'[i], t)
    BY <1>0, <1>1, <1>4 DEF Clean, Indexed, Leaves
  <2> QED BY <1>1, <1>4, <2>1, <2>2, <2>3, CleanSame
<1> QED BY <1>2, <1>3, <1>4 DEF LinkInv, Owned, Clean

\* A silent transport becomes suspect.
LEMMA LivenessStep ==
  ASSUME LinkBounds, LinkInv, NEW t0 \in Trs, Liveness(t0)
  PROVE  LinkInv'
<1>0. Shape /\ CredsOwned /\ QueueOwned /\ CtlOwned /\ Paths /\ Clean
  BY DEF LinkInv, Owned
<1>1. /\ path[t0] # None /\ state' = [state EXCEPT ![t0] = "Suspect"]
      /\ UNCHANGED <<creds, open, path, cmds, byUfrag, byAddr, check, ctl, given, owner, crossed>>
  BY DEF Liveness, SetState, MaySilence
<1>2. Owned'
  BY <1>0, <1>1, OwnedKept DEF Owned
<1>3. Paths'
  BY <1>0, <1>1 DEF Paths
<1>4. Clean'
  BY <1>0, <1>1, CleanKept
<1> QED BY <1>2, <1>3, <1>4 DEF LinkInv

\* A check that is answered moves the path and may adopt the pending credentials.
LEMMA StunDoneStep ==
  ASSUME LinkBounds, LinkInv, NEW nominated \in {TRUE, FALSE}, StunDone(nominated)
  PROVE  LinkInv'
<1>0. Shape /\ CredsOwned /\ QueueOwned /\ CtlOwned /\ Paths /\ Clean
  BY DEF LinkInv, Owned
<1>1. PICK t0 \in Trs, u \in byUfrag : check.tr = t0 /\ check.ufrag = u /\ owner[u] = t0 /\ check.addr \in Addrs /\ check' = NoCheck
  BY <1>0 DEF StunDone, Shape
<1>2. UNCHANGED <<open, cmds, byAddr, ctl, given, owner, crossed>>
  BY DEF StunDone
<1>3. Paths'
  <2>1. CASE nominated
    <3>1. path' = [path EXCEPT ![t0] = check.addr] /\ state' = [state EXCEPT ![t0] = "Alive"]
      BY <1>1, <2>1 DEF StunDone, SetState
    <3> QED BY <1>0, <1>1, <3>1 DEF Paths
  <2>2. CASE ~nominated
    <3>1. path' = path /\ state' = state
      BY <1>1, <2>2 DEF StunDone
    <3> QED BY <1>0, <3>1 DEF Paths
  <2> QED BY <2>1, <2>2
<1>4. CASE creds[t0].pending # u
  <2>1. creds' = creds /\ byUfrag' = byUfrag
    BY <1>1, <1>4 DEF StunDone
  <2>2. Shape' /\ CredsOwned' /\ QueueOwned' /\ CtlOwned'
    <3>1. Shape'
      BY <1>0, <1>1, <1>2, <2>1 DEF Shape, Made
    <3>2. CredsOwned'
      BY <1>0, <1>2, <2>1 DEF CredsOwned, Made
    <3>3. QueueOwned'
      BY <1>0, <1>2, <2>1 DEF QueueOwned, Made
    <3>4. CtlOwned'
      BY <1>0, <1>2 DEF CtlOwned, Made
    <3> QED BY <3>1, <3>2, <3>3, <3>4
  <2>3. Clean'
    BY <1>0, <1>2, <2>1, CleanKept
  <2> QED BY <1>3, <2>2, <2>3 DEF LinkInv, Owned
<1>5. CASE creds[t0].pending = u
  <2> DEFINE act == creds[t0].active
  <2>1. creds' = [creds EXCEPT ![t0] = [active |-> u, pending |-> None]] /\ byUfrag' = byUfrag \ {act}
    BY <1>1, <1>5 DEF StunDone
  <2>a. u \in given /\ u \in Made /\ u \in Nat /\ u # None /\ act # u /\ owner[act] = t0 /\ act \in Made
    BY <1>0, <1>1, <1>5 DEF Shape, None, CredsOwned
  <2>2. /\ creds' \in [Trs -> [active : Nat, pending : Nat]]
        /\ creds'[t0].active = u /\ creds'[t0].pending = None /\ \A t \in Trs : t # t0 => creds'[t] = creds[t]
    BY <1>0, <2>1, <2>a DEF Shape, None
  <2>3. Shape'
    <3>1. Made' = Made /\ byUfrag' \subseteq given' /\ check' = NoCheck
      BY <1>0, <1>1, <1>2, <2>1 DEF Shape, Made
    <3> QED BY <1>0, <1>2, <2>2, <3>1 DEF Shape
  <2>4. CredsOwned'
    BY <1>0, <1>1, <1>2, <2>2, <2>a DEF CredsOwned, Made
  <2>5. QueueOwned'
    BY <1>0, <1>1, <1>2, <2>1, <2>2 DEF QueueOwned, Made
  <2>6. CtlOwned'
    BY <1>0, <1>2 DEF CtlOwned, Made
  <2>7. ASSUME NEW t \in Trs \ crossed' PROVE Alone(t)' /\ Indexed(t)' /\ Forgotten(t)'
    <3>1. t \in Trs \ crossed /\ Alone(t) /\ Indexed(t) /\ Forgotten(t)
      BY <1>0, <1>2, <2>7 DEF Clean
    <3>2. Forgotten(t)'
      BY <1>2, <2>1, <3>1 DEF Forgotten
    <3>3. t \in open => \A i \in 1 .. Len(cmds') : ~Leaves(cmds'[i], t)
      BY <1>2, <3>1 DEF Indexed, Leaves
    <3>4. CASE t # t0
      <4>1. ASSUME NEW v \in Made, owner[v] = t PROVE Due(cmds', byUfrag', t, v) <=> Due(cmds, byUfrag, t, v)
        <5>1. v # act
          BY <2>a, <3>4, <4>1
        <5> QED BY <1>2, <2>1, <5>1 DEF Due
      <4>2. UNCHANGED (creds[t])
        BY <2>2, <3>4
      <4> QED BY <1>2, <2>7, <3>1, <3>2, <3>3, <4>1, <4>2, CleanSame
    <3>5. CASE t = t0
      <4>1. \A g \in Threads : ctl[g].tr # t0
        <5>1. ASSUME NEW g \in Threads, ctl[g].tr = t0 PROVE FALSE
          <6>1. ctl[g].pc # "idle"
            BY <1>0, <5>1 DEF CtlOwned, Idle, None, LinkBounds
          <6>2. ctl[g].new \notin given /\ creds[t0].pending = ctl[g].new
            BY <1>0, <3>1, <3>5, <5>1, <6>1 DEF CtlOwned, Alone
          <6> QED BY <1>5, <2>a, <6>2
        <5> QED BY <5>1
      <4>2. Alone(t)'
        BY <1>2, <3>5, <4>1 DEF Alone
      <4>3. Working(t0) = {} /\ Working(t0)' = {}
        BY <1>2, <4>1 DEF Working
      <4>4. Want(t0) = {act, u}
        BY <1>5, <2>a, <4>3 DEF Want, Ufrags
      <4>5. Want(t0)' = {u}
        BY <2>2, <2>a, <4>3 DEF Want, Ufrags
      <4>6. ASSUME NEW v \in Made PROVE Due(cmds', byUfrag', t0, v) <=> Due(cmds, byUfrag, t0, v) /\ v # act
        <5>1. CASE v # act
          BY <1>2, <2>1, <5>1 DEF Due
        <5>2. CASE v = act
          <6>1. \A i \in 1 .. Len(cmds) : ~IsAdd(cmds[i], act)
            BY <1>0 DEF QueueOwned, IsAdd
          <6> QED BY <1>2, <2>1, <5>2, <6>1 DEF Due
        <5> QED BY <5>1, <5>2
      <4>7. Indexed(t)'
        BY <1>2, <2>a, <3>1, <3>3, <3>5, <4>4, <4>5, <4>6 DEF Indexed, Made, Leaves
      <4> QED BY <3>2, <4>2, <4>7
    <3> QED BY <3>4, <3>5
  <2> QED BY <1>3, <2>3, <2>4, <2>5, <2>6, <2>7 DEF LinkInv, Owned, Clean
<1> QED BY <1>4, <1>5

\* The receive thread does one command.
LEMMA DrainStep ==
  ASSUME LinkBounds, LinkInv, Drain
  PROVE  LinkInv'
<1> DEFINE c == Head(cmds)
           n == Len(cmds) - 1
<1>0. Shape /\ CredsOwned /\ QueueOwned /\ CtlOwned /\ Paths /\ Clean
  BY DEF LinkInv, Owned
<1>1. /\ check = NoCheck /\ cmds # <<>> /\ cmds' = Tail(cmds)
      /\ UNCHANGED <<creds, open, path, state, check, ctl, given, owner, crossed>>
  BY DEF Drain
<1>a. cmds \in Seq(CmdRec)
  BY <1>0 DEF Shape
<1>2. /\ c \in CmdRec /\ c = cmds[1] /\ 1 \in 1 .. Len(cmds) /\ n \in Nat /\ Len(cmds') = n /\ cmds' \in Seq(CmdRec)
      /\ \A i \in 1 .. n : i + 1 \in 1 .. Len(cmds) /\ cmds'[i] = cmds[i + 1] /\ i + 1 # 1
  BY <1>1, <1>a
<1>3. \A i \in 1 .. Len(cmds) : i = 1 \/ (i - 1 \in 1 .. n /\ cmds[i] = cmds'[i - 1])
  <2>1. ASSUME NEW i \in 1 .. Len(cmds), i # 1 PROVE i - 1 \in 1 .. n /\ cmds[i] = cmds'[i - 1]
    <3>1. i - 1 \in 1 .. n /\ (i - 1) + 1 = i
      BY <1>2, <2>1
    <3> QED BY <1>2, <3>1
  <2> QED BY <2>1
<1>4. Len(cmds') <= CmdLimit
  BY <1>0, <1>2 DEF Shape, LinkBounds
<1> HIDE DEF c, n
<1>5. c.op \in Ops /\ c.tr \in Trs
  BY <1>2 DEF CmdRec
<1>6. /\ c.op = "register" => byUfrag' = byUfrag \cup {c.ufrag} /\ byAddr' = byAddr
      /\ c.op = "drop" => byUfrag' = byUfrag \ {c.ufrag} /\ byAddr' = byAddr
      /\ c.op = "unregister" => /\ byUfrag' = {u \in byUfrag : owner[u] # c.tr}
                                /\ byAddr' = [a \in Addrs |-> IF byAddr[a] = c.tr THEN 0 ELSE byAddr[a]]
  BY DEF Drain, c, None
<1>7. /\ c.op # "unregister" => c.ufrag \in Made /\ owner[c.ufrag] = c.tr
      /\ c.op = "register" => c.ufrag \in given /\ \A j \in 1 .. Len(cmds) : IsAdd(cmds[j], c.ufrag) => j = 1
  BY <1>0, <1>2 DEF QueueOwned
<1>8. byUfrag' \subseteq given
  BY <1>0, <1>5, <1>6, <1>7 DEF Shape, Ops
<1>9. byAddr' \in [Addrs -> Trs \cup {0}]
  <2>1. byAddr \in [Addrs -> Trs \cup {0}]
    BY <1>0 DEF Shape
  <2> QED BY <1>5, <1>6, <2>1 DEF Ops
<1>10. Shape'
  BY <1>0, <1>1, <1>2, <1>4, <1>8, <1>9 DEF Shape, Made
<1>11. CredsOwned' /\ CtlOwned' /\ Paths'
  BY <1>0, <1>1 DEF CredsOwned, CtlOwned, Paths, Made
<1>12. QueueOwned'
  <2>1. ASSUME NEW i \in 1 .. n
        PROVE /\ cmds'[i].op # "unregister" => cmds'[i].ufrag \in Made /\ owner[cmds'[i].ufrag] = cmds'[i].tr
              /\ cmds'[i].op = "register" =>
                    /\ cmds'[i].ufrag \in given \ byUfrag'
                    /\ \A t \in Trs : cmds'[i].ufrag # creds[t].active
                    /\ \A j \in 1 .. n : IsAdd(cmds'[j], cmds'[i].ufrag) => j = i
    <3>1. i + 1 \in 1 .. Len(cmds) /\ cmds'[i] = cmds[i + 1] /\ i + 1 # 1
      BY <1>2
    <3>2. /\ cmds'[i].op # "unregister" => cmds'[i].ufrag \in Made /\ owner[cmds'[i].ufrag] = cmds'[i].tr
          /\ cmds'[i].op = "register" =>
                    /\ cmds'[i].ufrag \in given \ byUfrag
                    /\ \A t \in Trs : cmds'[i].ufrag # creds[t].active
                    /\ \A j \in 1 .. Len(cmds) : IsAdd(cmds[j], cmds'[i].ufrag) => j = i + 1
      BY <1>0, <3>1 DEF QueueOwned
    <3>3. ASSUME cmds'[i].op = "register", NEW j \in 1 .. n, IsAdd(cmds'[j], cmds'[i].ufrag) PROVE j = i
      <4>1. j + 1 = i + 1
        BY <1>2, <3>2, <3>3
      <4> QED BY <1>2, <4>1
    <3>4. ASSUME cmds'[i].op = "register", c.op = "register" PROVE cmds'[i].ufrag # c.ufrag
      BY <1>7, <3>1, <3>4 DEF IsAdd
    <3>5. cmds'[i].op = "register" => cmds'[i].ufrag \notin byUfrag'
      BY <1>5, <1>6, <3>2, <3>4 DEF Ops
    <3> QED BY <3>2, <3>3, <3>5
  <2> QED BY <1>1, <1>2, <2>1 DEF QueueOwned, Made
<1>13. ASSUME NEW t \in Trs \ crossed' PROVE Alone(t)' /\ Indexed(t)' /\ Forgotten(t)'
  <2>1. t \in Trs \ crossed /\ Alone(t) /\ Indexed(t) /\ Forgotten(t)
    BY <1>0, <1>1, <1>13 DEF Clean
  <2>2. ASSUME NEW v \in Made, owner[v] = t PROVE Due(cmds', byUfrag', t, v) <=> Due(cmds, byUfrag, t, v)
    <3>1. v \in byUfrag' <=> IsAdd(c, v) \/ (v \in byUfrag /\ ~IsKill(c, v, t))
      BY <1>5, <1>6, <1>7, <2>2 DEF IsAdd, IsKill, Ops
    <3> QED BY <1>1, <1>a, <3>1, DueDrain DEF c
  <2>3. t \in open => \A i \in 1 .. Len(cmds') : ~Leaves(cmds'[i], t)
    BY <1>2, <2>1 DEF Indexed, Leaves
  <2>4. Forgotten(t)'
    <3>1. SUFFICES ASSUME t \notin open
          PROVE \/ \E i \in 1 .. n : Leaves(cmds'[i], t) /\ \A j \in 1 .. n : j > i => ~Enters(cmds'[j], t)
                \/ /\ \A u \in byUfrag' : owner[u] # t
                   /\ \A a \in Addrs : byAddr'[a] # t
                   /\ \A j \in 1 .. n : ~Enters(cmds'[j], t)
      BY <1>1, <1>2 DEF Forgotten
    <3>2. CASE \E i \in 1 .. Len(cmds) : Leaves(cmds[i], t) /\ \A j \in 1 .. Len(cmds) : j > i => ~Enters(cmds[j], t)
      <4>1. PICK i \in 1 .. Len(cmds) : Leaves(cmds[i], t) /\ \A j \in 1 .. Len(cmds) : j > i => ~Enters(cmds[j], t)
        BY <3>2
      <4>2. CASE i = 1
        <5>1. c.op = "unregister" /\ c.tr = t
          BY <1>2, <4>1, <4>2 DEF Leaves
        <5>2. \A j \in 1 .. n : ~Enters(cmds'[j], t)
          <6>1. ASSUME NEW j \in 1 .. n PROVE ~Enters(cmds'[j], t)
            <7>1. j + 1 > 1 /\ j + 1 \in 1 .. Len(cmds) /\ cmds'[j] = cmds[j + 1]
              BY <1>2
            <7> QED BY <4>1, <4>2, <7>1
          <6> QED BY <6>1
        <5>3. \A a \in Addrs : byAddr'[a] # t
          BY <1>6, <5>1 DEF LinkBounds
        <5> QED BY <1>6, <5>1, <5>2, <5>3
      <4>3. CASE i # 1
        <5>1. i - 1 \in 1 .. n /\ cmds[i] = cmds'[i - 1]
          BY <1>3, <4>3
        <5>2. ASSUME NEW j \in 1 .. n, j > i - 1 PROVE ~Enters(cmds'[j], t)
          <6>1. j + 1 > i /\ j + 1 \in 1 .. Len(cmds) /\ cmds'[j] = cmds[j + 1]
            BY <1>2, <5>2
          <6> QED BY <4>1, <6>1
        <5> QED BY <4>1, <5>1, <5>2
      <4> QED BY <4>2, <4>3
    <3>3. CASE /\ \A u \in byUfrag : owner[u] # t
               /\ \A a \in Addrs : byAddr[a] # t
               /\ \A j \in 1 .. Len(cmds) : ~Enters(cmds[j], t)
      <4>1. \A j \in 1 .. n : ~Enters(cmds'[j], t)
        BY <1>2, <3>3
      <4>2. ~Enters(c, t)
        BY <1>2, <3>3
      <4>3. \A u \in byUfrag' : owner[u] # t
        BY <1>5, <1>6, <1>7, <3>3, <4>2 DEF Enters, Ops
      <4>4. \A a \in Addrs : byAddr'[a] # t
        BY <1>5, <1>6, <3>3 DEF Ops, LinkBounds
      <4> QED BY <4>1, <4>3, <4>4
    <3> QED BY <2>1, <3>1, <3>2, <3>3 DEF Forgotten
  <2> QED BY <1>1, <1>13, <2>1, <2>2, <2>3, <2>4, CleanSame
<1> QED BY <1>10, <1>11, <1>12, <1>13 DEF LinkInv, Owned, Clean

\* The inductive invariant contains the two properties.
LEMMA LinkImplies ==
  ASSUME LinkBounds, LinkInv
  PROVE  IndexExact /\ LinkTypeOK
<1>0. Shape /\ CredsOwned /\ QueueOwned /\ CtlOwned /\ Paths /\ Clean
  BY DEF LinkInv, Owned
<1>1. LinkTypeOK
  <2>1. \A t \in Trs : Ufrags(t) \subseteq Made /\ \A u \in Ufrags(t) : owner[u] = t
    BY <1>0 DEF CredsOwned, Shape, Ufrags
  <2> QED BY <1>0, <2>1 DEF LinkTypeOK, Shape, Paths, Made
<1>2. ASSUME cmds = <<>>, \A h \in Threads : ctl[h] = Idle, NEW t \in Trs \ crossed
      PROVE /\ {u \in byUfrag : owner[u] = t} = IF t \in open THEN Ufrags(t) ELSE {}
            /\ t \notin open => \A a \in Addrs : byAddr[a] # t
  <2>1. Len(cmds) = 0 /\ Indexed(t) /\ Forgotten(t)
    BY <1>0, <1>2 DEF Clean
  <2>2. CASE t \in open
    <3>1. Working(t) = {}
      BY <1>2 DEF Working, Idle, None, LinkBounds
    <3>2. Want(t) = Ufrags(t)
      BY <3>1 DEF Want
    <3>3. \A u \in Made : owner[u] = t => (u \in byUfrag <=> u \in Ufrags(t))
      BY <2>1, <2>2, <3>2 DEF Indexed, Due
    <3>4. byUfrag \subseteq Made /\ Ufrags(t) \subseteq Made /\ \A u \in Ufrags(t) : owner[u] = t
      BY <1>0 DEF Shape, CredsOwned, Ufrags
    <3> QED BY <2>2, <3>3, <3>4
  <2>3. CASE t \notin open
    BY <2>1, <2>3 DEF Forgotten
  <2> QED BY <2>2, <2>3
<1> QED BY <1>1, <1>2 DEF IndexExact

\* For every number of transports, addresses and control threads and every queue
\* limit: once the commands are done, the index of a transport that lost none holds
\* exactly its current ufrags, and nothing of it once it is closed (link/mod.rs,
\* fwd/rt.rs).
THEOREM LinkIndexExact ==
  ASSUME LinkBounds PROVE Spec => [](IndexExact /\ LinkTypeOK)
<1>1. Init => LinkInv
  BY LinkInit
<1>2. LinkInv /\ [Next]_vars => LinkInv'
  <2>1. ASSUME LinkInv, UNCHANGED vars PROVE LinkInv'
    <3>1. /\ UNCHANGED <<creds, open, path, state, cmds, byUfrag>>
          /\ UNCHANGED <<byAddr, check, ctl, given, owner, crossed>>
      BY <2>1 DEF vars
    <3>2. Owned' /\ Paths'
      BY <2>1, <3>1, OwnedKept DEF LinkInv, Paths
    <3>3. Clean'
      BY <2>1, <3>1, CleanKept DEF LinkInv
    <3> QED BY <3>2, <3>3 DEF LinkInv
  <2>2. ASSUME LinkInv, Next PROVE LinkInv'
    BY <2>2, RestartStep, DropOldStep, RegisterStep, CloseStep, LivenessStep, StunCheckStep, StunDoneStep,
       DrainStep, TcpClosedStep DEF Next
  <2> QED BY <2>1, <2>2
<1>3. LinkInv => IndexExact /\ LinkTypeOK
  BY LinkImplies
<1> QED BY <1>1, <1>2, <1>3, PTL DEF Spec
=============================================================================
