-------------------------- MODULE FloorExecProofs --------------------------
(***************************************************************************)
(* The slots of a room end up as decided, whatever the order in which the  *)
(* effects reach them, for any number of users, grants and threads.        *)
(***************************************************************************)
EXTENDS FloorExec, TLAPS

\* The numbers of effects and slots never run ahead of the last grant, and a slot
\* has seen the grant it is bound by.
NumbersOK == /\ \A j \in jobs : j.g <= grantNo
             /\ \A k \in Kinds : slot[k].bound.g <= slot[k].seen /\ slot[k].seen <= grantNo

\* While the floor is held, the current grant has no Release, and a slot is bound
\* by it or has yet to receive its Bind and has seen only older numbers.
Arriving(k) == /\ slot[k].seen < grantNo
               /\ \E j \in jobs : Pending(j, k) /\ j.t = "Bind" /\ j.g = grantNo
HeldOK == holder # NoUser =>
            /\ grantNo > 0
            /\ \A j \in jobs : j.g = grantNo => j.t = "Bind" /\ j.u = holder
            /\ \A k \in Kinds : slot[k].bound = [u |-> holder, g |-> grantNo] \/ Arriving(k)

\* While it is free, a slot is unbound and closed to the last grant, or has yet to
\* receive its Release.
Closing(k) == \E j \in jobs : Pending(j, k) /\ j.t = "Release" /\ j.g = grantNo
FreeOK == holder = NoUser =>
            \A k \in Kinds : (slot[k].bound = Unbound /\ slot[k].seen = grantNo) \/ Closing(k)

ExecInv == ExecTypeOK /\ NumbersOK /\ HeldOK /\ FreeOK

\* Slot::apply yields a slot whose numbers are in order and within the grants.
LEMMA ApplyType ==
  ASSUME ExecTypeOK, NumbersOK, NEW k \in Kinds, NEW j \in jobs
  PROVE  /\ Apply(slot[k], j) \in [bound : [u : Users \cup {NoUser}, g : 0..MaxGrant], seen : 0..MaxGrant]
         /\ Apply(slot[k], j).bound.g <= Apply(slot[k], j).seen
         /\ Apply(slot[k], j).seen <= grantNo
  <1>1. /\ slot[k] \in [bound : [u : Users \cup {NoUser}, g : 0..MaxGrant], seen : 0..MaxGrant]
        /\ j \in Job /\ j.g <= grantNo /\ grantNo \in 0..MaxGrant
        /\ slot[k].bound.g <= slot[k].seen /\ slot[k].seen <= grantNo
    BY DEF ExecTypeOK, NumbersOK
  <1> QED BY <1>1, MaxGrantAssumption DEF Apply, Job, Unbound

\* While the floor is held, an effect either leaves a slot on the current grant,
\* puts it there, or leaves it waiting for the Bind of the current grant.
LEMMA ApplyHeld ==
  ASSUME ExecInv, holder # NoUser, NEW k \in Kinds, NEW j \in jobs
  PROVE  LET s == Apply(slot[k], j)
         IN  \/ s.bound = [u |-> holder, g |-> grantNo]
             \/ /\ s.seen < grantNo
                /\ ~(j.t = "Bind" /\ j.g = grantNo)
                /\ Arriving(k)
  <1>1. /\ slot[k] \in [bound : [u : Users \cup {NoUser}, g : 0..MaxGrant], seen : 0..MaxGrant]
        /\ j \in Job /\ j.g <= grantNo /\ grantNo \in 0..MaxGrant
        /\ slot[k].bound.g <= slot[k].seen /\ slot[k].seen <= grantNo
        /\ j.g = grantNo => j.t = "Bind" /\ j.u = holder
    BY DEF ExecInv, ExecTypeOK, NumbersOK, HeldOK
  <1>2. CASE slot[k].bound = [u |-> holder, g |-> grantNo]
    BY <1>1, <1>2, MaxGrantAssumption DEF Apply, Job
  <1>3. CASE Arriving(k)
    <2>1. slot[k].seen < grantNo
      BY <1>3 DEF Arriving
    <2> QED BY <1>1, <1>3, <2>1, MaxGrantAssumption DEF Apply, Job
  <1> QED BY <1>2, <1>3 DEF ExecInv, HeldOK

\* While the floor is free, an effect leaves a slot closed to the last grant,
\* closes it, or leaves it waiting for the Release of the last grant.
LEMMA ApplyFree ==
  ASSUME ExecInv, holder = NoUser, NEW k \in Kinds, NEW j \in jobs
  PROVE  LET s == Apply(slot[k], j)
         IN  \/ s.bound = Unbound /\ s.seen = grantNo
             \/ ~(j.t = "Release" /\ j.g = grantNo) /\ Closing(k)
  <1>1. /\ slot[k] \in [bound : [u : Users \cup {NoUser}, g : 0..MaxGrant], seen : 0..MaxGrant]
        /\ j \in Job /\ j.g <= grantNo /\ grantNo \in 0..MaxGrant
        /\ slot[k].bound.g <= slot[k].seen /\ slot[k].seen <= grantNo
    BY DEF ExecInv, ExecTypeOK, NumbersOK
  <1>2. CASE slot[k].bound = Unbound /\ slot[k].seen = grantNo
    BY <1>1, <1>2, MaxGrantAssumption DEF Apply, Job, Unbound
  <1>3. CASE Closing(k) /\ j.t = "Release" /\ j.g = grantNo
    BY <1>1, <1>3, MaxGrantAssumption DEF Apply, Job, Unbound
  <1> QED BY <1>2, <1>3 DEF ExecInv, FreeOK

\* A step that takes a job onward at slot k, leaving it pending at the slots where
\* it was pending before except k, keeps the invariant.
LEMMA ApplyStep ==
  ASSUME ExecInv, NEW k \in Kinds, NEW j \in jobs, NEW next \in SUBSET Job,
         slot' = [slot EXCEPT ![k] = Apply(slot[k], j)], Advance(j, next),
         UNCHANGED <<holder, waiting, grantNo, speaker>>,
         \A n \in next : n.t = j.t /\ n.u = j.u /\ n.g = j.g,
         \A l \in Kinds \ {k} : Pending(j, l) => \E n \in next : Pending(n, l)
  PROVE  ExecInv'
  <1> DEFINE s == Apply(slot[k], j)
  <1>0. /\ \A l \in Kinds : slot'[l] = IF l = k THEN s ELSE slot[l]
        /\ jobs' = (jobs \ {j}) \cup next
        /\ holder' = holder /\ grantNo' = grantNo
    BY DEF ExecInv, ExecTypeOK, Advance
  <1>1. ExecTypeOK'
    BY ApplyType DEF ExecInv, ExecTypeOK, Advance
  <1>2. NumbersOK'
    BY <1>0, ApplyType DEF ExecInv, NumbersOK
  <1>3. ASSUME NEW l \in Kinds, l # k, NEW i \in jobs, Pending(i, l)
        PROVE  \E i2 \in jobs' : Pending(i2, l) /\ i2.t = i.t /\ i2.g = i.g
    BY <1>0, <1>3
  <1>4. ASSUME holder # NoUser, NEW l \in Kinds
        PROVE  slot'[l].bound = [u |-> holder, g |-> grantNo] \/ Arriving(l)'
    <2>1. CASE l = k
      <3>1. CASE s.bound = [u |-> holder, g |-> grantNo]
        BY <1>0, <2>1, <3>1
      <3>2. CASE /\ s.seen < grantNo /\ ~(j.t = "Bind" /\ j.g = grantNo) /\ Arriving(k)
        BY <1>0, <2>1, <3>2 DEF Arriving, Pending
      <3> QED BY <1>4, <3>1, <3>2, ApplyHeld
    <2>2. CASE l # k
      BY <1>0, <1>3, <1>4, <2>2 DEF ExecInv, HeldOK, Arriving
    <2> QED BY <2>1, <2>2
  <1>5. HeldOK'
    <2>1. ASSUME holder # NoUser, NEW i \in jobs', i.g = grantNo PROVE i.t = "Bind" /\ i.u = holder
      BY <1>0, <2>1 DEF ExecInv, HeldOK
    <2>2. holder # NoUser => grantNo > 0
      BY DEF ExecInv, HeldOK
    <2> QED BY <1>0, <1>4, <2>1, <2>2 DEF HeldOK
  <1>6. ASSUME holder = NoUser, NEW l \in Kinds
        PROVE  (slot'[l].bound = Unbound /\ slot'[l].seen = grantNo) \/ Closing(l)'
    <2>1. CASE l = k
      <3>1. CASE s.bound = Unbound /\ s.seen = grantNo
        BY <1>0, <2>1, <3>1
      <3>2. CASE ~(j.t = "Release" /\ j.g = grantNo) /\ Closing(k)
        BY <1>0, <2>1, <3>2 DEF Closing, Pending
      <3> QED BY <1>6, <3>1, <3>2, ApplyFree
    <2>2. CASE l # k
      BY <1>0, <1>3, <1>6, <2>2 DEF ExecInv, FreeOK, Closing
    <2> QED BY <2>1, <2>2
  <1>7. FreeOK'
    BY <1>0, <1>6 DEF FreeOK
  <1> QED BY <1>1, <1>2, <1>5, <1>7 DEF ExecInv

\* A new grant: its number is above all others and its Bind is on its way to both
\* slots.
LEMMA BindStep ==
  ASSUME ExecInv, NEW u \in Users, holder' = u, fx' = Bind(u), waiting' \in SUBSET Waiter, Decide
  PROVE  ExecInv'
  <1> DEFINE new == [t |-> "Bind", u |-> u, g |-> grantNo + 1, taken |-> FALSE, pc |-> "slotA"]
  <1>1. grantNo' = grantNo + 1 /\ jobs' = jobs \cup {new} /\ UNCHANGED <<slot, speaker>>
    BY DEF Decide, EffectNumber, Bind
  <1>2. grantNo \in 0..MaxGrant /\ grantNo' \in 0..MaxGrant
    BY <1>1, MaxGrantAssumption DEF Decide, ExecInv, ExecTypeOK
  <1>3. new \in Job
    BY <1>1, <1>2, MaxGrantAssumption DEF Job
  <1>4. ExecTypeOK'
    BY <1>1, <1>2, <1>3 DEF ExecInv, ExecTypeOK
  <1>5. /\ \A j \in jobs : j.g \in Nat /\ j.g <= grantNo
        /\ \A k \in Kinds : slot[k].seen \in Nat /\ slot[k].seen <= grantNo
    BY MaxGrantAssumption DEF ExecInv, ExecTypeOK, NumbersOK, Job
  <1>6. NumbersOK'
    <2>1. \A j \in jobs' : j.g <= grantNo'
      BY <1>1, <1>2, <1>5
    <2>2. \A k \in Kinds : slot[k].bound.g <= slot[k].seen /\ slot[k].seen <= grantNo'
      BY <1>1, <1>2, <1>5 DEF ExecInv, NumbersOK
    <2> QED BY <1>1, <2>1, <2>2 DEF NumbersOK
  <1>7. HeldOK'
    <2>1. \A j \in jobs' : j.g = grantNo' => j.t = "Bind" /\ j.u = holder'
      BY <1>1, <1>2, <1>5
    <2>2. \A k \in Kinds : Arriving(k)'
      <3>1. \A k \in Kinds : Pending(new, k) /\ new.t = "Bind" /\ new.g = grantNo'
        BY <1>1 DEF Pending
      <3>2. \A k \in Kinds : slot'[k].seen < grantNo'
        BY <1>1, <1>2, <1>5
      <3> QED BY <1>1, <3>1, <3>2 DEF Arriving, Pending
    <2> QED BY <1>1, <1>2, <2>1, <2>2 DEF HeldOK
  <1>8. FreeOK'
    BY NoUserAssumption DEF FreeOK
  <1> QED BY <1>4, <1>6, <1>7, <1>8 DEF ExecInv

\* The floor falls free: the Release of the last grant is on its way to both slots.
LEMMA ReleaseStep ==
  ASSUME ExecInv, Free, Decide
  PROVE  ExecInv'
  <1> DEFINE new == [t |-> "Release", u |-> holder, g |-> grantNo, taken |-> FALSE, pc |-> "slotA"]
  <1>1. /\ grantNo' = grantNo /\ jobs' = jobs \cup {new} /\ UNCHANGED <<slot, speaker, waiting>>
        /\ holder # NoUser /\ holder' = NoUser
    BY DEF Decide, EffectNumber, Free, Release
  <1>2. grantNo \in 1..MaxGrant
    BY <1>1, MaxGrantAssumption DEF ExecInv, ExecTypeOK, HeldOK
  <1>3. new \in Job
    BY <1>2 DEF Job, ExecInv, ExecTypeOK
  <1>4. ExecTypeOK'
    BY <1>1, <1>3 DEF ExecInv, ExecTypeOK
  <1>5. NumbersOK'
    <2>1. \A j \in jobs' : j.g <= grantNo
      BY <1>1, <1>2 DEF ExecInv, NumbersOK
    <2> QED BY <1>1, <2>1 DEF ExecInv, NumbersOK
  <1>6. HeldOK'
    BY <1>1 DEF HeldOK
  <1>7. FreeOK'
    <2>1. \A k \in Kinds : Pending(new, k) /\ new.t = "Release" /\ new.g = grantNo
      BY DEF Pending
    <2> QED BY <1>1, <2>1 DEF FreeOK, Closing, Pending
  <1> QED BY <1>4, <1>5, <1>6, <1>7 DEF ExecInv

\* A step that moves no effect towards a slot keeps the invariant: a decision
\* without effect, or a store of a speaker pointer.
LEMMA QuietStep ==
  ASSUME ExecInv, waiting' \in SUBSET Waiter, jobs' \in SUBSET Job,
         speaker' \in [Kinds -> Users \cup {NoUser}], UNCHANGED <<holder, grantNo, slot>>,
         \A i \in jobs' \ jobs : \E j \in jobs : i.t = j.t /\ i.u = j.u /\ i.g = j.g,
         \A j \in jobs \ jobs' : \A k \in Kinds : ~Pending(j, k)
  PROVE  ExecInv'
  <1>1. ExecTypeOK'
    BY DEF ExecInv, ExecTypeOK
  <1>2. \A i \in jobs' : \E j \in jobs : i.t = j.t /\ i.u = j.u /\ i.g = j.g
    OBVIOUS
  <1>3. NumbersOK'
    BY <1>2 DEF ExecInv, NumbersOK
  <1>4. \A k \in Kinds : (Arriving(k) => Arriving(k)') /\ (Closing(k) => Closing(k)')
    BY DEF Arriving, Closing, Pending
  <1>5. HeldOK'
    BY <1>2, <1>4 DEF ExecInv, HeldOK
  <1>6. FreeOK'
    BY <1>4 DEF ExecInv, FreeOK
  <1> QED BY <1>1, <1>3, <1>5, <1>6 DEF ExecInv

\* Every decision keeps the invariant.
LEMMA DecideStep ==
  ASSUME ExecInv, Decide
  PROVE  ExecInv'
  <1>1. ASSUME NEW u \in Users, Grant(u) PROVE ExecInv'
    <2>1. holder' = u /\ fx' = Bind(u) /\ waiting' \in SUBSET Waiter
      BY <1>1 DEF Grant, ExecInv, ExecTypeOK
    <2> QED BY <2>1, BindStep
  <1>2. ASSUME NEW w \in Waiter, HandOn(w) PROVE ExecInv'
    <2>1. holder' = w.u /\ fx' = Bind(w.u) /\ waiting' \in SUBSET Waiter /\ w.u \in Users
      BY <1>2 DEF HandOn, ExecInv, ExecTypeOK, Waiter
    <2> QED BY <2>1, BindStep
  <1>3. CASE Free
    BY <1>3, ReleaseStep
  <1>4. ASSUME UNCHANGED holder, fx' = NoFx, waiting' \in SUBSET Waiter PROVE ExecInv'
    <2>1. UNCHANGED <<grantNo, jobs, slot, speaker>>
      BY <1>4 DEF Decide, EffectNumber, NoFx
    <2>2. speaker \in [Kinds -> Users \cup {NoUser}] /\ jobs \in SUBSET Job
      BY DEF ExecInv, ExecTypeOK
    <2> QED BY <1>4, <2>1, <2>2, QuietStep
  <1>5. ASSUME NEW w \in Waiter, Enqueue(w) \/ GiveUp(w) PROVE ExecInv'
    BY <1>4, <1>5 DEF Enqueue, GiveUp, ExecInv, ExecTypeOK
  <1>6. CASE Other
    BY <1>4, <1>6 DEF Other, ExecInv, ExecTypeOK
  <1> QED BY <1>1, <1>2, <1>3, <1>5, <1>6 DEF Decide, Next

\* Every step of an execution keeps the invariant.
LEMMA JobStep ==
  ASSUME ExecInv, NEW j \in jobs, ApplyAudio(j) \/ ApplyVideo(j) \/ MediaAudio(j) \/ MediaVideo(j)
  PROVE  ExecInv'
  <1>0. j \in Job /\ waiting \in SUBSET Waiter /\ speaker \in [Kinds -> Users \cup {NoUser}]
    BY DEF ExecInv, ExecTypeOK
  <1>1. CASE ApplyAudio(j)
    <2> DEFINE n == [j EXCEPT !.pc = "slotV", !.taken = Apply(slot["audio"], j).bound # slot["audio"].bound]
               next == {n}
    <2>1. n \in Job /\ n.t = j.t /\ n.u = j.u /\ n.g = j.g /\ Pending(n, "video")
      BY <1>0 DEF Job, Pending
    <2>2. /\ slot' = [slot EXCEPT !["audio"] = Apply(slot["audio"], j)] /\ Advance(j, next)
          /\ UNCHANGED <<holder, waiting, grantNo, speaker>>
      BY <1>1 DEF ApplyAudio
    <2> HIDE DEF n
    <2>3. \A l \in Kinds \ {"audio"} : Pending(j, l) => \E m \in next : Pending(m, l)
      BY <2>1 DEF Kinds
    <2>4. next \in SUBSET Job /\ \A m \in next : m.t = j.t /\ m.u = j.u /\ m.g = j.g
      BY <2>1
    <2> HIDE DEF next
    <2>5. "audio" \in Kinds
      BY DEF Kinds
    <2> QED BY <2>2, <2>3, <2>4, <2>5, ApplyStep
  <1>2. CASE ApplyVideo(j)
    <2> DEFINE next == IF j.taken \/ Apply(slot["video"], j).bound # slot["video"].bound
                       THEN {[j EXCEPT !.pc = "mediaA", !.taken = TRUE]} ELSE {}
    <2>1. next \in SUBSET Job /\ \A n \in next : n.t = j.t /\ n.u = j.u /\ n.g = j.g
      BY <1>0 DEF Job
    <2>2. /\ slot' = [slot EXCEPT !["video"] = Apply(slot["video"], j)] /\ Advance(j, next)
          /\ UNCHANGED <<holder, waiting, grantNo, speaker>>
      BY <1>2 DEF ApplyVideo
    <2> HIDE DEF next
    <2>3. \A l \in Kinds \ {"video"} : ~Pending(j, l)
      BY <1>2 DEF ApplyVideo, Pending
    <2> QED BY <2>1, <2>2, <2>3, ApplyStep DEF Kinds
  <1>3. CASE MediaAudio(j)
    <2> DEFINE n == [j EXCEPT !.pc = "mediaV"]
    <2>1. n \in Job /\ n.t = j.t /\ n.u = j.u /\ n.g = j.g
      BY <1>0 DEF Job
    <2>2. /\ jobs' = (jobs \ {j}) \cup {n} /\ UNCHANGED <<holder, waiting, grantNo, slot>>
          /\ speaker' \in [Kinds -> Users \cup {NoUser}]
          /\ \A k \in Kinds : ~Pending(j, k)
      BY <1>0, <1>3 DEF MediaAudio, Advance, Pending, Job
    <2> HIDE DEF n
    <2>3. jobs' \in SUBSET Job
      BY <2>1, <2>2 DEF ExecInv, ExecTypeOK
    <2> QED BY <1>0, <2>1, <2>2, <2>3, QuietStep
  <1>4. CASE MediaVideo(j)
    <2>1. /\ jobs' = jobs \ {j} /\ UNCHANGED <<holder, waiting, grantNo, slot>>
          /\ speaker' \in [Kinds -> Users \cup {NoUser}]
          /\ \A k \in Kinds : ~Pending(j, k)
      BY <1>0, <1>4 DEF MediaVideo, Advance, Pending, Job
    <2>2. jobs' \in SUBSET Job
      BY <2>1 DEF ExecInv, ExecTypeOK
    <2> QED BY <1>0, <2>1, <2>2, QuietStep
  <1> QED BY <1>1, <1>2, <1>3, <1>4

\* The inductive invariant of the executions.
LEMMA ExecInvariant == ExecSpec => []ExecInv
  <1>1. ExecInit => ExecInv
    BY MaxGrantAssumption DEF ExecInit, Init, ExecInv, ExecTypeOK, NumbersOK, HeldOK, FreeOK, NewSlot, Unbound, Kinds
  <1>2. ExecInv /\ [ExecNext]_execVars => ExecInv'
    <2>1. ASSUME ExecInv, UNCHANGED execVars PROVE ExecInv'
      BY <2>1 DEF execVars, ExecInv, ExecTypeOK, NumbersOK, HeldOK, FreeOK, Arriving, Closing, Pending
    <2> QED BY <2>1, DecideStep, JobStep DEF ExecNext
  <1> QED BY <1>1, <1>2, PTL DEF ExecSpec

\* Executions of floor decisions keep their types, and every effect on its way
\* carries a grant number that was issued (ops/floor.rs `run`, `execute`).
THEOREM FloorExecTypeOK == ExecSpec => []ExecTypeOK
  <1>1. ExecInv => ExecTypeOK
    BY DEF ExecInv
  <1> QED BY <1>1, ExecInvariant, PTL

\* However many threads carry out decisions and in whatever order they reach a
\* slot, a slot with no effect on its way is bound as last decided (flr/bind.rs
\* `apply` called from ops/floor.rs `execute`).
THEOREM FloorSlotsSettle == ExecSpec => []SlotsSettle
  <1>1. ExecInv => SlotsSettle
    BY DEF ExecInv, HeldOK, FreeOK, Arriving, Closing, SlotsSettle, Decided
  <1> QED BY <1>1, ExecInvariant, PTL
=============================================================================
