-------------------------- MODULE FloorAgreeProofs --------------------------
(***************************************************************************)
(* What follows from the layers of FloorProofs, for every value of the     *)
(* constants: nobody is overtaken in the queue; the floor implements       *)
(* FloorAbs under holder <- Holder, waiting <- the set of waiters; and, in *)
(* rooms whose waiters stay silent (SpecMuted), the arbiter and the        *)
(* participant machines agree on every user and everyone hears who holds   *)
(* the floor.                                                              *)
(***************************************************************************)
EXTENDS FloorProofs

-----------------------------------------------------------------------------
(* The order of the waiters *)

\* The set of the elements of a sequence.
LEMMA RangeIs ==
  ASSUME NEW S, NEW q \in Seq(S)
  PROVE  Range(q) = {q[i] : i \in 1..Len(q)}
BY DEF Range

\* Waiters who moved from places of q to places of r without passing one another.
Kept(q, r, K, f) ==
  /\ K \subseteq 1..Len(r) /\ f \in [K -> 1..Len(q)]
  /\ \A k, l \in K : k < l => f[k] < f[l]
  /\ \A k \in K : r[k] = q[f[k]]
  /\ \A k \in 1..Len(r) : k \notin K => \A i \in 1..Len(q) : q[i].u # r[k].u

\* Waiters of both q and r stand in the same order in both.
InOrder(q, r) ==
  \A i, j \in 1..Len(q), k, l \in 1..Len(r) : (i < j /\ r[k] = q[i] /\ r[l] = q[j]) => k < l

\* Waiters of a user each, moved without passing one another, keep their order.
LEMMA KeptInOrder ==
  ASSUME NEW q \in Seq(Waiter), \A i, j \in 1..Len(q) : q[i].u = q[j].u => i = j,
         NEW r \in Seq(Waiter), NEW K, NEW f, Kept(q, r, K, f)
  PROVE  InOrder(q, r)
<1> SUFFICES ASSUME NEW i \in 1..Len(q), NEW j \in 1..Len(q), NEW k \in 1..Len(r), NEW l \in 1..Len(r),
                    i < j, r[k] = q[i], r[l] = q[j]
             PROVE  k < l
  BY DEF InOrder
<1>1. k \in K /\ l \in K
  BY DEF Kept
<1>2. PICK a \in 1..Len(q) : a = f[k] /\ r[k] = q[a]
  BY <1>1 DEF Kept
<1>3. PICK b \in 1..Len(q) : b = f[l] /\ r[l] = q[b]
  BY <1>1 DEF Kept
<1>4. a = i /\ b = j
  BY <1>2, <1>3
<1>5. l < k => b < a
  BY <1>1, <1>2, <1>3 DEF Kept
<1>6. k = l => a = b
  BY <1>2, <1>3
<1> QED BY <1>4, <1>5, <1>6

\* Each of the seven ways keeps the order of those who stay, and lets a newcomer
\* in only before waiters it outranks.
LEMMA Overtakes ==
  ASSUME TypeInv, TypeInv', QueueInv, Shape
  PROVE  /\ InOrder(queue, queue')
         /\ \A k, l \in 1..Len(queue') :
              (k < l /\ queue'[k] \notin Range(queue) /\ queue'[l] \in Range(queue))
                => queue'[k].pre \/ queue'[k].p > queue'[l].p
<1> DEFINE q == queue
           r == queue'
           Ranked == \A k, l \in 1..Len(r) :
                       (k < l /\ r[k] \notin Range(q) /\ r[l] \in Range(q)) => r[k].pre \/ r[k].p > r[l].p
<1>0. /\ q \in Seq(Waiter) /\ r \in Seq(Waiter) /\ Len(q) \in Nat /\ Len(r) \in Nat
      /\ HolderPrio \in Nat
  BY DEF TypeInv, TypeOK, HolderPrio
<1>1. IF g = "Idle" THEN queue = <<>> ELSE QOK(queue, g, HolderPrio)
  BY QueueInvIsQOK DEF QueueOK
<1>2. \A i, j \in 1..Len(q) : q[i].u = q[j].u => i = j
  BY DEF QueueInv, WaitersDistinct
<1>3. Range(q) = {q[i] : i \in 1..Len(q)}
  BY <1>0, RangeIs
<1>4. SUFFICES InOrder(q, r) /\ Ranked
  OBVIOUS
<1>5. CASE Grants \/ Revokes \/ Keeps
  <2>1. r = q
    BY <1>5 DEF Grants, Revokes, Keeps
  <2> HIDE DEF q, r
  <2>2. Kept(q, r, 1..Len(q), [k \in 1..Len(q) |-> k])
    BY <2>1 DEF Kept
  <2>3. Ranked
    BY <1>0, <1>3, <2>1
  <2> QED BY <1>0, <1>2, <2>2, <2>3, KeptInOrder
<1>6. CASE Ends
  <2>1. CASE q = <<>>
    BY <1>6, <2>1 DEF Ends, IdleEnter, InOrder
  <2>2. CASE q # <<>>
    <3>1. r = Tail(q)
      BY <1>6, <2>2 DEF Ends, IdleEnter
    <3> HIDE DEF q, r
    <3>2. Len(r) = Len(q) - 1 /\ Len(q) >= 1 /\ \A k \in 1..Len(q) - 1 : r[k] = q[k + 1]
      BY <1>0, <2>2, <3>1, HeadTail
    <3>3. Kept(q, r, 1..Len(r), [k \in 1..Len(r) |-> k + 1])
      BY <1>0, <3>2 DEF Kept
    <3>4. Ranked
      <4>1. \A k \in 1..Len(r) : k + 1 \in 1..Len(q) /\ r[k] = q[k + 1]
        BY <1>0, <3>2
      <4> QED BY <1>3, <4>1
    <3> QED BY <1>0, <1>2, <3>3, <3>4, KeptInOrder
  <2> QED BY <2>1, <2>2
<1>7. CASE Preempts
  <2>1. PICK u \in Users, p \in Prios :
          ~InQ(q, u) /\ r = <<[u |-> u, p |-> p, pre |-> TRUE]>> \o q
    BY <1>7 DEF Preempts
  <2> DEFINE w == [u |-> u, p |-> p, pre |-> TRUE]
  <2>2. w \in Waiter /\ w.u = u /\ w.pre
    BY DEF Waiter
  <2> HIDE DEF w, q, r
  <2>3. Len(r) = Len(q) + 1 /\ \A k \in 1..Len(q) + 1 : r[k] = IF k = 1 THEN w ELSE q[k - 1]
    <3>1. r = <<w>> \o q
      BY <2>1 DEF w
    <3> QED BY <1>0, <2>2, <3>1
  <2>4. \A k \in 2..Len(r) : k - 1 \in 1..Len(q) /\ r[k] = q[k - 1]
    BY <1>0, <2>3
  <2>5. 1 \in 1..Len(r) /\ r[1] = w /\ \A i \in 1..Len(q) : q[i].u # w.u
    BY <1>0, <2>1, <2>2, <2>3 DEF InQ
  <2>6. Kept(q, r, 2..Len(r), [k \in 2..Len(r) |-> k - 1])
    BY <1>0, <2>4, <2>5 DEF Kept
  <2>7. Ranked
    <3>1. \A k \in 1..Len(r) : k = 1 \/ k \in 2..Len(r)
      BY <1>0
    <3> QED BY <1>3, <2>2, <2>4, <2>5, <3>1
  <2> QED BY <1>0, <1>2, <2>6, <2>7, KeptInOrder
<1>8. CASE Enqueues
  <2>1. PICK u \in Users, p \in Prios :
          ~InQ(q, u) /\ r = InsertQ(q, [u |-> u, p |-> p, pre |-> FALSE]) /\ p <= HolderPrio
    BY <1>8 DEF Enqueues
  <2> DEFINE w == [u |-> u, p |-> p, pre |-> FALSE]
  <2>2. w \in Waiter /\ w.u = u /\ w.p = p
    BY DEF Waiter
  <2>3. QOK(q, g, HolderPrio)
    BY <1>1, <1>8 DEF Enqueues
  <2> HIDE DEF w, q, r
  <2>a. PICK n \in 1..Len(q) + 1 : PlacedAt(q, r, w, n)
    <3>1. r = InsertQ(q, w) /\ w.pre = FALSE /\ ~InQ(q, u) /\ p <= HolderPrio
      BY <2>1 DEF w
    <3> QED BY <1>0, <2>2, <2>3, <3>1, InsertPlace
  <2>4. /\ \A k \in 1..Len(q) + 1 : r[k] = IF k < n THEN q[k] ELSE IF k = n THEN w ELSE q[k - 1]
        /\ \A j \in n..Len(q) : p > q[j].p /\ ~q[j].pre
    BY <2>2, <2>a DEF PlacedAt
  <2>5. Len(r) = Len(q) + 1
    <3>1. r = InsertQ(q, w)
      BY <2>1 DEF w
    <3> QED BY <1>0, <2>2, <3>1, InsertQFacts
  <2> DEFINE src == [k \in 1..Len(r) \ {n} |-> IF k < n THEN k ELSE k - 1]
  <2>6. \A k \in 1..Len(r) \ {n} : src[k] \in 1..Len(q) /\ r[k] = q[src[k]]
    BY <1>0, <2>4, <2>5
  <2>7. r[n] = w /\ \A i \in 1..Len(q) : q[i].u # w.u
    <3>1. \A i \in 1..Len(q) : q[i].u # u
      BY <2>1, Zenon DEF InQ
    <3>2. r[n] = w
      BY <1>0, <2>4, <2>5
    <3> QED BY <2>2, <3>1, <3>2
  <2>8. \A k, l \in 1..Len(r) \ {n} : k < l => src[k] < src[l]
    BY <1>0, <2>4, <2>5
  <2>9. Kept(q, r, 1..Len(r) \ {n}, src)
    <3>1. src \in [1..Len(r) \ {n} -> 1..Len(q)]
      BY <2>6
    <3> HIDE DEF src
    <3> QED BY <2>6, <2>7, <2>8, <3>1 DEF Kept
  <2>10. Ranked
    <3> SUFFICES ASSUME NEW k \in 1..Len(r), NEW l \in 1..Len(r), k < l, r[k] \notin Range(q)
                 PROVE  r[k].p > r[l].p
      OBVIOUS
    <3>1. k = n
      BY <1>3, <2>6
    <3>2. l - 1 \in n..Len(q) /\ r[l] = q[l - 1]
      BY <1>0, <2>4, <2>5, <3>1
    <3> QED BY <2>2, <2>4, <2>7, <3>1, <3>2
  <2> QED BY <1>0, <1>2, <2>9, <2>10, KeptInOrder
<1>9. CASE Dequeues
  <2>1. PICK u \in Users : r = Dequeue(q, u)
    BY <1>9 DEF Dequeues
  <2>2. CASE r = q
    <3> HIDE DEF q, r
    <3>1. Kept(q, r, 1..Len(q), [k \in 1..Len(q) |-> k])
      BY <2>2 DEF Kept
    <3>2. Ranked
      BY <1>0, <1>3, <2>2
    <3> QED BY <1>0, <1>2, <3>1, <3>2, KeptInOrder
  <2>3. CASE r # q
    <3>1. PICK n \in 1..Len(q) : \A k \in 1..Len(q) - 1 : r[k] = IF k < n THEN q[k] ELSE q[k + 1]
      <4> HIDE DEF q, r
      <4>1. Dequeue(q, u) # q
        BY <2>1, <2>3
      <4>2. PICK n \in 1..Len(q) :
              \A k \in 1..Len(q) - 1 : Dequeue(q, u)[k] = IF k < n THEN q[k] ELSE q[k + 1]
        BY <1>0, <4>1, DequeueFacts
      <4> QED BY <2>1, <4>2
    <3>2. Len(r) = Len(q) - 1
      BY <1>0, <2>1, <2>3, DequeueFacts
    <3> HIDE DEF q, r
    <3> DEFINE src == [k \in 1..Len(r) |-> IF k < n THEN k ELSE k + 1]
    <3>3. \A k \in 1..Len(r) : src[k] \in 1..Len(q) /\ r[k] = q[src[k]]
      BY <1>0, <3>1, <3>2
    <3>4. \A k, l \in 1..Len(r) : k < l => src[k] < src[l]
      BY <1>0, <3>1, <3>2
    <3>5. Kept(q, r, 1..Len(r), src)
      <4>1. src \in [1..Len(r) -> 1..Len(q)]
        BY <3>3
      <4> HIDE DEF src
      <4> QED BY <3>3, <3>4, <4>1 DEF Kept
    <3>6. Ranked
      BY <1>3, <3>3
    <3> QED BY <1>0, <1>2, <3>5, <3>6, KeptInOrder
  <2> QED BY <2>2, <2>3
<1> QED BY <1>5, <1>6, <1>7, <1>8, <1>9 DEF Shape

\* First come, first served within a rank: users who keep waiting keep their order,
\* and insert_q lets a newcomer pass only those it outranks.
THEOREM FloorNoOvertaking == Spec => NoOvertaking
<1>1. TypeInv /\ TypeInv' /\ PartInv /\ QueueInv /\ [Next]_vars =>
        [/\ \A i, j \in 1..Len(queue), k, l \in 1..Len(queue') :
              (i < j /\ queue'[k] = queue[i] /\ queue'[l] = queue[j]) => k < l
         /\ \A k, l \in 1..Len(queue') :
              (k < l /\ queue'[k] \notin Range(queue) /\ queue'[l] \in Range(queue))
                => queue'[k].pre \/ queue'[k].p > queue'[l].p]_vars
  BY StepShape, Overtakes, Zenon DEF InOrder
<1> QED BY <1>1, FloorInvariant, PTL DEF Spec, NoOvertaking

-----------------------------------------------------------------------------
(* The refinement of FloorAbs *)

\* Serving the head removes exactly that waiter.
LEMMA TailSet ==
  ASSUME NEW q \in Seq(Waiter), q # <<>>,
         \A i, j \in 1..Len(q) : q[i].u = q[j].u => i = j
  PROVE  Range(Tail(q)) = Range(q) \ {Head(q)} /\ Head(q) \in Range(q)
<1> DEFINE r == Tail(q)
<1>1. /\ r \in Seq(Waiter) /\ Len(r) = Len(q) - 1 /\ \A k \in 1..Len(q) - 1 : r[k] = q[k + 1]
      /\ Head(q) = q[1] /\ Len(q) \in Nat /\ Len(q) >= 1
  BY HeadTail
<1> HIDE DEF r
<1>2. Range(r) = {r[i] : i \in 1..Len(r)} /\ Range(q) = {q[i] : i \in 1..Len(q)}
  BY <1>1, RangeIs
<1>3. ASSUME NEW x \in Range(r) PROVE x \in Range(q) \ {q[1]}
  <2>1. PICK k \in 1..Len(r) : x = r[k]
    BY <1>2
  <2>2. x = q[k + 1] /\ k + 1 \in 1..Len(q) /\ k + 1 # 1 /\ 1 \in 1..Len(q)
    BY <1>1, <2>1
  <2> QED BY <1>2, <2>2
<1>4. ASSUME NEW x \in Range(q) \ {q[1]} PROVE x \in Range(r)
  <2>1. PICK k \in 1..Len(q) : x = q[k]
    BY <1>2
  <2>2. k - 1 \in 1..Len(r) /\ x = r[k - 1]
    BY <1>1, <2>1
  <2> QED BY <1>2, <2>2
<1>5. Head(q) \in Range(q)
  BY <1>1, <1>2
<1> QED BY <1>1, <1>3, <1>4, <1>5 DEF r

\* insert_q adds exactly the new waiter.
LEMMA InsertSet ==
  ASSUME NEW q \in Seq(Waiter), NEW w \in Waiter
  PROVE  Range(InsertQ(q, w)) = Range(q) \cup {w}
<1> DEFINE r == InsertQ(q, w)
<1>1. PICK n \in 1..Len(q) + 1 :
        \A k \in 1..Len(q) + 1 : r[k] = IF k < n THEN q[k] ELSE IF k = n THEN w ELSE q[k - 1]
  BY InsertQFacts
<1>2. r \in Seq(Waiter) /\ Len(r) = Len(q) + 1 /\ Len(q) \in Nat
  BY InsertQFacts
<1> HIDE DEF r
<1>3. Range(r) = {r[i] : i \in 1..Len(r)} /\ Range(q) = {q[i] : i \in 1..Len(q)}
  BY <1>2, RangeIs
<1>4. ASSUME NEW x \in Range(r) PROVE x \in Range(q) \cup {w}
  <2>1. PICK k \in 1..Len(r) : x = r[k]
    BY <1>3
  <2>2. CASE k < n
    BY <1>1, <1>2, <1>3, <2>1, <2>2
  <2>3. CASE k = n
    BY <1>1, <1>2, <2>1, <2>3
  <2>4. CASE k > n
    <3>1. k - 1 \in 1..Len(q) /\ x = q[k - 1]
      BY <1>1, <1>2, <2>1, <2>4
    <3> QED BY <1>3, <3>1
  <2> QED BY <2>2, <2>3, <2>4
<1>5. ASSUME NEW x \in Range(q) PROVE x \in Range(r)
  <2>1. PICK k \in 1..Len(q) : x = q[k]
    BY <1>3
  <2>2. CASE k < n
    BY <1>1, <1>2, <1>3, <2>1, <2>2
  <2>3. CASE k >= n
    <3>1. k + 1 \in 1..Len(r) /\ x = r[k + 1]
      BY <1>1, <1>2, <2>1, <2>3
    <3> QED BY <1>3, <3>1
  <2> QED BY <2>2, <2>3
<1>6. w \in Range(r)
  BY <1>1, <1>2, <1>3
<1> QED BY <1>4, <1>5, <1>6 DEF r

\* dequeue removes at most one waiter.
LEMMA DequeueSet ==
  ASSUME NEW q \in Seq(Waiter), NEW u,
         \A i, j \in 1..Len(q) : q[i].u = q[j].u => i = j
  PROVE  \/ Dequeue(q, u) = q
         \/ \E w \in Range(q) : Range(Dequeue(q, u)) = Range(q) \ {w}
<1> DEFINE r == Dequeue(q, u)
<1>0. SUFFICES ASSUME r # q PROVE \E w \in Range(q) : Range(r) = Range(q) \ {w}
  OBVIOUS
<1>1. PICK n \in 1..Len(q) :
        \A k \in 1..Len(q) - 1 : r[k] = IF k < n THEN q[k] ELSE q[k + 1]
  BY <1>0, DequeueFacts
<1>2. r \in Seq(Waiter) /\ Len(r) = Len(q) - 1 /\ Len(q) \in Nat
  BY <1>0, DequeueFacts
<1> HIDE DEF r
<1>3. Range(r) = {r[i] : i \in 1..Len(r)} /\ Range(q) = {q[i] : i \in 1..Len(q)}
  BY <1>2, RangeIs
<1>4. ASSUME NEW x \in Range(r) PROVE x \in Range(q) \ {q[n]}
  <2>1. PICK k \in 1..Len(r) : x = r[k]
    BY <1>3
  <2>2. CASE k < n
    <3>1. x = q[k] /\ k \in 1..Len(q) /\ k # n
      BY <1>1, <1>2, <2>1, <2>2
    <3> QED BY <1>3, <3>1
  <2>3. CASE k >= n
    <3>1. x = q[k + 1] /\ k + 1 \in 1..Len(q) /\ k + 1 # n
      BY <1>1, <1>2, <2>1, <2>3
    <3> QED BY <1>3, <3>1
  <2> QED BY <2>2, <2>3
<1>5. ASSUME NEW x \in Range(q) \ {q[n]} PROVE x \in Range(r)
  <2>1. PICK k \in 1..Len(q) : x = q[k] /\ k # n
    BY <1>3
  <2>2. CASE k < n
    BY <1>1, <1>2, <1>3, <2>1, <2>2
  <2>3. CASE k > n
    <3>1. k - 1 \in 1..Len(r) /\ x = r[k - 1]
      BY <1>1, <1>2, <2>1, <2>3
    <3> QED BY <1>3, <3>1
  <2> QED BY <2>1, <2>2, <2>3
<1>6. q[n] \in Range(q)
  BY <1>3
<1> QED BY <1>4, <1>5, <1>6

\* Every step of the floor is a step FloorAbs allows.
LEMMA AbsStep ==
  ASSUME TypeInv, TypeInv', QueueInv, Shape
  PROVE  Abs!Next
<1> USE DEF TypeInv, TypeOK
<1>0. /\ queue \in Seq(Waiter) /\ Range(queue) = {queue[i] : i \in 1..Len(queue)}
      /\ \A i, j \in 1..Len(queue) : queue[i].u = queue[j].u => i = j
  BY RangeIs DEF QueueInv, WaitersDistinct
<1>1. CASE Grants
  <2>1. PICK u \in Users : /\ g = "Idle" /\ g' = "Taken" /\ speaker' = u /\ fx' = Bind(u)
                           /\ UNCHANGED queue
    BY <1>1 DEF Grants
  <2>2. Abs!Grant(u)
    BY <2>1 DEF Abs!Grant, Abs!Bind, Bind, Holder
  <2> QED BY <2>2 DEF Abs!Next
<1>2. CASE Ends
  <2>0. Holder # NoUser
    BY <1>2, HolderIsUser, UsersAssumption DEF Ends
  <2>1. CASE queue = <<>>
    <3>1. g' = "Idle" /\ fx' = Release(Holder) /\ queue' = <<>>
      BY <1>2, <2>1 DEF Ends, IdleEnter
    <3>2. Range(queue) = {} /\ Range(queue)' = Range(queue)
      <4>1. queue' = queue
        BY <2>1, <3>1
      <4>2. Range(queue) = {}
        BY <2>1 DEF Range
      <4> QED BY <4>1, <4>2
    <3>3. Abs!Free
      BY <2>0, <3>1, <3>2 DEF Abs!Free, Abs!Release, Release, Holder
    <3> QED BY <3>3 DEF Abs!Next
  <2>2. CASE queue # <<>>
    <3> DEFINE w == Head(queue)
    <3>1. g' = "Taken" /\ speaker' = w.u /\ fx' = Bind(w.u) /\ queue' = Tail(queue)
      BY <1>2, <2>2 DEF Ends, IdleEnter, EnterTaken
    <3>2. Range(queue)' = Range(queue) \ {w} /\ w \in Range(queue) /\ w \in Waiter
      BY <1>0, <2>2, <3>1, TailSet, HeadTail
    <3>3. \A x \in Range(queue) : ~Before(x, w)
      <4>1. w = queue[1] /\ 1 \in 1..Len(queue)
        BY <1>0, <2>2, HeadTail
      <4> SUFFICES ASSUME NEW i \in 1..Len(queue) PROVE ~Before(queue[i], w)
        BY <1>0
      <4>2. /\ queue[i].p \in Nat /\ queue[1].p \in Nat
            /\ queue[i].pre \in BOOLEAN /\ queue[1].pre \in BOOLEAN
        BY <1>0, <4>1, WaiterPrio
      <4>3. i = 1 \/ (queue[1].p >= queue[i].p /\ ~queue[i].pre)
        BY <1>0, <4>1 DEF QueueInv, QueueOrdered
      <4> HIDE DEF w
      <4> QED BY <4>1, <4>2, <4>3 DEF Before
    <3> HIDE DEF w
    <3>4. w \in Abs!Waiter
      BY <3>2 DEF Abs!Waiter, Waiter
    <3>5. Holder' = w.u
      BY <3>1 DEF Holder
    <3>6. Abs!HandOn(w)
      BY <2>0, <3>1, <3>2, <3>3, <3>5, Zenon DEF Abs!HandOn, Abs!Before, Before, Abs!Bind, Bind
    <3> QED BY <3>4, <3>6 DEF Abs!Next
  <2> QED BY <2>1, <2>2
<1>3. CASE Preempts
  <2>1. PICK u \in Users, p \in Prios :
          /\ g = "Taken" /\ ~InQ(queue, u) /\ fx' = NoFx /\ PrevokeEnter(speaker)
          /\ queue' = <<[u |-> u, p |-> p, pre |-> TRUE]>> \o queue
    BY <1>3 DEF Preempts
  <2> DEFINE w == [u |-> u, p |-> p, pre |-> TRUE]
  <2>2. w \in Waiter /\ w.u = u
    BY DEF Waiter
  <2>3. Holder' = Holder /\ Holder # NoUser
    BY <2>1, HolderIsUser, UsersAssumption DEF Holder, PrevokeEnter
  <2>4. queue' = <<w>> \o queue
    BY <2>1
  <2> HIDE DEF w
  <2>5. Range(queue)' = Range(queue) \cup {w}
    <3>1. /\ queue' \in Seq(Waiter) /\ Len(queue') = Len(queue) + 1 /\ Len(queue) \in Nat
          /\ \A k \in 1..Len(queue) + 1 : queue'[k] = IF k = 1 THEN w ELSE queue[k - 1]
      BY <1>0, <2>2, <2>4
    <3>2. Range(queue)' = {queue'[i] : i \in 1..Len(queue')}
      <4>1. Range(queue') = {queue'[i] : i \in 1..Len(queue')}
        BY <3>1, RangeIs
      <4> QED BY <4>1
    <3>3. ASSUME NEW x \in Range(queue)' PROVE x \in Range(queue) \cup {w}
      <4>1. PICK k \in 1..Len(queue) + 1 : x = queue'[k]
        BY <3>1, <3>2
      <4>2. CASE k = 1
        BY <3>1, <4>1, <4>2
      <4>3. CASE k # 1
        <5>1. k - 1 \in 1..Len(queue) /\ x = queue[k - 1]
          BY <3>1, <4>1, <4>3
        <5> QED BY <1>0, <5>1
      <4> QED BY <4>2, <4>3
    <3>4. ASSUME NEW x \in Range(queue) PROVE x \in Range(queue)'
      <4>1. PICK k \in 1..Len(queue) : x = queue[k]
        BY <1>0
      <4>2. k + 1 \in 1..Len(queue') /\ x = queue'[k + 1]
        BY <3>1, <4>1
      <4> QED BY <3>2, <4>2
    <3>5. w \in Range(queue)'
      BY <3>1, <3>2
    <3> QED BY <3>3, <3>4, <3>5, Zenon
  <2>6. \A x \in Range(queue) : x.u # w.u
    BY <1>0, <2>1, <2>2, Zenon DEF InQ
  <2>7. Abs!Enqueue(w) /\ w \in Abs!Waiter
    BY <2>1, <2>2, <2>3, <2>5, <2>6 DEF Abs!Enqueue, Abs!Waiter, Waiter, Abs!NoFx, NoFx
  <2> QED BY <2>7 DEF Abs!Next
<1>4. CASE Revokes
  <2>1. Holder' = Holder /\ fx' = NoFx /\ queue' = queue
    BY <1>4 DEF Revokes, PrevokeEnter, Holder
  <2>2. Abs!Other
    BY <2>1 DEF Abs!Other, Abs!NoFx, NoFx
  <2> QED BY <2>2 DEF Abs!Next
<1>5. CASE Enqueues
  <2>1. PICK u \in Users, p \in Prios :
          /\ g # "Idle" /\ ~InQ(queue, u) /\ fx' = NoFx /\ UNCHANGED arbVars
          /\ queue' = InsertQ(queue, [u |-> u, p |-> p, pre |-> FALSE])
    BY <1>5 DEF Enqueues
  <2> DEFINE w == [u |-> u, p |-> p, pre |-> FALSE]
  <2>2. w \in Waiter /\ w.u = u
    BY DEF Waiter
  <2>3. Holder' = Holder /\ Holder # NoUser
    BY <2>1, HolderIsUser, UsersAssumption DEF Holder, arbVars
  <2>4. queue' = InsertQ(queue, w)
    BY <2>1
  <2> HIDE DEF w
  <2>5. Range(queue)' = Range(queue) \cup {w}
    BY <1>0, <2>2, <2>4, InsertSet, Zenon
  <2>6. \A x \in Range(queue) : x.u # w.u
    BY <1>0, <2>1, <2>2, Zenon DEF InQ
  <2>7. Abs!Enqueue(w) /\ w \in Abs!Waiter
    BY <2>1, <2>2, <2>3, <2>5, <2>6 DEF Abs!Enqueue, Abs!Waiter, Waiter, Abs!NoFx, NoFx
  <2> QED BY <2>7 DEF Abs!Next
<1>6. CASE Dequeues
  <2>1. PICK u \in Users : queue' = Dequeue(queue, u) /\ UNCHANGED arbVars /\ fx' = NoFx
    BY <1>6 DEF Dequeues
  <2>2. Holder' = Holder
    BY <2>1 DEF Holder, arbVars
  <2>3. CASE queue' = queue
    <3>1. Abs!Other
      BY <2>1, <2>2, <2>3 DEF Abs!Other, Abs!NoFx, NoFx
    <3> QED BY <3>1 DEF Abs!Next
  <2>4. CASE queue' # queue
    <3>1. PICK w \in Range(queue) : Range(queue)' = Range(queue) \ {w}
      BY <1>0, <2>1, <2>4, DequeueSet
    <3>2. w \in Abs!Waiter
      <4>1. w \in Waiter
        BY <1>0, WaiterPrio, Zenon
      <4> QED BY <4>1 DEF Abs!Waiter, Waiter
    <3>3. Abs!GiveUp(w)
      BY <2>1, <2>2, <3>1 DEF Abs!GiveUp, Abs!NoFx, NoFx
    <3> QED BY <3>2, <3>3, Zenon DEF Abs!Next
  <2> QED BY <2>3, <2>4
<1>7. CASE Keeps
  <2>1. Holder' = Holder /\ fx' = NoFx /\ queue' = queue
    BY <1>7 DEF Keeps, arbVars, Holder
  <2>2. Abs!Other
    BY <2>1 DEF Abs!Other, Abs!NoFx, NoFx
  <2> QED BY <2>2 DEF Abs!Next
<1> QED BY <1>1, <1>2, <1>3, <1>4, <1>5, <1>6, <1>7, Zenon DEF Shape

\* The floor keeps the promise of FloorAbs: one holder at a time, the floor
\* passes to the best waiter and falls free only when nobody waits, and every
\* change of holder asks the media side for exactly one effect.
THEOREM FloorImplementsAbs == Spec => ImplementsAbs
<1>1. Init => Abs!Init
  BY DEF Init, Abs!Init, Holder, Range, Abs!NoFx, NoFx
<1>2. TypeInv /\ TypeInv' /\ PartInv /\ QueueInv /\ [Next]_vars => [Abs!Next]_(Abs!absVars)
  <2>1. UNCHANGED vars => UNCHANGED Abs!absVars
    BY DEF vars, arbVars, Abs!absVars, Holder
  <2> QED BY <2>1, StepShape, AbsStep
<1> QED BY FloorInvariant, <1>1, <1>2, PTL DEF Spec, ImplementsAbs, Abs!Spec

-----------------------------------------------------------------------------
(* The fourth layer: the arbiter and the participants agree. *)

\* What the participant machine of a user and the arbiter say of that user: who
\* speaks, whose floor is being taken back, who is in the room, who waits.
Matches(p, speaks, revoked, present, waits) ==
  /\ (p.part = "Permitted") <=> speaks
  /\ (p.part = "Prevoke") <=> (revoked /\ present)
  /\ speaks => present
  /\ ~present => p.part \in {"None", "Releasing"}
  /\ waits => p.part = "NpTaken"

\* ArbPartAgree and WaitersInRoom are inductive only together, and with the facts
\* that an absent user's machine is off and that a waiter's machine is in NpTaken.
AgreeInv == \A u \in Users : Matches(parts[u], IsSpeaker(u), IsRevoked(u), u \in members, InQ(queue, u))

\* The fourth layer contains the two properties.
LEMMA AgreeImplies ==
  ASSUME TypeInv, AgreeInv
  PROVE  ArbPartAgree /\ WaitersInRoom
<1>1. ArbPartAgree
  BY DEF AgreeInv, Matches, ArbPartAgree
<1>2. \A i \in 1..Len(queue) : queue[i].u \in members \ {Holder}
  <2> TAKE i \in 1..Len(queue)
  <2> DEFINE u == queue[i].u
  <2>1. u \in Users /\ InQ(queue, u)
    BY WaiterPrio, Zenon DEF TypeInv, TypeOK, InQ
  <2> HIDE DEF u
  <2>2. parts[u].part = "NpTaken" /\ u \in members /\ ~IsSpeaker(u) /\ ~IsRevoked(u)
    BY <2>1, Zenon DEF AgreeInv, Matches
  <2>3. u # Holder
    BY <2>1, <2>2, UsersAssumption DEF TypeInv, TypeOK, GStates, Holder, IsSpeaker, IsRevoked
  <2> QED BY <2>2, <2>3 DEF u
<1>3. g = "Taken" => speaker \in members
  BY HolderIsUser DEF AgreeInv, Matches, IsSpeaker
<1> QED BY <1>1, <1>2, <1>3 DEF WaitersInRoom

\* Who still waits once the head of the queue has been served.
LEMMA InTail ==
  ASSUME NEW q \in Seq(Waiter), q # <<>>, \A i, j \in 1..Len(q) : q[i].u = q[j].u => i = j,
         NEW v, InQ(Tail(q), v)
  PROVE  InQ(q, v) /\ v # Head(q).u
<1>1. PICK k \in 1..Len(Tail(q)) : Tail(q)[k].u = v
  BY DEF InQ
<1>2. k + 1 \in 1..Len(q) /\ q[k + 1].u = v /\ k + 1 # 1 /\ Head(q) = q[1] /\ 1 \in 1..Len(q)
  BY <1>1, HeadTail
<1> QED BY <1>2 DEF InQ

\* Who still waits once u has been taken out of the queue.
LEMMA InDequeued ==
  ASSUME NEW q \in Seq(Waiter), \A i, j \in 1..Len(q) : q[i].u = q[j].u => i = j,
         NEW u, NEW v, InQ(Dequeue(q, u), v)
  PROVE  InQ(q, v) /\ v # u
<1> DEFINE r == Dequeue(q, u)
<1>1. CASE r = q /\ ~InQ(q, u)
  BY <1>1
<1>2. CASE ~(r = q /\ ~InQ(q, u))
  <2>1. PICK n \in 1..Len(q) :
          q[n].u = u /\ \A k \in 1..Len(q) - 1 : r[k] = IF k < n THEN q[k] ELSE q[k + 1]
    BY <1>2, DequeueFacts
  <2>2. Len(r) = Len(q) - 1 /\ Len(q) \in Nat
    BY <1>2, DequeueFacts
  <2>3. PICK k \in 1..Len(r) : r[k].u = v
    BY DEF InQ
  <2> HIDE DEF r
  <2>4. PICK j \in 1..Len(q) : j # n /\ r[k] = q[j]
    <3>1. CASE k < n
      BY <2>1, <2>2, <3>1
    <3>2. CASE ~(k < n)
      <4>1. k + 1 \in 1..Len(q) /\ k + 1 # n /\ r[k] = q[k + 1]
        BY <2>1, <2>2, <3>2
      <4> QED BY <4>1
    <3> QED BY <3>1, <3>2
  <2> QED BY <2>1, <2>3, <2>4 DEF InQ
<1> QED BY <1>1, <1>2

\* Who waits once w has been inserted by rank.
LEMMA InInserted ==
  ASSUME NEW q \in Seq(Waiter), NEW w \in Waiter, NEW v, InQ(InsertQ(q, w), v)
  PROVE  InQ(q, v) \/ v = w.u
<1> DEFINE r == InsertQ(q, w)
<1>1. PICK n \in 1..Len(q) + 1 :
        \A k \in 1..Len(q) + 1 : r[k] = IF k < n THEN q[k] ELSE IF k = n THEN w ELSE q[k - 1]
  BY InsertQFacts
<1>2. Len(r) = Len(q) + 1 /\ Len(q) \in Nat
  BY InsertQFacts
<1>3. PICK k \in 1..Len(r) : r[k].u = v
  BY DEF InQ
<1> HIDE DEF r
<1>4. CASE k < n
  BY <1>1, <1>2, <1>3, <1>4 DEF InQ
<1>5. CASE k = n
  BY <1>1, <1>2, <1>3, <1>5
<1>6. CASE k > n
  <2>1. k - 1 \in 1..Len(q) /\ r[k] = q[k - 1]
    BY <1>1, <1>2, <1>6
  <2> QED BY <1>3, <2>1 DEF InQ
<1> QED BY <1>4, <1>5, <1>6

\* Who waits once a pre-empting w has been put in front.
LEMMA InPreempted ==
  ASSUME NEW q \in Seq(Waiter), NEW w \in Waiter, NEW v, InQ(<<w>> \o q, v)
  PROVE  InQ(q, v) \/ v = w.u
<1> DEFINE r == <<w>> \o q
<1>1. /\ Len(r) = Len(q) + 1 /\ Len(q) \in Nat
      /\ \A k \in 1..Len(q) + 1 : r[k] = IF k = 1 THEN w ELSE q[k - 1]
  OBVIOUS
<1>2. PICK k \in 1..Len(r) : r[k].u = v
  BY DEF InQ
<1> HIDE DEF r
<1>3. CASE k = 1
  BY <1>1, <1>2, <1>3, Zenon
<1>4. CASE k # 1
  <2>1. k - 1 \in 1..Len(q) /\ r[k] = q[k - 1]
    BY <1>1, <1>4
  <2> QED BY <1>2, <2>1 DEF InQ
<1> QED BY <1>3, <1>4

\* Where the participant machine of a member goes when the arbiter tells it.
LEMMA PartATo ==
  ASSUME NEW p \in Part, Live(p)
  PROVE  /\ PartA(p, "Idle").part = IF p.part = "NpSends" THEN "NpSends" ELSE "NpIdle"
         /\ PartA(p, "Taken").part = IF p.part = "NpSends" THEN "NpSends" ELSE "NpTaken"
         /\ p.part \in {"NpIdle", "NpTaken", "Permitted"} => PartA(p, "Granted").part = "Permitted"
         /\ p.part = "Permitted" => PartA(p, "Revoke").part = "Prevoke"
<1> USE DEF Live, Part, PStates
<1>1. PartA(p, "Idle").part = IF p.part = "NpSends" THEN "NpSends" ELSE "NpIdle"
  BY DEF PartA, EnterR, NpSendsA
<1>2. PartA(p, "Taken").part = IF p.part = "NpSends" THEN "NpSends" ELSE "NpTaken"
  BY DEF PartA, EnterR, NpSendsA
<1>3. p.part \in {"NpIdle", "NpTaken", "Permitted"} => PartA(p, "Granted").part = "Permitted"
  BY DEF PartA, EnterR, NpSendsA
<1>4. p.part = "Permitted" => PartA(p, "Revoke").part = "Prevoke"
  BY DEF PartA, EnterR, NpSendsA
<1> QED BY <1>1, <1>2, <1>3, <1>4

\* A step that keeps the arbiter, the room and every participant's state.
LEMMA SameAgree ==
  ASSUME AgreeInv, UNCHANGED <<g, speaker, revoking, members>>,
         \A v \in Users : parts'[v].part = parts[v].part /\ (InQ(queue', v) => InQ(queue, v))
  PROVE  AgreeInv'
<1>1. ASSUME NEW v \in Users PROVE Matches(parts'[v], IsSpeaker(v), IsRevoked(v), v \in members, InQ(queue', v))
  BY DEF AgreeInv, Matches
<1>2. ASSUME NEW v \in Users PROVE (IsSpeaker(v)' <=> IsSpeaker(v)) /\ (IsRevoked(v)' <=> IsRevoked(v))
  BY DEF IsSpeaker, IsRevoked
<1> QED BY <1>1, <1>2, Zenon DEF AgreeInv, Matches

\* A step that takes the floor back from the speaker.
LEMMA RevokeAgree ==
  ASSUME TypeInv, AgreeInv, g = "Taken", PrevokeEnter(speaker), UNCHANGED members,
         parts'[speaker].part = "Prevoke",
         \A v \in Users : /\ v # speaker => parts'[v].part = parts[v].part
                          /\ InQ(queue', v) => InQ(queue, v) \/ parts[v].part = "NpTaken"
  PROVE  AgreeInv'
<1>0. g' = "Prevoke" /\ revoking' = speaker /\ speaker \in Users
  BY HolderIsUser, Zenon DEF PrevokeEnter
<1>1. ASSUME NEW v \in Users PROVE Matches(parts'[v], FALSE, v = speaker, v \in members, InQ(queue', v))
  <2>1. CASE v = speaker
    BY <2>1 DEF AgreeInv, Matches, IsSpeaker
  <2>2. CASE v # speaker
    BY <2>2 DEF AgreeInv, Matches, IsSpeaker, IsRevoked
  <2> QED BY <2>1, <2>2
<1>2. ASSUME NEW v \in Users PROVE ~IsSpeaker(v)' /\ (IsRevoked(v)' <=> v = speaker)
  BY <1>0 DEF IsSpeaker, IsRevoked
<1>3. ASSUME NEW v \in Users PROVE Matches(parts'[v], IsSpeaker(v)', IsRevoked(v)', v \in members', InQ(queue', v))
  BY <1>1, <1>2, Zenon DEF Matches
<1> QED BY <1>3, Zenon DEF AgreeInv

\* What a tenure's end leaves: the head of the queue speaks, nobody is revoked.
LEMMA EndAgree ==
  ASSUME TypeInv, PartInv, QueueInv, AgreeInv, g # "Idle", NEW ps \in [Users -> Part],
         \A v \in Users : ps[v].part = parts[v].part /\ ps[v].gTaken = parts[v].gTaken,
         NEW last, NEW said, IdleEnter(queue, ps, last, said)
  PROVE  /\ \A v \in Users : /\ ~IsRevoked(v)'
                             /\ InQ(queue', v) \/ IsSpeaker(v)' => InQ(queue, v)
                             /\ Matches(IdleParts(queue, ps)[v], IsSpeaker(v)', FALSE, v \in members, InQ(queue', v))
<1>0. /\ queue \in Seq(Waiter) /\ \A i, j \in 1..Len(queue) : queue[i].u = queue[j].u => i = j
      /\ members \subseteq Users
  BY Zenon DEF TypeInv, TypeOK, QueueInv, WaitersDistinct
<1>1. ASSUME NEW v \in members PROVE Live(ps[v]) /\ ps[v] \in Part
  BY <1>0 DEF PartInv, PartOK, Live
<1>2. CASE queue = <<>>
  <2>1. g' = "Idle" /\ queue' = <<>>
    BY <1>2, Zenon DEF IdleEnter
  <2>2. ASSUME NEW v \in Users PROVE ~IsSpeaker(v)' /\ ~IsRevoked(v)' /\ ~InQ(queue', v)
    BY <2>1 DEF IsSpeaker, IsRevoked, InQ
  <2>3. ASSUME NEW v \in Users PROVE IdleParts(queue, ps)[v] = IF v \in members THEN PartA(ps[v], "Idle") ELSE ps[v]
    BY <1>2, Zenon DEF IdleParts, Fan
  <2>4. ASSUME NEW v \in Users PROVE Matches(IdleParts(queue, ps)[v], FALSE, FALSE, v \in members, FALSE)
    <3>1. CASE v \in members
      BY <1>1, <2>3, <3>1, PartATo DEF Matches
    <3>2. CASE v \notin members
      BY <2>3, <3>2, Zenon DEF AgreeInv, Matches
    <3> QED BY <3>1, <3>2
  <2> QED BY <2>2, <2>4, Zenon DEF Matches
<1>3. CASE queue # <<>>
  <2> DEFINE sp == Head(queue).u
  <2>1. g' = "Taken" /\ speaker' = sp /\ queue' = Tail(queue)
    BY <1>3 DEF IdleEnter, EnterTaken
  <2>2. sp \in Users /\ InQ(queue, sp)
    BY <1>0, <1>3, HeadTail, WaiterPrio DEF InQ
  <2>3. IdleParts(queue, ps) = EnterTakenParts(ps, sp)
    BY <1>3 DEF IdleParts
  <2> HIDE DEF sp
  <2>4. ASSUME NEW v \in Users PROVE (IsSpeaker(v)' <=> v = sp) /\ ~IsRevoked(v)'
    BY <2>1, Zenon DEF IsSpeaker, IsRevoked
  <2>5. ASSUME NEW v \in Users, InQ(queue', v) PROVE InQ(queue, v) /\ v # sp
    BY <1>0, <1>3, <2>1, <2>5, InTail, Zenon DEF sp
  <2>6. ASSUME NEW v \in Users, InQ(queue, v) PROVE v \in members /\ ps[v].part = "NpTaken"
    BY <2>6, Zenon DEF AgreeInv, Matches
  <2>7. ASSUME NEW v \in Users PROVE IdleParts(queue, ps)[v] = IF v = sp THEN PartA(ps[v], "Granted")
                                                            ELSE IF v \in members THEN PartA(ps[v], "Taken") ELSE ps[v]
    BY <2>2, <2>3, Zenon DEF EnterTakenParts, Fan
  <2>8. ASSUME NEW v \in Users PROVE Matches(IdleParts(queue, ps)[v], v = sp, FALSE, v \in members, InQ(queue', v))
    <3>1. CASE v = sp
      <4>1. v \in members /\ ps[v].part = "NpTaken"
        BY <2>2, <2>6, <3>1
      <4>2. IdleParts(queue, ps)[v].part = "Permitted"
        <5>1. ps[v] \in Part /\ Live(ps[v]) /\ ps[v].part \in {"NpIdle", "NpTaken", "Permitted"}
          BY <1>1, <4>1
        <5>2. IdleParts(queue, ps)[v] = PartA(ps[v], "Granted")
          BY <2>7, <3>1, Zenon
        <5> QED BY <5>1, <5>2, PartATo, Zenon
      <4> QED BY <2>5, <3>1, <4>1, <4>2, Zenon DEF Matches
    <3>2. CASE v # sp /\ v \in members
      <4>1. IdleParts(queue, ps)[v].part = IF ps[v].part = "NpSends" THEN "NpSends" ELSE "NpTaken"
        <5>1. ps[v] \in Part /\ Live(ps[v])
          BY <1>1, <3>2, Zenon
        <5>2. IdleParts(queue, ps)[v] = PartA(ps[v], "Taken")
          BY <2>7, <3>2, Zenon
        <5> QED BY <5>1, <5>2, PartATo, Zenon
      <4> QED BY <2>5, <2>6, <3>2, <4>1, Zenon DEF Matches
    <3>3. CASE v # sp /\ v \notin members
      <4>1. IdleParts(queue, ps)[v].part = parts[v].part /\ ~InQ(queue, v)
        BY <2>6, <2>7, <3>3
      <4> QED BY <2>5, <3>3, <4>1, Zenon DEF AgreeInv, Matches
    <3> QED BY <3>1, <3>2, <3>3, Zenon
  <2> QED BY <2>2, <2>4, <2>5, <2>8, Zenon DEF Matches
<1> QED BY <1>2, <1>3, Zenon

\* A FLOOR_REQUEST keeps the agreement.
LEMMA RequestAgree ==
  ASSUME TypeInv, PartInv, QueueInv, AgreeInv, NEW u \in Users, NEW p \in Prios, NEW half \in BOOLEAN,
         RxRequest(u, p, half)
  PROVE  AgreeInv'
<1>0. queue \in Seq(Waiter) /\ parts \in [Users -> Part] /\ members \subseteq Users
  BY DEF TypeInv, TypeOK
<1>1. CASE \E o : Reply(o)
  BY <1>1, SameAgree DEF Reply, Say, arbVars
<1>2. CASE /\ EnterTaken(u, p, EnterTakenOut(parts, u)) /\ g = "Idle"
           /\ parts[u].part = "NpIdle" /\ u \in members
           /\ parts' = EnterTakenParts(parts, u)
           /\ UNCHANGED <<members, queue>>
  <2>1. g' = "Taken" /\ speaker' = u
    BY <1>2, Zenon DEF EnterTaken
  <2>2. ASSUME NEW v \in Users PROVE (IsSpeaker(v)' <=> v = u) /\ ~IsRevoked(v)' /\ ~InQ(queue', v)
    BY <1>2, <2>1 DEF IsSpeaker, IsRevoked, InQ, QueueInv, IdleQueueEmpty
  <2>3. ASSUME NEW v \in Users PROVE parts'[v] = IF v = u THEN PartA(parts[v], "Granted")
                                                 ELSE IF v \in members THEN PartA(parts[v], "Taken") ELSE parts[v]
    BY <1>0, <1>2 DEF EnterTakenParts, Fan
  <2>4. ASSUME NEW v \in members PROVE Live(parts[v]) /\ parts[v] \in Part
    BY <1>0 DEF PartInv, PartOK
  <2>5. ASSUME NEW v \in Users PROVE Matches(parts'[v], v = u, FALSE, v \in members, FALSE)
    <3>1. CASE v = u
      BY <1>2, <2>3, <2>4, <3>1, PartATo, Zenon DEF Matches
    <3>2. CASE v # u /\ v \in members
      BY <2>3, <2>4, <3>2, PartATo, Zenon DEF Matches
    <3>3. CASE v # u /\ v \notin members
      BY <2>3, <3>3 DEF AgreeInv, Matches
    <3> QED BY <3>1, <3>2, <3>3
  <2> QED BY <1>2, <2>2, <2>5, Zenon DEF AgreeInv, Matches
<1>3. CASE parts[u].part = "NpTaken" /\ g = "Taken" /\ ArbPreempt(u, p)
  <2> DEFINE w == [u |-> u, p |-> p, pre |-> TRUE]
  <2>1. w \in Waiter /\ w.u = u
    BY DEF Waiter
  <2>2. queue' = <<w>> \o queue
    BY <1>3 DEF ArbPreempt
  <2> HIDE DEF w
  <2>3. \A v \in Users : InQ(queue', v) => InQ(queue, v) \/ parts[v].part = "NpTaken"
    BY <1>0, <1>3, <2>1, <2>2, InPreempted, Zenon
  <2>4. speaker \in Users
    BY <1>3, HolderIsUser
  <2>5. parts' = [parts EXCEPT ![speaker] = PartA(parts[speaker], "Revoke")] /\ UNCHANGED members /\ PrevokeEnter(speaker)
    BY <1>3, Zenon DEF ArbPreempt
  <2>6. parts[speaker].part = "Permitted" /\ speaker \in members
    BY <1>3, <2>4 DEF AgreeInv, Matches, IsSpeaker
  <2>7. parts'[speaker].part = "Prevoke"
    BY <1>0, <2>4, <2>5, <2>6, PartATo DEF PartInv, PartOK
  <2>8. \A v \in Users : v # speaker => parts'[v].part = parts[v].part
    BY <1>0, <2>4, <2>5
  <2> QED BY <1>3, <2>3, <2>5, <2>7, <2>8, RevokeAgree, Zenon
<1>4. CASE /\ parts[u].part = "NpTaken" /\ u \in members
           /\ queue' = InsertQ(queue, [u |-> u, p |-> p, pre |-> FALSE])
           /\ UNCHANGED <<g, speaker, revoking, members, parts>>
  <2> DEFINE w == [u |-> u, p |-> p, pre |-> FALSE]
  <2>1. w \in Waiter /\ w.u = u /\ queue' = InsertQ(queue, w)
    BY <1>4 DEF Waiter
  <2> HIDE DEF w
  <2>2. ASSUME NEW v \in Users, InQ(queue', v) PROVE parts[v].part = "NpTaken"
    BY <1>0, <1>4, <2>1, <2>2, InInserted, Zenon DEF AgreeInv, Matches
  <2>3. ASSUME NEW v \in Users PROVE (IsSpeaker(v)' <=> IsSpeaker(v)) /\ (IsRevoked(v)' <=> IsRevoked(v))
    BY <1>4, Zenon DEF IsSpeaker, IsRevoked
  <2>4. ASSUME NEW v \in Users PROVE Matches(parts[v], IsSpeaker(v), IsRevoked(v), v \in members, InQ(queue', v))
    BY <2>2, Zenon DEF AgreeInv, Matches
  <2> QED BY <1>4, <2>3, <2>4, Zenon DEF AgreeInv, Matches
<1>5. CASE u \in members /\ parts[u].part = "NpIdle" /\ ArbReqIdle(u, p)
  BY <1>1, <1>2, <1>5, Zenon DEF ArbReqIdle
<1>6. CASE u \in members /\ parts[u].part = "NpTaken" /\ TakenReq(u, p)
  <2>1. CASE /\ queue' = InsertQ(queue, [u |-> u, p |-> p, pre |-> FALSE])
             /\ Say(Send(u, "Qinfo")) /\ UNCHANGED parts
    BY <1>4, <1>6, <2>1, Zenon DEF Say, arbVars
  <2> QED BY <1>1, <1>3, <1>6, <2>1, Zenon DEF TakenReq
<1> QED BY <1>1, <1>5, <1>6, Zenon DEF RxRequest, Admitted

\* A FLOOR_RELEASE keeps the agreement.
LEMMA ReleaseAgree ==
  ASSUME TypeInv, PartInv, QueueInv, AgreeInv, NEW u \in Users, RxRelease(u)
  PROVE  AgreeInv'
<1>0. /\ queue \in Seq(Waiter) /\ parts \in [Users -> Part] /\ u \in members
      /\ \A i, j \in 1..Len(queue) : queue[i].u = queue[j].u => i = j
  BY DEF TypeInv, TypeOK, RxRelease, QueueInv, WaitersDistinct
<1>1. CASE /\ queue' = Dequeue(queue, u) /\ (\E o : Say(o))
           /\ parts' = parts \/ parts' = [parts EXCEPT ![u].c21 = 1]
  <2>1. \A v \in Users : parts'[v].part = parts[v].part
    <3>1. [parts[u] EXCEPT !.c21 = 1].part = parts[u].part
      BY <1>0 DEF Part
    <3> QED BY <1>0, <1>1, <3>1
  <2>2. \A v \in Users : InQ(queue', v) => InQ(queue, v)
    BY <1>0, <1>1, InDequeued
  <2> QED BY <1>1, <2>1, <2>2, SameAgree DEF Say, arbVars
<1>2. CASE parts[u].part \in {"Permitted", "Prevoke"} /\ ArbRel(u)
  <2> DEFINE ps == IF parts[u].part = "Permitted" THEN [parts EXCEPT ![u].released = TRUE] ELSE parts
  <2>1. ps \in [Users -> Part]
    BY <1>0, PartFields DEF Part
  <2>2. \A v \in Users : ps[v].part = parts[v].part /\ ps[v].gTaken = parts[v].gTaken
    BY <1>0 DEF Part
  <2>3. IsSpeaker(u) \/ IsRevoked(u)
    BY <1>2 DEF AgreeInv, Matches
  <2>4. /\ IdleEnter(queue, ps, u, Send(u, "Ack")) /\ parts' = IdleParts(queue, ps) /\ UNCHANGED members
        /\ g # "Idle"
    BY <1>2, <2>3, Zenon DEF ArbRel, IsSpeaker, IsRevoked
  <2> HIDE DEF ps
  <2>5. \A v \in Users : ~IsRevoked(v)' /\ Matches(parts'[v], IsSpeaker(v)', FALSE, v \in members', InQ(queue', v))
    BY <2>1, <2>2, <2>4, EndAgree, Zenon
  <2> QED BY <2>5, Zenon DEF AgreeInv, Matches
<1>3. CASE /\ parts[u].part \notin {"NpIdle", "NpTaken", "Permitted", "Prevoke"}
           /\ \E to \in {"NpTaken", "NpIdle"} : parts' = [parts EXCEPT ![u] = EnterR(@, to)]
           /\ UNCHANGED queue /\ \E o : Say(o)
  <2>1. PICK to \in {"NpTaken", "NpIdle"} : parts' = [parts EXCEPT ![u] = EnterR(@, to)]
    BY <1>3
  <2>2. parts'[u].part = to /\ \A v \in Users : v # u => parts'[v] = parts[v]
    BY <1>0, <2>1, EnterRType DEF PStates
  <2>3. ASSUME NEW v \in Users PROVE Matches(parts'[v], IsSpeaker(v), IsRevoked(v), v \in members, InQ(queue, v))
    BY <1>0, <1>3, <2>2 DEF AgreeInv, Matches
  <2>4. UNCHANGED <<g, speaker, revoking, members, queue>>
    BY <1>3 DEF Say, arbVars
  <2>5. ASSUME NEW v \in Users PROVE (IsSpeaker(v)' <=> IsSpeaker(v)) /\ (IsRevoked(v)' <=> IsRevoked(v))
    BY <2>4 DEF IsSpeaker, IsRevoked
  <2> QED BY <2>3, <2>4, <2>5, Zenon DEF AgreeInv, Matches
<1>4. CASE parts[u].part \notin {"NpIdle", "NpTaken", "Permitted", "Prevoke"}
  BY <1>3, <1>4 DEF RxRelease
<1>5. CASE parts[u].part \in {"NpIdle", "NpTaken"}
  BY <1>1, <1>5 DEF RxRelease
<1>6. CASE parts[u].part \in {"Permitted", "Prevoke"}
  BY <1>2, <1>6 DEF RxRelease
<1> QED BY <1>4, <1>5, <1>6

\* Messages, timers and media of one user that only answer keep the agreement.
LEMMA UserStepAgree ==
  ASSUME TypeInv, PartInv, AgreeInv, NEW u \in Users,
         \/ RxAckTaken(u) \/ RxQposReq(u) \/ Ready(u) \/ PermUp(u) \/ WsPubSelect(u)
         \/ T8(u) \/ T9(u) \/ T21(u) \/ (~InQ(queue, u) /\ Rtp(u))
  PROVE  AgreeInv'
<1>0. parts \in [Users -> Part] /\ parts[u] \in Part /\ parts[u].c8 \in Nat /\ parts[u].c21 \in Nat
  BY PartFields DEF TypeInv, TypeOK
<1>1. ASSUME NEW p, p.part = parts[u].part, parts' = [parts EXCEPT ![u] = p], UNCHANGED <<g, speaker, revoking, members, queue>>
      PROVE  AgreeInv'
  <2>1. \A v \in Users : parts'[v].part = parts[v].part
    BY <1>0, <1>1
  <2> QED BY <1>1, <2>1, SameAgree
<1>2. CASE UNCHANGED <<g, speaker, revoking, members, queue, parts>>
  BY <1>2, SameAgree
<1>3. CASE RxQposReq(u) \/ Ready(u)
  BY <1>2, <1>3 DEF RxQposReq, Ready, Reply, Say, arbVars
<1>4. CASE RxAckTaken(u)
  <2>1. [parts[u] EXCEPT !.c21 = 0].part = parts[u].part
    BY <1>0 DEF Part
  <2> QED BY <1>1, <1>4, <2>1, Zenon DEF RxAckTaken, Say, arbVars
<1>5. CASE PermUp(u)
  <2>1. [parts[u] EXCEPT !.perm = TRUE].part = parts[u].part
    BY <1>0 DEF Part
  <2> QED BY <1>1, <1>5, <2>1, Zenon DEF PermUp, Say, arbVars
<1>6. CASE WsPubSelect(u)
  <2>1. [parts[u] EXCEPT !.pubRoom = TRUE].part = parts[u].part
    BY <1>0 DEF Part
  <2> QED BY <1>1, <1>6, <2>1, Zenon DEF WsPubSelect, Say, arbVars
<1>7. CASE T8(u)
  <2> DEFINE p == [parts[u] EXCEPT !.c8 = parts[u].c8 + 1]
  <2>1. p.part = parts[u].part
    BY <1>0 DEF Part
  <2>2. parts' = [parts EXCEPT ![u] = p] /\ UNCHANGED <<g, speaker, revoking, members, queue>>
    BY <1>7 DEF T8, Say, arbVars
  <2> QED BY <1>1, <2>1, <2>2, Zenon
<1>8. CASE T9(u)
  <2>1. [parts[u] EXCEPT !.retry = FALSE].part = parts[u].part
    BY <1>0 DEF Part
  <2> QED BY <1>1, <1>8, <2>1, Zenon DEF T9, Say, arbVars
<1>9. CASE T21(u)
  <2> DEFINE p == [parts[u] EXCEPT !.c21 = parts[u].c21 + 1]
  <2>1. p.part = parts[u].part
    BY <1>0 DEF Part
  <2>2. parts' = [parts EXCEPT ![u] = p] /\ UNCHANGED <<g, speaker, revoking, members, queue>>
    BY <1>9, Zenon DEF T21, Say, arbVars
  <2> QED BY <1>1, <2>1, <2>2, Zenon
<1>10. CASE ~InQ(queue, u) /\ Rtp(u)
  <2>1. UNCHANGED <<g, speaker, revoking, members, queue>>
    BY <1>10 DEF Rtp, arbVars
  <2>2. CASE UNCHANGED parts
    BY <1>2, <2>1, <2>2
  <2>3. CASE /\ parts[u].part \in {"NpIdle", "NpTaken"} /\ u \in members
             /\ parts' = [parts EXCEPT ![u] = EnterR(@, "NpSends")]
    <3>1. parts'[u].part = "NpSends" /\ \A v \in Users : v # u => parts'[v] = parts[v]
      BY <1>0, <2>3, EnterRType DEF PStates
    <3>2. ASSUME NEW v \in Users PROVE Matches(parts'[v], IsSpeaker(v), IsRevoked(v), v \in members, InQ(queue, v))
      BY <1>10, <2>3, <3>1 DEF AgreeInv, Matches
    <3>3. ASSUME NEW v \in Users PROVE (IsSpeaker(v)' <=> IsSpeaker(v)) /\ (IsRevoked(v)' <=> IsRevoked(v))
      BY <2>1 DEF IsSpeaker, IsRevoked
    <3> QED BY <2>1, <3>2, <3>3, Zenon DEF AgreeInv, Matches
  <2> QED BY <1>10, <2>2, <2>3, Zenon DEF Rtp
<1> QED BY <1>3, <1>4, <1>5, <1>6, <1>7, <1>8, <1>9, <1>10

\* Losing the permission to speak keeps the agreement.
LEMMA PermDownAgree ==
  ASSUME TypeInv, PartInv, QueueInv, AgreeInv, NEW u \in Users, PermDown(u)
  PROVE  AgreeInv'
<1> DEFINE p == [parts[u] EXCEPT !.perm = FALSE]
<1>0. /\ queue \in Seq(Waiter) /\ parts \in [Users -> Part]
      /\ \A i, j \in 1..Len(queue) : queue[i].u = queue[j].u => i = j
  BY DEF TypeInv, TypeOK, QueueInv, WaitersDistinct
<1>1. p \in Part /\ p.part = parts[u].part /\ p.gTaken = parts[u].gTaken
  BY <1>0 DEF Part
<1>3. CASE IsSpeaker(u)
  <2>1. parts' = [parts EXCEPT ![u] = PartA(p, "Revoke")]
    BY <1>0, <1>3 DEF PermDown
  <2>2. g = "Taken" /\ speaker = u /\ PrevokeEnter(speaker) /\ members' = members /\ queue' = queue
    BY <1>3, Zenon DEF PermDown, IsSpeaker
  <2> HIDE DEF p
  <2>3. p.part = "Permitted" /\ u \in members /\ Live(p)
    BY <1>1, <1>3, Zenon DEF AgreeInv, Matches, PartInv, PartOK, Live
  <2>4. parts'[u].part = "Prevoke"
    BY <1>0, <1>1, <2>1, <2>3, PartATo
  <2>5. \A v \in Users : v # u => parts'[v].part = parts[v].part
    BY <1>0, <2>1
  <2> QED BY <2>2, <2>4, <2>5, RevokeAgree
<1>4. CASE ~IsSpeaker(u)
  <2>1. parts' = [parts EXCEPT ![u] = p] /\ UNCHANGED <<g, speaker, revoking, members>> /\ queue' = Dequeue(queue, u)
    BY <1>4 DEF PermDown, Say, arbVars
  <2> HIDE DEF p
  <2>2. \A v \in Users : parts'[v].part = parts[v].part
    BY <1>0, <1>1, <2>1
  <2>3. \A v \in Users : InQ(queue', v) => InQ(queue, v)
    BY <1>0, <2>1, InDequeued, Zenon
  <2> QED BY <2>1, <2>2, <2>3, SameAgree
<1> QED BY <1>3, <1>4

\* away, before the operation goes on to leave or stay.
LEMMA AwayAgree ==
  ASSUME TypeInv, PartInv, QueueInv, AgreeInv, NEW u \in Users, NEW ps \in [Users -> Part],
         \A v \in Users : ps[v].part = parts[v].part /\ ps[v].gTaken = parts[v].gTaken,
         Away(u, ps)
  PROVE  /\ ~InQ(queue', u) /\ ~IsSpeaker(u)'
         /\ \A v \in Users : Matches(AwayParts(u, ps)[v], IsSpeaker(v)', IsRevoked(v)', v \in members, InQ(queue', v))
<1>0. /\ queue \in Seq(Waiter)
      /\ \A i, j \in 1..Len(queue) : queue[i].u = queue[j].u => i = j
  BY DEF TypeInv, TypeOK, QueueInv, WaitersDistinct
<1>1. CASE IsSpeaker(u)
  <2>1. IdleEnter(queue, ps, u, {}) /\ g # "Idle" /\ AwayParts(u, ps) = IdleParts(queue, ps)
    BY <1>1, Zenon DEF Away, IsSpeaker, AwayParts
  <2>2. ~InQ(queue, u)
    BY <1>1, Zenon DEF AgreeInv, Matches
  <2>3. \A v \in Users : /\ ~IsRevoked(v)'
                         /\ InQ(queue', v) \/ IsSpeaker(v)' => InQ(queue, v)
                         /\ Matches(AwayParts(u, ps)[v], IsSpeaker(v)', FALSE, v \in members, InQ(queue', v))
    BY <2>1, EndAgree, Zenon
  <2> QED BY <2>2, <2>3, Zenon DEF Matches
<1>2. CASE ~IsSpeaker(u)
  <2>1. /\ AwayParts(u, ps) = ps /\ UNCHANGED <<g, speaker, revoking>>
        /\ queue' = IF IsRevoked(u) THEN queue ELSE Dequeue(queue, u)
    BY <1>2, Zenon DEF Away, AwayParts, arbVars
  <2>2. \A v \in Users : InQ(queue', v) => InQ(queue, v)
    BY <1>0, <2>1, InDequeued, Zenon
  <2>3. ~InQ(queue', u)
    <3>1. CASE IsRevoked(u)
      BY <2>1, <3>1, Zenon DEF AgreeInv, Matches
    <3>2. CASE ~IsRevoked(u)
      BY <1>0, <2>1, <3>2, InDequeued, Zenon
    <3> QED BY <3>1, <3>2, Zenon
  <2>4. ASSUME NEW v \in Users PROVE (IsSpeaker(v)' <=> IsSpeaker(v)) /\ (IsRevoked(v)' <=> IsRevoked(v))
    BY <2>1, Zenon DEF IsSpeaker, IsRevoked
  <2>5. ASSUME NEW v \in Users PROVE Matches(ps[v], IsSpeaker(v), IsRevoked(v), v \in members, InQ(queue', v))
    BY <2>2, Zenon DEF AgreeInv, Matches
  <2> QED BY <1>2, <2>1, <2>3, <2>4, <2>5, Zenon DEF Matches
<1> QED BY <1>1, <1>2, Zenon

\* Publishing, leaving and joining keep the agreement.
LEMMA RoomStepAgree ==
  ASSUME TypeInv, PartInv, QueueInv, AgreeInv, NEW u \in Users,
         WsPubAway(u) \/ WsLeave(u) \/ \E perm \in BOOLEAN : WsJoin(u, perm)
  PROVE  AgreeInv'
<1> DEFINE ps == [parts EXCEPT ![u].pubRoom = FALSE]
<1>0. parts \in [Users -> Part] /\ queue \in Seq(Waiter) /\ members \subseteq Users
  BY DEF TypeInv, TypeOK
<1>1. /\ ps \in [Users -> Part]
      /\ \A v \in Users : ps[v].part = parts[v].part /\ ps[v].gTaken = parts[v].gTaken
  BY <1>0 DEF Part
<1> HIDE DEF ps
<1>2. CASE WsPubAway(u)
  <2>1. Away(u, ps) /\ parts' = AwayParts(u, ps) /\ members' = members
    BY <1>2 DEF WsPubAway, ps
  <2> QED BY <1>1, <2>1, AwayAgree, Zenon DEF AgreeInv
<1>3. CASE WsLeave(u)
  <2>1. /\ Away(u, ps) /\ members' = members \ {u}
        /\ parts' = [AwayParts(u, ps) EXCEPT ![u].retry = FALSE, ![u].part = "Releasing"]
    BY <1>3 DEF WsLeave, ps
  <2>2. AwayParts(u, ps) \in [Users -> Part]
    BY <1>1, <2>1, AwayType
  <2>3. parts'[u].part = "Releasing" /\ \A v \in Users : v # u => parts'[v] = AwayParts(u, ps)[v]
    BY <2>1, <2>2 DEF Part
  <2>4. /\ ~InQ(queue', u) /\ ~IsSpeaker(u)'
        /\ \A v \in Users : Matches(AwayParts(u, ps)[v], IsSpeaker(v)', IsRevoked(v)', v \in members, InQ(queue', v))
    BY <1>1, <2>1, AwayAgree
  <2>5. ASSUME NEW v \in Users PROVE Matches(parts'[v], IsSpeaker(v)', IsRevoked(v)', v \in members', InQ(queue', v))
    <3>1. CASE v = u
      BY <2>1, <2>3, <2>4, <3>1 DEF Matches
    <3>2. CASE v # u
      <4>1. v \in members' <=> v \in members
        BY <2>1, <3>2
      <4> QED BY <2>3, <2>4, <3>2, <4>1, Zenon DEF Matches
    <3> QED BY <3>1, <3>2
  <2> QED BY <2>5, Zenon DEF AgreeInv
<1>4. ASSUME NEW perm \in BOOLEAN, WsJoin(u, perm) PROVE AgreeInv'
  <2>0. ASSUME NEW p \in Part, NEW taken \in BOOLEAN PROVE Joined(p, perm, taken).part \in {"NpTaken", "NpIdle"}
    BY Zenon DEF Joined, Part, PStates
  <2>a. u \notin members /\ members' = members \cup {u} /\ ~InQ(queue, u) /\ ~IsSpeaker(u)
    BY <1>4 DEF WsJoin, AgreeInv, Matches
  <2>1. CASE IsRevoked(u)
    <3>1. /\ IdleEnter(queue, parts, u, {}) /\ g # "Idle"
          /\ parts' = [IdleParts(queue, parts) EXCEPT ![u] = Joined(@, perm, queue # <<>>)]
      BY <1>4, <2>1 DEF WsJoin, IsRevoked
    <3>2. IdleParts(queue, parts) \in [Users -> Part]
      BY <1>0, IdlePartsType, Zenon
    <3>3. parts'[u].part \in {"NpTaken", "NpIdle"} /\ \A v \in Users : v # u => parts'[v] = IdleParts(queue, parts)[v]
      BY <2>0, <3>1, <3>2, Zenon
    <3>4. \A v \in Users : /\ ~IsRevoked(v)'
                           /\ InQ(queue', v) \/ IsSpeaker(v)' => InQ(queue, v)
                           /\ Matches(IdleParts(queue, parts)[v], IsSpeaker(v)', FALSE, v \in members, InQ(queue', v))
      BY <1>0, <3>1, EndAgree
    <3>5. ASSUME NEW v \in Users PROVE Matches(parts'[v], IsSpeaker(v)', FALSE, v \in members', InQ(queue', v))
      <4>1. CASE v = u
        BY <2>a, <3>3, <3>4, <4>1, Zenon DEF Matches
      <4>2. CASE v # u
        <5>1. v \in members' <=> v \in members
          BY <2>a, <4>2
        <5> QED BY <3>3, <3>4, <4>2, <5>1, Zenon DEF Matches
      <4> QED BY <4>1, <4>2
    <3> QED BY <3>4, <3>5, Zenon DEF AgreeInv, Matches
  <2>2. CASE ~IsRevoked(u)
    <3>1. /\ UNCHANGED <<g, speaker, revoking, queue>>
          /\ parts' = [parts EXCEPT ![u] = Joined(@, perm, Holder # NoUser)]
      BY <1>4, <2>2 DEF WsJoin, arbVars
    <3>2. parts'[u].part \in {"NpTaken", "NpIdle"} /\ \A v \in Users : v # u => parts'[v] = parts[v]
      BY <1>0, <2>0, <3>1
    <3>3. ASSUME NEW v \in Users PROVE (IsSpeaker(v)' <=> IsSpeaker(v)) /\ (IsRevoked(v)' <=> IsRevoked(v))
      BY <3>1 DEF IsSpeaker, IsRevoked
    <3>4. ASSUME NEW v \in Users PROVE Matches(parts'[v], IsSpeaker(v), IsRevoked(v), v \in members', InQ(queue, v))
      <4>1. CASE v = u
        BY <2>a, <2>2, <3>2, <4>1 DEF Matches
      <4>2. CASE v # u
        <5>1. v \in members' <=> v \in members
          BY <2>a, <4>2
        <5> QED BY <3>2, <4>2, <5>1, Zenon DEF AgreeInv, Matches
      <4> QED BY <4>1, <4>2
    <3> QED BY <3>1, <3>3, <3>4, Zenon DEF AgreeInv, Matches
  <2> QED BY <2>1, <2>2
<1> QED BY <1>2, <1>3, <1>4

\* The arbiter's own timers keep the agreement.
LEMMA ServerTimerAgree ==
  ASSUME TypeInv, PartInv, QueueInv, AgreeInv, ServerTimer
  PROVE  AgreeInv'
<1>0. parts \in [Users -> Part] /\ queue \in Seq(Waiter) /\ members \subseteq Users
  BY DEF TypeInv, TypeOK
<1>1. CASE T1 \/ T3
  <2>1. PICK u : EndTenure(u) /\ g # "Idle"
    BY <1>1 DEF T1, T3
  <2>2. \A v \in Users : ~IsRevoked(v)' /\ Matches(parts'[v], IsSpeaker(v)', FALSE, v \in members', InQ(queue', v))
    BY <1>0, <2>1, EndAgree DEF EndTenure
  <2> QED BY <2>2, Zenon DEF AgreeInv, Matches
<1>2. CASE T2
  <2> DEFINE p == [parts[speaker] EXCEPT !.retry = TRUE]
  <2>1. speaker \in Users /\ g = "Taken" /\ PrevokeEnter(speaker) /\ members' = members /\ queue' = queue
    BY <1>2, HolderIsUser DEF T2
  <2>2. p \in Part /\ p.part = parts[speaker].part /\ p.gTaken = parts[speaker].gTaken
    BY <1>0, <2>1 DEF Part
  <2>4. parts' = [parts EXCEPT ![speaker] = PartA(p, "Revoke")]
    BY <1>2 DEF T2
  <2> HIDE DEF p
  <2>5. p.part = "Permitted" /\ Live(p)
    BY <2>1, <2>2 DEF AgreeInv, Matches, IsSpeaker, PartInv, PartOK, Live
  <2>6. parts'[speaker].part = "Prevoke"
    BY <1>0, <2>1, <2>2, <2>4, <2>5, PartATo
  <2>7. \A v \in Users : v # speaker => parts'[v].part = parts[v].part
    BY <1>0, <2>1, <2>4
  <2> QED BY <2>1, <2>6, <2>7, RevokeAgree, Zenon
<1>3. CASE T7
  <2>1. g = "Idle" /\ UNCHANGED <<g, speaker, revoking, members, queue>> /\ parts' = Fan(parts, "Idle", members)
    BY <1>3 DEF T7, arbVars
  <2>2. ASSUME NEW v \in Users PROVE parts'[v].part = parts[v].part
    <3>1. CASE v \in members
      <4>1. parts'[v] = PartA(parts[v], "Idle") /\ parts[v] \in Part /\ Live(parts[v])
        BY <1>0, <2>1, <3>1, Zenon DEF Fan, PartInv, PartOK
      <4>2. parts[v].part \in {"NpSends", "NpIdle"}
        BY <2>1, <3>1 DEF PartInv, PartOK, KnowsIdle
      <4> QED BY <4>1, <4>2, PartATo
    <3>2. CASE v \notin members
      BY <1>0, <2>1, <3>2 DEF Fan
    <3> QED BY <3>1, <3>2
  <2> QED BY <2>1, <2>2, SameAgree
<1>4. CASE T20
  <2>1. speaker \in Users /\ g = "Taken" /\ UNCHANGED <<g, speaker, revoking, members, queue>>
    BY <1>4, HolderIsUser DEF T20, T20Armed, arbVars
  <2>2. CASE UNCHANGED parts
    BY <2>1, <2>2, SameAgree
  <2>3. CASE parts' = [parts EXCEPT ![speaker] = PartA(@, "Granted")]
    <3>1. parts[speaker].part = "Permitted" /\ speaker \in members
      BY <2>1 DEF AgreeInv, Matches, IsSpeaker
    <3>2. PartA(parts[speaker], "Granted").part = "Permitted"
      BY <1>0, <2>1, <3>1, PartATo DEF PartInv, PartOK
    <3>3. \A v \in Users : parts'[v].part = parts[v].part
      BY <1>0, <2>1, <2>3, <3>1, <3>2
    <3> QED BY <2>1, <3>3, SameAgree, Zenon
  <2> QED BY <1>4, <2>2, <2>3 DEF T20
<1> QED BY <1>1, <1>2, <1>3, <1>4 DEF ServerTimer

\* Every step of a room whose waiters stay silent keeps the agreement.
LEMMA AgreeStep ==
  ASSUME TypeInv, PartInv, QueueInv, AgreeInv, NextMuted
  PROVE  AgreeInv'
<1>1. ASSUME NEW u \in Users, NoMedia(u) \/ (~InQ(queue, u) /\ Rtp(u)) PROVE AgreeInv'
  <2>1. CASE ClientMessage(u)
    BY <2>1, RequestAgree, ReleaseAgree, UserStepAgree DEF ClientMessage
  <2>2. CASE RoomEvent(u)
    BY <2>2, UserStepAgree, PermDownAgree, RoomStepAgree DEF RoomEvent
  <2>3. CASE UserTimer(u) \/ (~InQ(queue, u) /\ Rtp(u))
    BY <2>3, UserStepAgree DEF UserTimer
  <2> QED BY <1>1, <2>1, <2>2, <2>3 DEF NoMedia
<1> QED BY <1>1, ServerTimerAgree DEF NextMuted

\* The muted floor is the floor with fewer steps, so its invariants carry over.
LEMMA MutedIsFloor == SpecMuted => Spec
<1>1. NextMuted => Next
  BY DEF NextMuted, Next
<1>2. [NextMuted]_vars => [Next]_vars
  BY <1>1
<1> QED BY <1>2, PTL DEF SpecMuted, Spec

\* All four layers of the invariant hold always when waiters stay silent.
LEMMA AgreeInvariant == SpecMuted => [](TypeInv /\ PartInv /\ QueueInv /\ AgreeInv)
<1>1. Init => AgreeInv
  BY UsersAssumption DEF Init, AgreeInv, Matches, IsSpeaker, IsRevoked, InQ, NewPart
<1>2. TypeInv /\ PartInv /\ QueueInv /\ AgreeInv /\ [NextMuted]_vars => AgreeInv'
  <2>1. AgreeInv /\ UNCHANGED vars => AgreeInv'
    BY SameAgree DEF vars, arbVars
  <2> QED BY <2>1, AgreeStep
<1>3. SpecMuted => [](TypeInv /\ PartInv /\ QueueInv)
  BY MutedIsFloor, FloorInvariant, PTL
<1> QED BY <1>1, <1>2, <1>3, PTL DEF SpecMuted

\* As long as no waiter sends media, the arbiter and the participant machines agree
\* on who speaks and whose floor is being taken back, and only members other than
\* the holder wait: no order of requests, releases, joins, leaves and timers lets
\* floor/core.rs serve a user whose machine is elsewhere.
THEOREM FloorArbPartAgree == SpecMuted => [](ArbPartAgree /\ WaitersInRoom)
<1>1. TypeInv /\ AgreeInv => ArbPartAgree /\ WaitersInRoom
  BY AgreeImplies
<1> QED BY AgreeInvariant, <1>1, PTL

-----------------------------------------------------------------------------
(* Everyone is told *)

\* v hears in this step who holds the floor.
Told(v) == \E m \in out' : m.to = v /\ m.t \in {"Granted", "Taken", "Idle", "Ack"}

\* What a participant is sent reaches it.
LEMMA SaidTold ==
  ASSUME NEW v, NEW t \in {"Granted", "Taken", "Idle"}, [to |-> v, t |-> t] \in out'
  PROVE  Told(v)
BY DEF Told

\* taken_enter tells every member who waits for news of the floor.
LEMMA TakenTold ==
  ASSUME NEW ps, NEW sp, EnterTakenOut(ps, sp) \subseteq out', NEW v \in members,
         ps[v].part \in {"NpIdle", "NpTaken"}
  PROVE  Told(v)
<1>1. CASE v = sp
  <2>1. PartASends(ps[v], "Granted")
    BY DEF PartASends
  <2>2. [to |-> v, t |-> "Granted"] \in out'
    BY <1>1, <2>1 DEF EnterTakenOut, PartAOut
  <2> QED BY <2>2, SaidTold
<1>2. CASE v # sp
  <2>1. PartASends(ps[v], "Taken")
    BY DEF PartASends
  <2>2. [to |-> v, t |-> "Taken"] \in out'
    BY <1>2, <2>1 DEF EnterTakenOut, PartAOut
  <2> QED BY <2>2, SaidTold
<1> QED BY <1>1, <1>2

\* A step that changes the holder is a grant or the end of a tenure, and both tell
\* every member except a user told to stop sending and the previous holder.
LEMMA ToldStep ==
  ASSUME TypeInv, PartInv, QueueInv, AgreeInv, Shape, Holder' # Holder, NEW v \in members
  PROVE  Told(v) \/ parts[v].part = "NpSends" \/ v = Holder
<1>0. v \in Users /\ parts[v] \in Part /\ g \in GStates
  BY Zenon DEF TypeInv, TypeOK
<1>1. CASE Grants
  <2>1. PICK u \in members : out' = EnterTakenOut(parts, u) /\ g = "Idle"
    BY <1>1 DEF Grants
  <2>2. parts[v].part \in {"NpIdle", "NpSends"}
    BY <2>1 DEF PartInv, PartOK, KnowsIdle
  <2> QED BY <2>1, <2>2, TakenTold, Zenon
<1>2. CASE Ends
  <2>1. PICK ps, said : SameStates(ps) /\ g # "Idle" /\ IdleEnter(queue, ps, Holder, said)
    BY <1>2 DEF Ends
  <2>2. ps[v].part = parts[v].part
    BY <1>0, <2>1 DEF SameStates
  <2>3. parts[v].part = "NpTaken" \/ parts[v].part = "NpSends" \/ v = Holder
    <3>1. parts[v].part \in {"NpTaken", "NpSends", "Permitted", "Prevoke"}
      BY <1>0, <2>1 DEF PartInv, PartOK, KnowsIdle, Live, Part, PStates
    <3>2. parts[v].part = "Permitted" => v = Holder
      BY <1>0 DEF AgreeInv, Matches, IsSpeaker, Holder
    <3>3. parts[v].part = "Prevoke" => v = Holder
      BY <1>0 DEF AgreeInv, Matches, IsRevoked, Holder
    <3> QED BY <3>1, <3>2, <3>3, Zenon
  <2>4. ASSUME parts[v].part = "NpTaken" PROVE Told(v)
    <3>1. CASE queue = <<>>
      <4>1. PartASends(ps[v], "Idle")
        BY <2>2, <2>4 DEF PartASends
      <4>2. PartAOut(ps, members, "Idle") \subseteq out'
        BY <2>1, <3>1 DEF IdleEnter
      <4>3. [to |-> v, t |-> "Idle"] \in out'
        BY <4>1, <4>2 DEF PartAOut
      <4> QED BY <4>3, SaidTold
    <3>2. CASE queue # <<>>
      <4>1. EnterTakenOut(ps, Head(queue).u) \subseteq out'
        BY <2>1, <3>2 DEF IdleEnter, EnterTaken
      <4> QED BY <2>2, <2>4, <4>1, TakenTold, Zenon
    <3> QED BY <3>1, <3>2
  <2> QED BY <2>3, <2>4
<1>3. CASE Preempts \/ Revokes
  <2>1. g = "Taken" /\ g' = "Prevoke" /\ revoking' = speaker
    BY <1>3 DEF Preempts, Revokes, PrevokeEnter
  <2> QED BY <2>1 DEF Holder
<1>4. CASE Enqueues \/ Dequeues \/ Keeps
  <2>1. UNCHANGED <<g, speaker, revoking>>
    BY <1>4 DEF Enqueues, Dequeues, Keeps, arbVars
  <2> QED BY <1>0, <2>1 DEF Holder, GStates
<1> QED BY <1>1, <1>2, <1>3, <1>4, Zenon DEF Shape

\* As long as no waiter sends media, every member hears of a change of the holder in
\* the step that makes it, except a user in NpSends and the previous holder.
THEOREM FloorEveryoneTold == SpecMuted => EveryoneTold
<1>1. NextMuted => Next
  BY DEF NextMuted, Next
<1>2. ASSUME TypeInv, PartInv, QueueInv, AgreeInv, NextMuted, Holder' # Holder, NEW u \in members \cap members'
      PROVE  \/ \E m \in out' : m.to = u /\ m.t \in {"Granted", "Taken", "Idle", "Ack"}
             \/ parts[u].part = "NpSends"
             \/ u = Holder
  BY <1>1, <1>2, StepShape, ToldStep DEF Told
<1>3. TypeInv /\ PartInv /\ QueueInv /\ AgreeInv /\ [NextMuted]_vars =>
        [Holder' # Holder =>
           \A u \in members \cap members' :
             \/ \E m \in out' : m.to = u /\ m.t \in {"Granted", "Taken", "Idle", "Ack"}
             \/ parts[u].part = "NpSends"
             \/ u = Holder]_vars
  BY <1>2, Zenon
<1> QED BY <1>3, AgreeInvariant, PTL DEF SpecMuted, EveryoneTold
=============================================================================
