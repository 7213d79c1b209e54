---------------------------- MODULE FloorProofs -----------------------------
(***************************************************************************)
(* What holds of the floor for every set of users, every priority range,   *)
(* every queue limit and every retransmission limit.                       *)
(*                                                                         *)
(* The inductive invariant is built in layers, each proved from the ones   *)
(* before: TypeInv, PartInv and QueueInv here, AgreeInv in                 *)
(* FloorAgreeProofs.  First come lemmas on what the operators of Floor     *)
(* return, for every argument: the queue operators, the participant        *)
(* machine, the arbiter's entries.                                         *)
(***************************************************************************)
EXTENDS Floor, TLAPS, WellFoundedInduction

-----------------------------------------------------------------------------
(* The queue operators *)

\* A non-empty set of naturals has a least element, which is what Min names.
LEMMA MinOfNats ==
  ASSUME NEW S \in SUBSET Nat, S # {}
  PROVE  Min(S) \in S /\ \A y \in S : Min(S) <= y
<1>1. PICK x \in S : \A y \in S : ~(<<y, x>> \in OpToRel(<, Nat))
  BY NatLessThanWellFounded, WFMin
<1>2. ASSUME NEW y \in S PROVE x <= y
  <2>1. <<y, x>> \in Nat \X Nat
    OBVIOUS
  <2>2. ~(y < x)
    BY <1>1, <2>1, Zenon DEF OpToRel
  <2> QED BY <2>2
<1> QED BY <1>2, Zenon DEF Min

\* What joining two sequences gives.
LEMMA ConcatFacts ==
  ASSUME NEW S, NEW a \in Seq(S), NEW b \in Seq(S)
  PROVE  a \o b \in Seq(S) /\ Len(a \o b) = Len(a) + Len(b)
OBVIOUS

\* Taking the i-th waiter out (Vec::retain) keeps the others in their order.
LEMMA RemoveFacts ==
  ASSUME NEW S, NEW q \in Seq(S), NEW i \in 1..Len(q), NEW s,
         s = SubSeq(q, 1, i - 1) \o SubSeq(q, i + 1, Len(q))
  PROVE  /\ s \in Seq(S)
         /\ Len(s) = Len(q) - 1
         /\ \A k \in 1..Len(q) - 1 : s[k] = IF k < i THEN q[k] ELSE q[k + 1]
<1> DEFINE l == SubSeq(q, 1, i - 1)
           r == SubSeq(q, i + 1, Len(q))
<1>1. /\ l \in Seq(S) /\ Len(l) = i - 1
      /\ \A k \in 1..i - 1 : l[k] = q[k]
  OBVIOUS
<1>2. /\ r \in Seq(S) /\ Len(r) = Len(q) - i
      /\ \A k \in 1..Len(q) - i : r[k] = q[k + i]
  OBVIOUS
<1>3. s = l \o r
  OBVIOUS
<1> HIDE DEF l, r
<1>4. /\ l \o r \in Seq(S) /\ Len(l \o r) = Len(q) - 1
      /\ \A k \in 1..Len(q) - 1 : (l \o r)[k] = IF k <= i - 1 THEN l[k] ELSE r[k - (i - 1)]
  <2>1. l \o r \in Seq(S) /\ Len(l \o r) = Len(q) - 1
    <3>1. l \o r \in Seq(S) /\ Len(l \o r) = Len(l) + Len(r)
      BY <1>1, <1>2, ConcatFacts, Zenon
    <3> QED BY <3>1, <1>1, <1>2
  <2>2. ASSUME NEW k \in 1..Len(q) - 1
        PROVE  (l \o r)[k] = IF k <= i - 1 THEN l[k] ELSE r[k - (i - 1)]
    <3>1. k \in 1..Len(l) + Len(r)
      BY <1>1, <1>2
    <3> QED BY <3>1, <1>1, <1>2
  <2> QED BY <2>1, <2>2, Zenon
<1>5. ASSUME NEW k \in 1..Len(q) - 1 PROVE (l \o r)[k] = IF k < i THEN q[k] ELSE q[k + 1]
  <2>1. CASE k < i BY <2>1, <1>1, <1>4
  <2>2. CASE k >= i
    <3>1. k - (i - 1) \in 1..Len(q) - i BY <2>2
    <3>2. r[k - (i - 1)] = q[k - (i - 1) + i] BY <3>1, <1>2
    <3>3. k - (i - 1) + i = k + 1 OBVIOUS
    <3> QED BY <2>2, <1>4, <3>2, <3>3
  <2>3. k < i \/ k >= i OBVIOUS
  <2> QED BY <2>1, <2>2, <2>3, Zenon
<1> QED BY <1>3, <1>4, <1>5

\* dequeue drops one waiter of u or, if there is none, nothing.
LEMMA DequeueFacts ==
  ASSUME NEW q \in Seq(Waiter), NEW u
  PROVE  \/ Dequeue(q, u) = q /\ ~InQ(q, u)
         \/ /\ Dequeue(q, u) \in Seq(Waiter)
            /\ Len(Dequeue(q, u)) = Len(q) - 1
            /\ \E i \in 1..Len(q) :
                 /\ q[i].u = u
                 /\ \A k \in 1..Len(q) - 1 : Dequeue(q, u)[k] = IF k < i THEN q[k] ELSE q[k + 1]
<1> DEFINE I == {k \in 1..Len(q) : q[k].u = u}
<1>1. CASE ~InQ(q, u)
  BY <1>1 DEF Dequeue
<1>2. CASE InQ(q, u)
  <2>1. I \in SUBSET Nat /\ I # {}
    BY <1>2 DEF InQ
  <2>2. PICK i \in I : i = Min(I)
    BY <2>1, MinOfNats, Zenon
  <2>3. Dequeue(q, u) = SubSeq(q, 1, i - 1) \o SubSeq(q, i + 1, Len(q))
    BY <1>2, <2>2 DEF Dequeue
  <2>4. i \in 1..Len(q) /\ q[i].u = u
    BY <2>2
  <2>5. /\ Dequeue(q, u) \in Seq(Waiter)
        /\ Len(Dequeue(q, u)) = Len(q) - 1
        /\ \A k \in 1..Len(q) - 1 : Dequeue(q, u)[k] = IF k < i THEN q[k] ELSE q[k + 1]
    <3> DEFINE r == Dequeue(q, u)
    <3>1. r = SubSeq(q, 1, i - 1) \o SubSeq(q, i + 1, Len(q))
      BY <2>3
    <3> HIDE DEF r, I
    <3>2. /\ r \in Seq(Waiter) /\ Len(r) = Len(q) - 1
          /\ \A k \in 1..Len(q) - 1 : r[k] = IF k < i THEN q[k] ELSE q[k + 1]
      BY <2>4, <3>1, RemoveFacts
    <3> QED BY <3>2 DEF r
  <2> QED BY <2>4, <2>5, Zenon
<1> QED BY <1>1, <1>2

\* insert_q puts the waiter behind everyone it does not outrank.
LEMMA InsertQFacts ==
  ASSUME NEW q \in Seq(Waiter), NEW w \in Waiter
  PROVE  /\ InsertQ(q, w) \in Seq(Waiter)
         /\ Len(InsertQ(q, w)) = Len(q) + 1
         /\ \E i \in 1..Len(q) + 1 :
              /\ \A k \in 1..Len(q) + 1 : InsertQ(q, w)[k] =
                   IF k < i THEN q[k] ELSE IF k = i THEN w ELSE q[k - 1]
              /\ \A j \in 1..i - 1 : ~Before(w, q[j])
              /\ i <= Len(q) => Before(w, q[i])
<1> DEFINE I == {k \in 1..Len(q) : Before(w, q[k])} \cup {Len(q) + 1}
<1>1. I \in SUBSET Nat /\ I # {}
  OBVIOUS
<1>2. PICK i \in I : i = Min(I) /\ \A j \in I : i <= j
  BY <1>1, MinOfNats, Zenon
<1>3. i \in 1..Len(q) + 1
  BY <1>2
<1>4. /\ \A j \in 1..i - 1 : ~Before(w, q[j])
      /\ i <= Len(q) => Before(w, q[i])
  <2>1. ASSUME NEW j \in 1..i - 1 PROVE j \in 1..Len(q) /\ j \notin I
    BY <1>2, <1>3
  <2> QED BY <1>2, <2>1
<1> DEFINE r == InsertQ(q, w)
<1>5. r = SubSeq(q, 1, i - 1) \o <<w>> \o SubSeq(q, i, Len(q))
  BY <1>2 DEF InsertQ
<1> HIDE DEF I, r
\* Vec::insert moves the waiters from i on back by one.
<1>6. /\ r \in Seq(Waiter) /\ Len(r) = Len(q) + 1
      /\ \A k \in 1..Len(q) + 1 : r[k] = IF k < i THEN q[k] ELSE IF k = i THEN w ELSE q[k - 1]
  <2> USE <1>3
  <2> DEFINE l == SubSeq(q, 1, i - 1)
             t == SubSeq(q, i, Len(q))
  <2>1. /\ l \in Seq(Waiter) /\ Len(l) = i - 1
        /\ \A k \in 1..i - 1 : l[k] = q[k]
    OBVIOUS
  <2>2. /\ t \in Seq(Waiter) /\ Len(t) = Len(q) - i + 1
        /\ \A k \in 1..Len(q) - i + 1 : t[k] = q[k + i - 1]
    OBVIOUS
  <2>3. r = (l \o <<w>>) \o t
    BY <1>5
  <2> HIDE DEF l, t
  <2> DEFINE m == l \o <<w>>
  <2>4. /\ m \in Seq(Waiter) /\ Len(m) = i
        /\ \A k \in 1..i : m[k] = IF k < i THEN q[k] ELSE w
    BY <2>1
  <2> HIDE DEF m
  <2>5. /\ m \o t \in Seq(Waiter) /\ Len(m \o t) = Len(q) + 1
        /\ \A k \in 1..Len(q) + 1 : (m \o t)[k] = IF k <= i THEN m[k] ELSE t[k - i]
    <3>1. m \o t \in Seq(Waiter) /\ Len(m \o t) = Len(q) + 1
      <4>1. m \o t \in Seq(Waiter) /\ Len(m \o t) = Len(m) + Len(t)
        BY <2>2, <2>4, ConcatFacts, Zenon
      <4> QED BY <4>1, <2>2, <2>4
    <3>2. ASSUME NEW k \in 1..Len(q) + 1
          PROVE  (m \o t)[k] = IF k <= i THEN m[k] ELSE t[k - i]
      <4>1. k \in 1..Len(m) + Len(t)
        BY <2>2, <2>4
      <4> QED BY <4>1, <2>2, <2>4
    <3> QED BY <3>1, <3>2, Zenon
  <2>6. ASSUME NEW k \in 1..Len(q) + 1
        PROVE  (m \o t)[k] = IF k < i THEN q[k] ELSE IF k = i THEN w ELSE q[k - 1]
    <3>1. CASE k <= i BY <3>1, <2>4, <2>5
    <3>2. CASE k > i
      <4>1. k - i \in 1..Len(q) - i + 1 BY <3>2
      <4>2. t[k - i] = q[k - i + i - 1] BY <4>1, <2>2
      <4>3. k - i + i - 1 = k - 1 OBVIOUS
      <4> QED BY <3>2, <2>5, <4>2, <4>3
    <3>3. k <= i \/ k > i OBVIOUS
    <3> QED BY <3>1, <3>2, <3>3, Zenon
  <2> QED BY <2>3, <2>5, <2>6 DEF m
<1> QED BY <1>3, <1>4, <1>6, Zenon DEF r

\* The queue's own part of the invariant, for a floor that is not idle.
QOK(q, state, prio) ==
  /\ \A i, j \in 1..Len(q) : q[i].u = q[j].u => i = j
  /\ \A i, j \in 1..Len(q) : i < j => q[i].p >= q[j].p
  /\ \A i \in 1..Len(q) : q[i].pre => i = 1 /\ state = "Prevoke"
  /\ \A i \in 1..Len(q) : IF q[i].pre THEN q[i].p > prio ELSE q[i].p <= prio
  /\ Len(q) <= QMax + (IF PreQ(q) THEN 1 ELSE 0)

\* An empty queue has it.
LEMMA EmptyQOK == ASSUME NEW state, NEW prio PROVE QOK(<<>>, state, prio)
BY BoundsAssumption DEF QOK, PreQ

\* The head and the rest of a queue that is not empty.
LEMMA HeadTail ==
  ASSUME NEW q \in Seq(Waiter), q # <<>>
  PROVE  /\ Head(q) = q[1] /\ q[1] \in Waiter
         /\ Tail(q) \in Seq(Waiter)
         /\ Len(Tail(q)) = Len(q) - 1
         /\ \A k \in 1..Len(q) - 1 : Tail(q)[k] = q[k + 1]
OBVIOUS

\* The fields of the waiters of a queue.
LEMMA WaiterPrio ==
  ASSUME NEW q \in Seq(Waiter)
  PROVE  \A i \in 1..Len(q) : q[i] \in Waiter /\ q[i].u \in Users /\ q[i].p \in Nat /\ q[i].pre \in BOOLEAN
<1>1. \A i \in 1..Len(q) : q[i] \in Waiter
  OBVIOUS
<1> QED BY <1>1, PriosAssumption DEF Waiter

\* The rest of the queue after its head got the floor.
LEMMA TailQOK ==
  ASSUME NEW q \in Seq(Waiter), q # <<>>, NEW state, NEW prio \in Nat, QOK(q, state, prio)
  PROVE  QOK(Tail(q), "Taken", Head(q).p)
<1> DEFINE r == Tail(q)
<1>1. /\ Len(r) = Len(q) - 1 /\ \A k \in 1..Len(q) - 1 : r[k] = q[k + 1]
      /\ Head(q) = q[1] /\ Len(q) \in Nat /\ Len(q) >= 1
  BY HeadTail
<1>2. \A i \in 1..Len(q) : q[i].p \in Nat
  BY WaiterPrio
<1> HIDE DEF r
<1>3. \A i, j \in 1..Len(r) : r[i].u = r[j].u => i = j
  BY <1>1 DEF QOK
<1>4. \A i, j \in 1..Len(r) : i < j => r[i].p >= r[j].p
  BY <1>1 DEF QOK
<1>5. \A i \in 1..Len(r) : ~r[i].pre
  BY <1>1 DEF QOK
<1>6. \A i \in 1..Len(r) : r[i].p <= Head(q).p
  BY <1>1, <1>2 DEF QOK
<1>7. Len(r) <= QMax
  BY <1>1, BoundsAssumption DEF QOK
<1>8. ~PreQ(r)
  BY <1>5 DEF PreQ
<1>9. QOK(r, "Taken", Head(q).p)
  BY <1>3, <1>4, <1>5, <1>6, <1>7, <1>8, BoundsAssumption DEF QOK
<1> QED BY <1>9 DEF r

\* A pre-empting waiter at the head of a queue without one.
LEMMA PreemptQOK ==
  ASSUME NEW q \in Seq(Waiter), NEW prio \in Nat, QOK(q, "Taken", prio),
         NEW u \in Users, NEW p \in Prios, ~InQ(q, u), p > prio
  PROVE  QOK(<<[u |-> u, p |-> p, pre |-> TRUE]>> \o q, "Prevoke", prio)
<1> DEFINE w == [u |-> u, p |-> p, pre |-> TRUE]
           r == <<w>> \o q
<1>0. w \in Waiter /\ w.u = u /\ w.p = p /\ w.pre /\ p \in Nat
  BY PriosAssumption DEF Waiter
<1> HIDE DEF w
<1>1. /\ Len(r) = Len(q) + 1 /\ \A k \in 1..Len(q) + 1 : r[k] = IF k = 1 THEN w ELSE q[k - 1]
      /\ Len(q) \in Nat
  BY <1>0
<1>2. \A i \in 1..Len(q) : q[i].p \in Nat /\ ~q[i].pre /\ q[i].p <= prio /\ q[i].u # u
  BY WaiterPrio DEF QOK, InQ
<1> HIDE DEF r
<1>3. \A i, j \in 1..Len(r) : r[i].u = r[j].u => i = j
  <2> TAKE i, j \in 1..Len(r)
  <2>1. CASE i = 1 \/ j = 1
    BY <1>0, <1>1, <1>2, <2>1
  <2>2. CASE i # 1 /\ j # 1
    <3>1. i - 1 \in 1..Len(q) /\ j - 1 \in 1..Len(q) /\ r[i] = q[i - 1] /\ r[j] = q[j - 1]
      BY <1>1, <2>2
    <3> QED BY <3>1 DEF QOK
  <2> QED BY <2>1, <2>2
<1>4. \A i, j \in 1..Len(r) : i < j => r[i].p >= r[j].p
  <2> TAKE i, j \in 1..Len(r)
  <2> HAVE i < j
  <2>1. j - 1 \in 1..Len(q) /\ r[j] = q[j - 1]
    BY <1>1
  <2>2. CASE i = 1
    BY <1>0, <1>1, <1>2, <2>1, <2>2
  <2>3. CASE i # 1
    <3>1. i - 1 \in 1..Len(q) /\ r[i] = q[i - 1] /\ i - 1 < j - 1
      BY <1>1, <2>3
    <3> QED BY <2>1, <3>1 DEF QOK
  <2> QED BY <2>2, <2>3
<1>5. \A i \in 1..Len(r) : r[i].pre => i = 1
  BY <1>1, <1>2
<1>6. \A i \in 1..Len(r) : IF r[i].pre THEN r[i].p > prio ELSE r[i].p <= prio
  BY <1>0, <1>1, <1>2
<1>7. ~PreQ(q) /\ PreQ(r)
  <2>1. 1 \in 1..Len(r) /\ r[1] = w
    BY <1>1
  <2> QED BY <1>0, <1>2, <2>1, Zenon DEF PreQ
<1>8. Len(r) <= QMax + 1
  BY <1>1, <1>7, BoundsAssumption DEF QOK
<1>9. QOK(r, "Prevoke", prio)
  BY <1>3, <1>4, <1>5, <1>6, <1>7, <1>8 DEF QOK
<1> QED BY <1>9 DEF r, w

\* r is q with w at place n, behind everyone of its rank or a higher one and
\* before everyone of a lower rank.
PlacedAt(q, r, w, n) ==
  /\ \A k \in 1..Len(q) + 1 : r[k] = IF k < n THEN q[k] ELSE IF k = n THEN w ELSE q[k - 1]
  /\ \A j \in 1..n - 1 : q[j].p >= w.p
  /\ \A j \in n..Len(q) : w.p > q[j].p /\ ~q[j].pre

\* insert_q puts an ordinary waiter behind everyone of its rank or a higher one
\* and before everyone of a lower rank.
LEMMA InsertPlace ==
  ASSUME NEW q \in Seq(Waiter), NEW state, NEW prio \in Nat, QOK(q, state, prio),
         NEW u \in Users, NEW p \in Prios, ~InQ(q, u), p <= prio,
         NEW w \in Waiter, w.u = u, w.p = p, w.pre = FALSE, NEW r, r = InsertQ(q, w)
  PROVE  \E n \in 1..Len(q) + 1 : PlacedAt(q, r, w, n)
<1>0. w \in Waiter /\ w.u = u /\ w.p = p /\ ~w.pre /\ w.pre = FALSE /\ p \in Nat
  BY PriosAssumption
<1>1. PICK n \in 1..Len(q) + 1 :
        /\ \A k \in 1..Len(q) + 1 : r[k] = IF k < n THEN q[k] ELSE IF k = n THEN w ELSE q[k - 1]
        /\ \A j \in 1..n - 1 : ~Before(w, q[j])
        /\ n <= Len(q) => Before(w, q[n])
  BY <1>0, InsertQFacts
<1>2. Len(r) = Len(q) + 1 /\ Len(q) \in Nat
  BY <1>0, InsertQFacts
<1>3. \A i \in 1..Len(q) : q[i].p \in Nat /\ q[i].pre \in BOOLEAN /\ q[i].u # u
  BY WaiterPrio DEF InQ
\* Everyone before the new waiter ranks no lower, everyone behind it lower.
<1>4. \A j \in 1..n - 1 : q[j].p >= p
  <2> TAKE j \in 1..n - 1
  <2>1. j \in 1..Len(q) /\ ~Before(w, q[j])
    <3>1. j \in 1..Len(q)
      BY <1>1, <1>2
    <3> QED BY <1>1, <3>1
  <2>2. CASE q[j].pre
    BY <1>0, <1>3, <2>1, <2>2 DEF QOK
  <2>3. CASE ~q[j].pre
    <3>1. q[j].pre = w.pre
      BY <1>0, <1>3, <2>1, <2>3
    <3>2. ~(p > q[j].p)
      BY <1>0, <2>1, <3>1, Zenon DEF Before
    <3> QED BY <1>0, <1>3, <2>1, <3>2
  <2> QED BY <2>2, <2>3
<1>5. \A j \in n..Len(q) : p > q[j].p /\ ~q[j].pre
  <2> TAKE j \in n..Len(q)
  <2>1. n \in 1..Len(q) /\ Before(w, q[n]) /\ j \in 1..Len(q)
    BY <1>1, <1>2
  <2>2. p > q[n].p /\ ~q[n].pre
    BY <1>0, <1>3, <2>1 DEF Before
  <2>3. q[n].p >= q[j].p /\ (j = n \/ ~q[j].pre)
    BY <1>3, <2>1 DEF QOK
  <2> QED BY <1>0, <1>3, <2>1, <2>2, <2>3
<1>6. PlacedAt(q, r, w, n)
  BY <1>0, <1>1, <1>4, <1>5, Zenon DEF PlacedAt
<1> QED BY <1>1, <1>6, Zenon

\* An ordinary waiter inserted by rank.
LEMMA InsertQOK ==
  ASSUME NEW q \in Seq(Waiter), NEW state, NEW prio \in Nat, QOK(q, state, prio),
         NEW u \in Users, NEW p \in Prios, ~InQ(q, u), p <= prio, Len(q) < QMax
  PROVE  QOK(InsertQ(q, [u |-> u, p |-> p, pre |-> FALSE]), state, prio)
<1> DEFINE w == [u |-> u, p |-> p, pre |-> FALSE]
           r == InsertQ(q, w)
<1>0. w \in Waiter /\ w.u = u /\ w.p = p /\ ~w.pre /\ w.pre = FALSE /\ p \in Nat
  BY PriosAssumption DEF Waiter
<1> HIDE DEF w
<1>a. PICK n \in 1..Len(q) + 1 : PlacedAt(q, r, w, n)
  BY <1>0, InsertPlace
<1>1. /\ \A k \in 1..Len(q) + 1 : r[k] = IF k < n THEN q[k] ELSE IF k = n THEN w ELSE q[k - 1]
      /\ \A j \in 1..n - 1 : q[j].p >= p
      /\ \A j \in n..Len(q) : p > q[j].p /\ ~q[j].pre
  BY <1>0, <1>a DEF PlacedAt
<1>2. Len(r) = Len(q) + 1 /\ Len(q) \in Nat
  BY <1>0, InsertQFacts
<1> HIDE DEF r
<1>3. \A i \in 1..Len(q) : q[i].p \in Nat /\ q[i].pre \in BOOLEAN /\ q[i].u # u
  BY WaiterPrio DEF InQ
<1>4. \A j \in 1..n - 1 : q[j].p >= p
  BY <1>1
<1>5. \A j \in n..Len(q) : p > q[j].p /\ ~q[j].pre
  BY <1>1
\* Every other place of the new queue is a place of the old one.
<1> DEFINE src(k) == IF k < n THEN k ELSE k - 1
<1>6. \A k \in 1..Len(r) : k # n => src(k) \in 1..Len(q) /\ r[k] = q[src(k)]
  BY <1>1, <1>2
<1>7. r[n] = w
  BY <1>1, <1>2
<1>8. \A i, j \in 1..Len(r) : r[i].u = r[j].u => i = j
  <2> SUFFICES ASSUME NEW i \in 1..Len(r), NEW j \in 1..Len(r), r[i].u = r[j].u PROVE i = j
    OBVIOUS
  <2>1. CASE i = n /\ j = n
    BY <2>1
  <2>2. CASE i = n /\ j # n
    BY <1>0, <1>3, <1>6, <1>7, <2>2
  <2>3. CASE i # n /\ j = n
    BY <1>0, <1>3, <1>6, <1>7, <2>3, Zenon
  <2>4. CASE i # n /\ j # n
    <3>1. PICK a \in 1..Len(q) : a = src(i) /\ r[i] = q[a]
      BY <1>6, <2>4
    <3>2. PICK b \in 1..Len(q) : b = src(j) /\ r[j] = q[b]
      BY <1>6, <2>4
    <3>3. a = b
      BY <3>1, <3>2 DEF QOK
    <3> QED BY <1>2, <2>4, <3>1, <3>2, <3>3
  <2> QED BY <2>1, <2>2, <2>3, <2>4
<1>9. \A i, j \in 1..Len(r) : i < j => r[i].p >= r[j].p
  <2> SUFFICES ASSUME NEW i \in 1..Len(r), NEW j \in 1..Len(r), i < j PROVE r[i].p >= r[j].p
    OBVIOUS
  <2>1. CASE i = n
    <3>1. j - 1 \in n..Len(q) /\ r[j] = q[j - 1] /\ j - 1 \in 1..Len(q)
      BY <1>1, <1>2, <2>1
    <3>2. q[j - 1].p \in Nat /\ p > q[j - 1].p
      BY <1>3, <1>5, <3>1
    <3> QED BY <1>0, <1>7, <2>1, <3>1, <3>2
  <2>2. CASE j = n
    <3>1. i \in 1..n - 1 /\ r[i] = q[i]
      BY <1>1, <1>2, <2>2
    <3> QED BY <1>0, <1>4, <1>7, <2>2, <3>1
  <2>3. CASE i # n /\ j # n
    <3>1. PICK a \in 1..Len(q) : a = src(i) /\ r[i] = q[a]
      BY <1>6, <2>3
    <3>2. PICK b \in 1..Len(q) : b = src(j) /\ r[j] = q[b]
      BY <1>6, <2>3
    <3>3. a < b
      BY <1>2, <2>3, <3>1, <3>2
    <3> QED BY <3>1, <3>2, <3>3 DEF QOK
  <2> QED BY <2>1, <2>2, <2>3
<1>10. \A i \in 1..Len(r) : r[i].pre => i = 1 /\ state = "Prevoke"
  <2> SUFFICES ASSUME NEW i \in 1..Len(r), r[i].pre PROVE i = 1 /\ state = "Prevoke"
    OBVIOUS
  <2>1. i # n
    BY <1>0, <1>7
  <2>2. src(i) = 1 /\ state = "Prevoke"
    BY <1>6, <2>1 DEF QOK
  <2>3. CASE i > n
    <3>1. i - 1 \in n..Len(q) /\ r[i] = q[i - 1]
      BY <1>1, <1>2, <2>3
    <3> QED BY <1>5, <3>1
  <2> QED BY <1>2, <2>1, <2>2, <2>3
<1>11. \A i \in 1..Len(r) : IF r[i].pre THEN r[i].p > prio ELSE r[i].p <= prio
  <2> TAKE i \in 1..Len(r)
  <2>1. CASE i = n
    BY <1>0, <1>7, <2>1
  <2>2. CASE i # n
    BY <1>6, <2>2 DEF QOK
  <2> QED BY <2>1, <2>2
<1>12. Len(r) <= QMax
  BY <1>2, BoundsAssumption
<1>13. QOK(r, state, prio)
  BY <1>8, <1>9, <1>10, <1>11, <1>12, <1>2, BoundsAssumption DEF QOK
<1> QED BY <1>13 DEF r, w

\* One waiter leaves.
LEMMA DequeueQOK ==
  ASSUME NEW q \in Seq(Waiter), NEW state, NEW prio \in Nat, QOK(q, state, prio), NEW u \in Users
  PROVE  QOK(Dequeue(q, u), state, prio)
<1> DEFINE r == Dequeue(q, u)
<1>1. CASE r = q
  BY <1>1
<1>2. CASE r # q
  <2>1. PICK n \in 1..Len(q) :
          \A k \in 1..Len(q) - 1 : r[k] = IF k < n THEN q[k] ELSE q[k + 1]
    BY <1>2, DequeueFacts
  <2>2. Len(r) = Len(q) - 1 /\ Len(q) \in Nat
    BY <1>2, DequeueFacts
  <2> HIDE DEF r
  <2> DEFINE src(k) == IF k < n THEN k ELSE k + 1
  <2>3. \A k \in 1..Len(r) : src(k) \in 1..Len(q) /\ r[k] = q[src(k)]
    BY <2>1, <2>2
  <2>4. \A i, j \in 1..Len(r) : r[i].u = r[j].u => i = j
    <3> SUFFICES ASSUME NEW i \in 1..Len(r), NEW j \in 1..Len(r), r[i].u = r[j].u PROVE i = j
      OBVIOUS
    <3>1. src(i) = src(j)
      BY <2>3 DEF QOK
    <3> QED BY <2>2, <3>1
  <2>5. \A i, j \in 1..Len(r) : i < j => r[i].p >= r[j].p
    <3> SUFFICES ASSUME NEW i \in 1..Len(r), NEW j \in 1..Len(r), i < j PROVE r[i].p >= r[j].p
      OBVIOUS
    <3>1. src(i) < src(j)
      BY <2>2
    <3> QED BY <2>3, <3>1 DEF QOK
  <2>6. \A i \in 1..Len(r) : r[i].pre => i = 1 /\ state = "Prevoke"
    <3> SUFFICES ASSUME NEW i \in 1..Len(r), r[i].pre PROVE i = 1 /\ state = "Prevoke"
      OBVIOUS
    <3>1. src(i) = 1 /\ state = "Prevoke"
      BY <2>3 DEF QOK
    <3> QED BY <2>2, <3>1
  <2>7. \A i \in 1..Len(r) : IF r[i].pre THEN r[i].p > prio ELSE r[i].p <= prio
    BY <2>3 DEF QOK
  <2>8. Len(r) <= QMax
    BY <2>2, BoundsAssumption DEF QOK
  <2>9. QOK(r, state, prio)
    BY <2>2, <2>4, <2>5, <2>6, <2>7, <2>8, BoundsAssumption DEF QOK
  <2> QED BY <2>9 DEF r
<1> QED BY <1>1, <1>2

-----------------------------------------------------------------------------
(* The participant machine *)

\* What the participant machine of a member satisfies on its own: it is in a
\* live state, and gTaken, which only NpSends reads, is right beforehand.
Live(p) == /\ p.part \notin {"None", "Releasing"}
           /\ p.part = "NpIdle" => ~p.gTaken
           /\ p.part = "NpTaken" => p.gTaken

\* enter_r leads to the state it is given and clears g_taken on the way to NpIdle.
LEMMA EnterRType ==
  ASSUME NEW p \in Part, NEW to \in PStates
  PROVE  /\ EnterR(p, to) \in Part /\ EnterR(p, to).part = to
         /\ to = "NpIdle" => ~EnterR(p, to).gTaken
         /\ to = "NpTaken" => EnterR(p, to).gTaken
         /\ to \notin {"NpIdle", "NpTaken"} => EnterR(p, to).gTaken = p.gTaken
BY DEF EnterR, Part, PStates

\* part_a returns a participant, whatever event it is given.
LEMMA PartAType ==
  ASSUME NEW p \in Part, NEW t \in MsgTypes
  PROVE  PartA(p, t) \in Part
<1>1. NpSendsA(p, t) \in Part
  BY DEF NpSendsA, Part
<1>2. [p EXCEPT !.c21 = 1] \in Part
  BY DEF Part
<1> QED BY <1>1, <1>2, EnterRType DEF PartA, PStates

\* A member told IDLE knows the floor is idle, one told TAKEN or GRANTED knows
\* it is not, and one told REVOKE knows what it knew.
LEMMA PartALive ==
  ASSUME NEW p \in Part, Live(p)
  PROVE  /\ Live(PartA(p, "Idle")) /\ KnowsIdle(PartA(p, "Idle"))
         /\ Live(PartA(p, "Taken")) /\ ~KnowsIdle(PartA(p, "Taken"))
         /\ Live(PartA(p, "Granted")) /\ (p.part # "NpSends" => ~KnowsIdle(PartA(p, "Granted")))
         /\ ~KnowsIdle(p) => ~KnowsIdle(PartA(p, "Granted"))
         /\ Live(PartA(p, "Revoke")) /\ (KnowsIdle(PartA(p, "Revoke")) <=> KnowsIdle(p))
<1> USE DEF Live, KnowsIdle, Part, PStates
<1>1. Live(PartA(p, "Idle")) /\ KnowsIdle(PartA(p, "Idle"))
  BY DEF PartA, EnterR, NpSendsA
<1>2. Live(PartA(p, "Taken")) /\ ~KnowsIdle(PartA(p, "Taken"))
  BY DEF PartA, EnterR, NpSendsA
<1>3. /\ Live(PartA(p, "Granted")) /\ (p.part # "NpSends" => ~KnowsIdle(PartA(p, "Granted")))
      /\ ~KnowsIdle(p) => ~KnowsIdle(PartA(p, "Granted"))
  BY DEF PartA, EnterR, NpSendsA
<1>4. Live(PartA(p, "Revoke")) /\ (KnowsIdle(PartA(p, "Revoke")) <=> KnowsIdle(p))
  BY DEF PartA, EnterR, NpSendsA
<1> QED BY <1>1, <1>2, <1>3, <1>4

\* Setting one field of one participant.
LEMMA PartFields ==
  ASSUME NEW ps \in [Users -> Part], NEW u \in Users
  PROVE  /\ \A b \in BOOLEAN : /\ [ps EXCEPT ![u].perm = b] \in [Users -> Part]
                               /\ [ps EXCEPT ![u].pubRoom = b] \in [Users -> Part]
                               /\ [ps EXCEPT ![u].retry = b] \in [Users -> Part]
                               /\ [ps EXCEPT ![u].released = b] \in [Users -> Part]
         /\ \A n \in Nat : /\ [ps EXCEPT ![u].c8 = n] \in [Users -> Part]
                           /\ [ps EXCEPT ![u].c21 = n] \in [Users -> Part]
         /\ ps[u].c8 \in Nat /\ ps[u].c21 \in Nat
<1>1. \A b \in BOOLEAN : [ps EXCEPT ![u].perm = b] \in [Users -> Part]
  BY DEF Part
<1>2. \A b \in BOOLEAN : [ps EXCEPT ![u].pubRoom = b] \in [Users -> Part]
  BY DEF Part
<1>3. \A b \in BOOLEAN : [ps EXCEPT ![u].retry = b] \in [Users -> Part]
  BY DEF Part
<1>4. \A b \in BOOLEAN : [ps EXCEPT ![u].released = b] \in [Users -> Part]
  BY DEF Part
<1>5. \A n \in Nat : [ps EXCEPT ![u].c8 = n] \in [Users -> Part]
  BY DEF Part
<1>6. \A n \in Nat : [ps EXCEPT ![u].c21 = n] \in [Users -> Part]
  BY DEF Part
<1>7. ps[u].c8 \in Nat /\ ps[u].c21 \in Nat
  BY DEF Part
<1> QED BY <1>1, <1>2, <1>3, <1>4, <1>5, <1>6, <1>7, Zenon

\* The messages and participants an operation leaves are well-typed.
LEMMA PartAOutType ==
  ASSUME NEW ps, NEW S \in SUBSET Users, NEW t \in MsgTypes
  PROVE  PartAOut(ps, S, t) \in SUBSET Message
BY DEF PartAOut, Message

\* What `send` produces are messages.
LEMMA SendType ==
  ASSUME NEW u \in Users, NEW t \in MsgTypes
  PROVE  Send(u, t) \in SUBSET Message
BY DEF Send, Message

\* `fan` keeps every participant a participant.
LEMMA FanType ==
  ASSUME NEW ps \in [Users -> Part], NEW t \in MsgTypes, NEW S
  PROVE  Fan(ps, t, S) \in [Users -> Part]
BY PartAType DEF Fan

\* enter_taken keeps participants participants and sends messages.
LEMMA EnterTakenType ==
  ASSUME NEW ps \in [Users -> Part], NEW sp \in Users, members \in SUBSET Users
  PROVE  /\ EnterTakenParts(ps, sp) \in [Users -> Part]
         /\ EnterTakenOut(ps, sp) \in SUBSET Message
<1>1. EnterTakenOut(ps, sp) \in SUBSET Message
  BY PartAOutType DEF EnterTakenOut, MsgTypes
<1>2. Fan(ps, "Taken", members \ {sp}) \in [Users -> Part] /\ PartA(ps[sp], "Granted") \in Part
  BY FanType, PartAType DEF MsgTypes
<1>3. EnterTakenParts(ps, sp) \in [Users -> Part]
  BY <1>2 DEF EnterTakenParts
<1> QED BY <1>1, <1>3

\* idle_enter keeps every participant a participant.
LEMMA IdlePartsType ==
  ASSUME NEW q \in Seq(Waiter), NEW ps \in [Users -> Part], members \in SUBSET Users
  PROVE  IdleParts(q, ps) \in [Users -> Part]
<1>1. CASE q = <<>>
  BY <1>1, FanType DEF IdleParts, MsgTypes
<1>2. CASE q # <<>>
  <2>1. Head(q).u \in Users
    BY <1>2, HeadTail DEF Waiter
  <2> QED BY <1>2, <2>1, EnterTakenType DEF IdleParts
<1> QED BY <1>1, <1>2

-----------------------------------------------------------------------------
(* The arbiter *)

\* TypeOK without members and parts, which the entry actions leave open.
ArbType ==
  /\ g \in GStates
  /\ speaker \in Users \cup {NoUser}
  /\ revoking \in Users \cup {NoUser}
  /\ prev \in Users \cup {NoUser}
  /\ sprio \in Nat /\ rprio \in Nat
  /\ queue \in Seq(Waiter)
  /\ succ \in BOOLEAN /\ rtpSeen \in BOOLEAN /\ firstRtp \in BOOLEAN /\ idleBcast \in BOOLEAN
  /\ c20 \in 0..C20 + 1
  /\ c7 \in 0..C7 + 1
  /\ out \in SUBSET Message
  /\ fx \in Effect

TypeInv == TypeOK /\ HolderMatchesG

\* idle_enter leaves the arbiter in Idle, or in Taken with the head of the queue.
LEMMA IdleEnterType ==
  ASSUME TypeInv, NEW ps \in [Users -> Part],
         NEW last \in Users, NEW said \in SUBSET Message,
         IdleEnter(queue, ps, last, said)
  PROVE  ArbType' /\ HolderMatchesG'
<1> USE DEF TypeInv, TypeOK
<1>0. 1 \in 0..C20 + 1 /\ 1 \in 0..C7 + 1
  BY BoundsAssumption
<1>1. CASE queue = <<>>
  <2>1. said \cup PartAOut(ps, members, "Idle") \in SUBSET Message
    BY PartAOutType DEF MsgTypes
  <2>2. Release(last) \in Effect
    BY DEF Release, Effect
  <2>3. ArbType'
    BY <1>0, <1>1, <2>1, <2>2, Zenon DEF IdleEnter, ArbType, GStates
  <2>4. HolderMatchesG'
    BY <1>1 DEF IdleEnter, HolderMatchesG
  <2> QED BY <2>3, <2>4
<1>2. CASE queue # <<>>
  <2> DEFINE w == Head(queue)
  <2>1. w \in Waiter /\ Tail(queue) \in Seq(Waiter)
    BY <1>2, HeadTail
  <2>2. w.u \in Users /\ w.p \in Nat /\ w.u # NoUser
    BY <2>1, UsersAssumption, PriosAssumption DEF Waiter
  <2>3. said \cup EnterTakenOut(ps, w.u) \in SUBSET Message
    BY <2>2, EnterTakenType
  <2>4. Bind(w.u) \in Effect
    BY <2>2 DEF Bind, Effect
  <2>5. /\ prev' = last /\ revoking' = NoUser
        /\ queue' = Tail(queue) /\ succ' = TRUE /\ c20' = 1
        /\ EnterTaken(w.u, w.p, said \cup EnterTakenOut(ps, w.u))
    BY <1>2 DEF IdleEnter
  <2> HIDE DEF w
  <2>6. ArbType'
    BY <1>0, <2>1, <2>2, <2>3, <2>4, <2>5, Zenon DEF EnterTaken, ArbType, GStates
  <2>7. HolderMatchesG'
    BY <2>2, <2>5 DEF EnterTaken, HolderMatchesG
  <2> QED BY <2>6, <2>7
<1> QED BY <1>1, <1>2

-----------------------------------------------------------------------------
(* Types, and who is speaker or revoking in which arbiter state *)

\* The invariant of a next state, put together from its parts.
LEMMA TypeFromParts ==
  ASSUME ArbType', HolderMatchesG', members' \in SUBSET Users, parts' \in [Users -> Part]
  PROVE  TypeInv'
BY Zenon DEF ArbType, TypeInv, TypeOK

\* An operation that only talks keeps the arbiter's types.
LEMMA SayType ==
  ASSUME TypeInv, NEW o \in SUBSET Message, Say(o), queue' \in Seq(Waiter),
         parts' \in [Users -> Part]
  PROVE  TypeInv'
<1>1. NoFx \in Effect
  BY DEF NoFx, Effect
<1>2. ArbType'
  BY <1>1, Zenon DEF TypeInv, TypeOK, ArbType, Say, arbVars, timeVars
<1>3. HolderMatchesG' /\ members' \in SUBSET Users
  BY Zenon DEF TypeInv, TypeOK, HolderMatchesG, Say, arbVars, timeVars
<1> QED BY <1>2, <1>3, TypeFromParts

\* A step that only answers a message keeps the invariant.
LEMMA ReplyType ==
  ASSUME TypeInv, NEW o \in SUBSET Message, Reply(o)
  PROVE  TypeInv'
BY SayType DEF Reply, TypeInv, TypeOK

\* The end of a tenure (idle_enter) keeps the invariant.
LEMMA EndTenureType ==
  ASSUME TypeInv, NEW ps \in [Users -> Part], NEW last \in Users, NEW said \in SUBSET Message,
         IdleEnter(queue, ps, last, said), parts' = IdleParts(queue, ps), UNCHANGED members
  PROVE  TypeInv'
<1>1. parts' \in [Users -> Part] /\ members' \in SUBSET Users
  BY IdlePartsType DEF TypeInv, TypeOK
<1> QED BY <1>1, IdleEnterType, TypeFromParts

\* prevoke_enter moves the speaker to revoking.
LEMMA PrevokeType ==
  ASSUME TypeInv, NEW u \in Users, g = "Taken", PrevokeEnter(u),
         out' \in SUBSET Message, fx' = NoFx, UNCHANGED timeVars, queue' \in Seq(Waiter)
  PROVE  ArbType' /\ HolderMatchesG'
<1>1. NoFx \in Effect
  BY DEF NoFx, Effect
<1>2. ArbType'
  BY <1>1, Zenon DEF TypeInv, TypeOK, ArbType, PrevokeEnter, timeVars, GStates
<1>3. HolderMatchesG'
  BY UsersAssumption, Zenon DEF HolderMatchesG, PrevokeEnter, TypeInv
<1> QED BY <1>2, <1>3

\* A taken floor has a speaker and a revoked one a user being revoked.
LEMMA HolderIsUser ==
  ASSUME TypeInv
  PROVE  /\ g = "Taken" => speaker \in Users
         /\ g = "Prevoke" => revoking \in Users
         /\ g # "Idle" => Holder \in Users
         /\ g = "Idle" => Holder = NoUser
BY DEF TypeInv, TypeOK, HolderMatchesG, Holder, GStates

\* A FLOOR_REQUEST keeps the type invariant.
LEMMA RxRequestType ==
  ASSUME TypeInv, NEW u \in Users, NEW p \in Prios, NEW half \in BOOLEAN, RxRequest(u, p, half)
  PROVE  TypeInv'
<1>0. /\ Send(u, "Deny") \in SUBSET Message /\ Send(u, "Qinfo") \in SUBSET Message
      /\ Send(u, "Granted") \in SUBSET Message /\ {} \in SUBSET Message
  BY SendType DEF MsgTypes
<1>1. CASE \E o \in {Send(u, "Deny"), Send(u, "Qinfo"), Send(u, "Granted"), {}} : Reply(o)
  BY <1>0, <1>1, ReplyType
<1>2. CASE /\ EnterTaken(u, p, EnterTakenOut(parts, u)) /\ g = "Idle"
           /\ succ' = FALSE /\ c20' = 0
           /\ parts' = EnterTakenParts(parts, u)
           /\ UNCHANGED <<revoking, prev, queue, members>>
  <2>1. parts' \in [Users -> Part] /\ EnterTakenOut(parts, u) \in SUBSET Message
    BY <1>2, EnterTakenType DEF TypeInv, TypeOK
  <2>2. Bind(u) \in Effect /\ p \in Nat /\ 0 \in 0..C20 + 1 /\ u # NoUser
    BY UsersAssumption, PriosAssumption, BoundsAssumption DEF Bind, Effect
  <2>3. ArbType'
    BY <1>2, <2>1, <2>2, Zenon DEF TypeInv, TypeOK, ArbType, EnterTaken, GStates
  <2>4. HolderMatchesG' /\ members' \in SUBSET Users
    BY <1>2, <2>2, UsersAssumption DEF TypeInv, TypeOK, HolderMatchesG, EnterTaken
  <2> QED BY <2>1, <2>3, <2>4, TypeFromParts
<1>3. CASE g = "Taken" /\ ArbPreempt(u, p)
  <2>1. speaker \in Users
    BY <1>3, HolderIsUser
  <2>2. PartA(parts[speaker], "Revoke") \in Part
    BY <2>1, PartAType DEF TypeInv, TypeOK, MsgTypes
  <2>3. parts' \in [Users -> Part] /\ members' \in SUBSET Users
    BY <1>3, <2>1, <2>2 DEF ArbPreempt, TypeInv, TypeOK
  <2>4. [u |-> u, p |-> p, pre |-> TRUE] \in Waiter
    BY DEF Waiter
  <2>5. queue' \in Seq(Waiter)
    BY <1>3, <2>4 DEF ArbPreempt, TypeInv, TypeOK
  <2>6. PartAOut(parts, {speaker}, "Revoke") \in SUBSET Message
    BY <2>1, PartAOutType DEF MsgTypes
  <2>7. out' \in SUBSET Message
    BY <1>0, <1>3, <2>6 DEF ArbPreempt
  <2>8. ArbType' /\ HolderMatchesG'
    BY <1>3, <2>1, <2>5, <2>7, PrevokeType DEF ArbPreempt
  <2> QED BY <2>3, <2>8, TypeFromParts
<1>4. CASE /\ queue' = InsertQ(queue, [u |-> u, p |-> p, pre |-> FALSE])
           /\ Say(Send(u, "Qinfo"))
           /\ UNCHANGED parts
  <2>1. [u |-> u, p |-> p, pre |-> FALSE] \in Waiter
    BY DEF Waiter
  <2>2. queue' \in Seq(Waiter) /\ parts' \in [Users -> Part]
    BY <1>4, <2>1, InsertQFacts DEF TypeInv, TypeOK
  <2> QED BY <1>0, <1>4, <2>2, SayType
<1> QED
  BY <1>1, <1>2, <1>3, <1>4, Zenon DEF RxRequest, ArbReqIdle, TakenReq

\* A FLOOR_RELEASE keeps the type invariant.
LEMMA RxReleaseType ==
  ASSUME TypeInv, NEW u \in Users, RxRelease(u)
  PROVE  TypeInv'
<1> USE DEF TypeInv, TypeOK
<1>0. \A t \in MsgTypes : Send(u, t) \in SUBSET Message
  BY SendType
<1>1. CASE /\ queue' = Dequeue(queue, u)
           /\ Say(Send(u, "Ack") \cup Send(u, "Idle"))
           /\ UNCHANGED parts
  <2>1. Send(u, "Ack") \cup Send(u, "Idle") \in SUBSET Message
    BY <1>0 DEF MsgTypes
  <2>2. queue' \in Seq(Waiter)
    BY <1>1, DequeueFacts
  <2> QED BY <1>1, <2>1, <2>2, SayType
<1>2. CASE /\ queue' = Dequeue(queue, u)
           /\ Say(Send(u, "Ack") \cup Send(u, "Taken"))
           /\ parts' = [parts EXCEPT ![u].c21 = 1]
  <2>1. Send(u, "Ack") \cup Send(u, "Taken") \in SUBSET Message
    BY <1>0 DEF MsgTypes
  <2>2. queue' \in Seq(Waiter)
    BY <1>2, DequeueFacts
  <2>3. parts' \in [Users -> Part]
    BY <1>2 DEF Part
  <2> QED BY <1>2, <2>1, <2>2, <2>3, SayType
<1>3. CASE ArbRel(u)
  <2> DEFINE ps == IF parts[u].part = "Permitted" THEN [parts EXCEPT ![u].released = TRUE] ELSE parts
  <2>1. ps \in [Users -> Part]
    BY DEF Part
  <2>2. Send(u, "Ack") \in SUBSET Message
    BY <1>0 DEF MsgTypes
  <2>3. CASE /\ IdleEnter(queue, ps, u, Send(u, "Ack"))
             /\ parts' = IdleParts(queue, ps)
             /\ UNCHANGED members
    <3> HIDE DEF ps
    <3> QED BY <2>1, <2>2, <2>3, EndTenureType, Zenon
  <2>4. CASE /\ Say(Send(u, "Ack")) /\ parts' = ps /\ UNCHANGED queue
    <3> HIDE DEF ps
    <3> QED BY <2>1, <2>2, <2>4, SayType
  <2> QED BY <1>3, <2>3, <2>4, Zenon DEF ArbRel
<1>4. CASE LET to == IF parts[u].gTaken THEN "NpTaken" ELSE "NpIdle"
               t == IF parts[u].gTaken THEN "Taken" ELSE "Idle"
           IN  /\ parts' = [parts EXCEPT ![u] = EnterR(@, to)]
               /\ Say(Send(u, "Ack") \cup Send(u, t))
               /\ UNCHANGED queue
  <2> DEFINE to == IF parts[u].gTaken THEN "NpTaken" ELSE "NpIdle"
             t == IF parts[u].gTaken THEN "Taken" ELSE "Idle"
  <2>1. to \in PStates /\ t \in MsgTypes
    BY DEF PStates, MsgTypes
  <2>2. /\ parts' = [parts EXCEPT ![u] = EnterR(@, to)]
        /\ Say(Send(u, "Ack") \cup Send(u, t))
        /\ UNCHANGED queue
    BY <1>4
  <2> HIDE DEF to, t
  <2>3. Send(u, "Ack") \cup Send(u, t) \in SUBSET Message
    BY <1>0, <2>1 DEF MsgTypes
  <2>4. EnterR(parts[u], to) \in Part
    BY <2>1, EnterRType
  <2>5. parts' \in [Users -> Part]
    BY <2>2, <2>4, Zenon
  <2> QED BY <2>2, <2>3, <2>5, SayType
<1> QED BY <1>1, <1>2, <1>3, <1>4, Zenon DEF RxRelease

\* Operations that only talk and touch one participant, and media.
LEMMA UserStepType ==
  ASSUME TypeInv, NEW u \in Users,
         \/ RxAckTaken(u) \/ RxQposReq(u) \/ Ready(u) \/ PermUp(u) \/ WsPubSelect(u)
         \/ T8(u) \/ T9(u) \/ T21(u) \/ Rtp(u)
  PROVE  TypeInv'
<1> USE DEF TypeInv, TypeOK
<1>0. \A t \in MsgTypes : Send(u, t) \in SUBSET Message
  BY SendType
<1>1. CASE RxQposReq(u)
  BY <1>0, <1>1, ReplyType DEF RxQposReq, MsgTypes
<1>2. CASE Ready(u)
  <2>1. PICK o \in {{}, Send(u, "Idle"), Send(u, "Taken")} : Reply(o)
    BY <1>2 DEF Ready
  <2>2. o \in SUBSET Message
    BY <1>0 DEF MsgTypes
  <2> QED BY <2>1, <2>2, ReplyType
<1>3. CASE RxAckTaken(u) \/ PermUp(u) \/ WsPubSelect(u) \/ T9(u)
  <2>1. Say({}) /\ UNCHANGED queue
    BY <1>3 DEF RxAckTaken, PermUp, WsPubSelect, T9
  <2>2. parts' \in [Users -> Part]
    <3>1. CASE RxAckTaken(u)
      BY <3>1, PartFields, 0 \in Nat, Zenon DEF RxAckTaken
    <3>2. CASE PermUp(u)
      BY <3>2, PartFields, Zenon DEF PermUp
    <3>3. CASE WsPubSelect(u)
      BY <3>3, PartFields, Zenon DEF WsPubSelect
    <3>4. CASE T9(u)
      BY <3>4, PartFields, Zenon DEF T9
    <3> QED BY <1>3, <3>1, <3>2, <3>3, <3>4
  <2>3. {} \in SUBSET Message
    OBVIOUS
  <2> QED BY <2>1, <2>2, <2>3, SayType
<1>4. CASE T8(u)
  <2>1. parts' \in [Users -> Part]
    <3>1. parts[u].c8 + 1 \in Nat
      BY PartFields
    <3> QED BY <1>4, <3>1, PartFields, Zenon DEF T8
  <2>2. Send(u, "Revoke") \in SUBSET Message
    BY <1>0 DEF MsgTypes
  <2> QED BY <1>4, <2>1, <2>2, SayType DEF T8
<1>5. CASE T21(u)
  <2>1. parts' \in [Users -> Part]
    <3>1. parts[u].c21 + 1 \in Nat
      BY PartFields
    <3> QED BY <1>5, <3>1, PartFields, Zenon DEF T21
  <2>2. PICK o \in {Send(u, "Taken"), {}} : Say(o)
    BY <1>5 DEF T21
  <2>3. o \in SUBSET Message
    BY <1>0 DEF MsgTypes
  <2> QED BY <1>5, <2>1, <2>2, <2>3, SayType DEF T21
<1>6. CASE Rtp(u)
  <2>1. EnterR(parts[u], "NpSends") \in Part
    BY EnterRType DEF PStates
  <2>2. parts' \in [Users -> Part]
    BY <1>6, <2>1 DEF Rtp
  <2>3. Send(u, "Revoke") \in SUBSET Message /\ NoFx \in Effect
    BY <1>0 DEF MsgTypes, NoFx, Effect
  <2>4. out' \in SUBSET Message
    BY <1>6, <2>3 DEF Rtp
  <2>5. rtpSeen' \in BOOLEAN /\ firstRtp' \in BOOLEAN
    BY <1>6, Zenon DEF Rtp
  <2>6. /\ UNCHANGED <<g, speaker, sprio, revoking, rprio, prev, queue, members, succ, c20, c7, idleBcast>>
        /\ fx' = NoFx
    BY <1>6 DEF Rtp, arbVars
  <2>7. ArbType' /\ HolderMatchesG' /\ members' \in SUBSET Users
    BY <2>3, <2>4, <2>5, <2>6, Zenon DEF ArbType, HolderMatchesG
  <2> QED BY <2>2, <2>7, TypeFromParts
<1> QED BY <1>1, <1>2, <1>3, <1>4, <1>5, <1>6

\* Losing the permission to speak keeps the type invariant.
LEMMA PermDownType ==
  ASSUME TypeInv, NEW u \in Users, PermDown(u)
  PROVE  TypeInv'
<1> USE DEF TypeInv, TypeOK
<1> DEFINE ps == [parts EXCEPT ![u].perm = FALSE]
<1>1. ps \in [Users -> Part]
  BY PartFields, Zenon
<1>2. CASE IsSpeaker(u)
  <2>1. /\ PrevokeEnter(u)
        /\ parts' = [ps EXCEPT ![u] = PartA(@, "Revoke")]
        /\ out' = PartAOut(parts, {u}, "Revoke") /\ fx' = NoFx
        /\ UNCHANGED <<timeVars, queue, members>>
    BY <1>2, Zenon DEF PermDown
  <2> HIDE DEF ps
  <2>2. PartA(ps[u], "Revoke") \in Part
    BY <1>1, PartAType DEF MsgTypes
  <2>3. parts' \in [Users -> Part] /\ members' \in SUBSET Users
    BY <1>1, <2>1, <2>2
  <2>4. out' \in SUBSET Message
    BY <2>1, PartAOutType DEF MsgTypes
  <2>5. ArbType' /\ HolderMatchesG'
    BY <1>2, <2>1, <2>4, PrevokeType DEF IsSpeaker
  <2> QED BY <2>3, <2>5, TypeFromParts
<1>3. CASE ~IsSpeaker(u)
  <2>1. PICK o \in {Send(u, "Deny"), {}} : Say(o)
    BY <1>3 DEF PermDown
  <2>2. parts' = ps /\ queue' = Dequeue(queue, u)
    BY <1>3 DEF PermDown
  <2> HIDE DEF ps
  <2>3. o \in SUBSET Message
    BY SendType DEF MsgTypes
  <2>4. queue' \in Seq(Waiter)
    BY <2>2, DequeueFacts
  <2> QED BY <1>1, <2>1, <2>2, <2>3, <2>4, SayType
<1> QED BY <1>2, <1>3

\* away keeps the arbiter's types, and the participants it leaves are typed.
LEMMA AwayType ==
  ASSUME TypeInv, NEW u \in Users, NEW ps \in [Users -> Part], Away(u, ps)
  PROVE  /\ ArbType' /\ HolderMatchesG'
         /\ AwayParts(u, ps) \in [Users -> Part]
<1> USE DEF TypeInv, TypeOK
<1>1. CASE IsSpeaker(u)
  <2>1. IdleEnter(queue, ps, u, {}) /\ {} \in SUBSET Message
    BY <1>1 DEF Away
  <2>2. AwayParts(u, ps) \in [Users -> Part]
    BY <1>1, IdlePartsType DEF AwayParts
  <2> QED BY <2>1, <2>2, IdleEnterType
<1>2. CASE ~IsSpeaker(u)
  <2>1. /\ queue' \in {queue, Dequeue(queue, u)}
        /\ out' = {} /\ fx' = NoFx
        /\ UNCHANGED <<arbVars, timeVars>>
    BY <1>2 DEF Away
  <2>2. queue' \in Seq(Waiter)
    BY <2>1, DequeueFacts
  <2>3. NoFx \in Effect /\ {} \in SUBSET Message
    BY DEF NoFx, Effect
  <2>4. ArbType' /\ HolderMatchesG'
    BY <2>1, <2>2, <2>3, Zenon DEF ArbType, HolderMatchesG, arbVars, timeVars
  <2> QED BY <1>2, <2>4 DEF AwayParts
<1> QED BY <1>1, <1>2

\* Leaving, moving away and joining keep the type invariant.
LEMMA RoomStepType ==
  ASSUME TypeInv, NEW u \in Users,
         WsPubAway(u) \/ WsLeave(u) \/ \E perm \in BOOLEAN : WsJoin(u, perm)
  PROVE  TypeInv'
<1> USE DEF TypeInv, TypeOK
<1>0. [parts EXCEPT ![u].pubRoom = FALSE] \in [Users -> Part]
  BY PartFields, Zenon
<1>1. CASE WsPubAway(u)
  BY <1>0, <1>1, AwayType, TypeFromParts DEF WsPubAway
<1>2. CASE WsLeave(u)
  <2> DEFINE ps == [parts EXCEPT ![u].pubRoom = FALSE]
  <2>1. /\ Away(u, ps) /\ members' = members \ {u}
        /\ parts' = [AwayParts(u, ps) EXCEPT ![u].retry = FALSE, ![u].part = "Releasing"]
    BY <1>2, Zenon DEF WsLeave
  <2>2. ArbType' /\ HolderMatchesG' /\ AwayParts(u, ps) \in [Users -> Part]
    BY <1>0, <2>1, AwayType
  <2> HIDE DEF ps
  <2>3. parts' \in [Users -> Part]
    <3> DEFINE qs == AwayParts(u, ps)
    <3>0. ASSUME NEW p \in Part
          PROVE  [[p EXCEPT !.retry = FALSE] EXCEPT !.part = "Releasing"] \in Part
      BY DEF Part, PStates
    <3>1. [[qs[u] EXCEPT !.retry = FALSE] EXCEPT !.part = "Releasing"] \in Part
      BY <2>2, <3>0, Zenon
    <3>2. parts' = [qs EXCEPT ![u] = [[qs[u] EXCEPT !.retry = FALSE] EXCEPT !.part = "Releasing"]]
      BY <2>1, <2>2
    <3> HIDE DEF qs
    <3> QED BY <2>2, <3>1, <3>2 DEF qs
  <2> QED BY <2>1, <2>2, <2>3, TypeFromParts
<1>3. ASSUME NEW perm \in BOOLEAN, WsJoin(u, perm) PROVE TypeInv'
  <2>0. ASSUME NEW p \in Part, NEW taken \in BOOLEAN PROVE Joined(p, perm, taken) \in Part
    BY DEF Joined, Part, PStates
  <2>1. members' \in SUBSET Users
    BY <1>3, Zenon DEF WsJoin
  <2>2. CASE IsRevoked(u)
    <3>1. /\ IdleEnter(queue, parts, u, {}) /\ {} \in SUBSET Message
          /\ parts' = [IdleParts(queue, parts) EXCEPT ![u] = Joined(@, perm, queue # <<>>)]
      BY <1>3, <2>2, Zenon DEF WsJoin
    <3>2. ArbType' /\ HolderMatchesG'
      BY <3>1, IdleEnterType
    <3>3. IdleParts(queue, parts) \in [Users -> Part]
      BY IdlePartsType
    <3>4. Joined(IdleParts(queue, parts)[u], perm, queue # <<>>) \in Part
      BY <2>0, <3>3
    <3>5. parts' \in [Users -> Part]
      BY <3>1, <3>3, <3>4
    <3> QED BY <2>1, <3>2, <3>5, TypeFromParts
  <2>3. CASE ~IsRevoked(u)
    <3>1. /\ parts' = [parts EXCEPT ![u] = Joined(@, perm, Holder # NoUser)]
          /\ out' = {} /\ fx' = NoFx
          /\ UNCHANGED <<arbVars, timeVars, queue>>
      BY <1>3, <2>3, Zenon DEF WsJoin
    <3>2. NoFx \in Effect /\ {} \in SUBSET Message
      BY DEF NoFx, Effect
    <3>3. ArbType' /\ HolderMatchesG'
      BY <3>1, <3>2, Zenon DEF ArbType, HolderMatchesG, arbVars, timeVars
    <3>4. Joined(parts[u], perm, Holder # NoUser) \in Part
      BY <2>0
    <3>5. parts' \in [Users -> Part]
      BY <3>1, <3>4
    <3> QED BY <2>1, <3>3, <3>5, TypeFromParts
  <2> QED BY <2>2, <2>3
<1> QED BY <1>1, <1>2, <1>3

\* The arbiter's timers keep the type invariant.
LEMMA ServerTimerType ==
  ASSUME TypeInv, ServerTimer
  PROVE  TypeInv'
<1> USE DEF TypeInv, TypeOK
<1>0. NoFx \in Effect /\ {} \in SUBSET Message
  BY DEF NoFx, Effect
<1>1. CASE T1 \/ T3
  <2>1. PICK u \in Users : EndTenure(u)
    BY <1>1, HolderIsUser, Zenon DEF T1, T3
  <2> QED BY <1>0, <2>1, EndTenureType DEF EndTenure
<1>2. CASE T2
  <2> DEFINE p == [parts[speaker] EXCEPT !.retry = TRUE]
  <2>1. speaker \in Users /\ g = "Taken"
    BY <1>2, HolderIsUser DEF T2
  <2>2. p \in Part
    BY <2>1 DEF Part
  <2>3. parts' = [parts EXCEPT ![speaker] = PartA(p, "Revoke")]
    BY <1>2 DEF T2
  <2> HIDE DEF p
  <2>4. PartA(p, "Revoke") \in Part
    BY <2>2, PartAType DEF MsgTypes
  <2>5. parts' \in [Users -> Part] /\ members' \in SUBSET Users
    BY <1>2, <2>3, <2>4 DEF T2
  <2>6. out' \in SUBSET Message
    BY <1>2, <2>1, PartAOutType DEF T2, MsgTypes
  <2>7. ArbType' /\ HolderMatchesG'
    BY <1>2, <2>1, <2>6, PrevokeType DEF T2
  <2> QED BY <2>5, <2>7, TypeFromParts
<1>3. CASE T7
  <2>1. c7' \in 0..C7 + 1
    BY <1>3, BoundsAssumption DEF T7
  <2>2. parts' \in [Users -> Part] /\ members' \in SUBSET Users /\ out' \in SUBSET Message
    BY <1>3, FanType, PartAOutType DEF T7, MsgTypes
  <2>3. ArbType' /\ HolderMatchesG'
    BY <1>0, <1>3, <2>1, <2>2, Zenon DEF T7, ArbType, HolderMatchesG, arbVars
  <2> QED BY <2>2, <2>3, TypeFromParts
<1>4. CASE T20
  <2>0. speaker \in Users
    BY <1>4, HolderIsUser DEF T20, T20Armed
  <2>1. c20' \in 0..C20 + 1
    BY <1>4, BoundsAssumption DEF T20, T20Armed
  <2>2. PartA(parts[speaker], "Granted") \in Part
    BY <2>0, PartAType DEF MsgTypes
  <2>3. parts' \in [Users -> Part] /\ members' \in SUBSET Users
    BY <1>4, <2>2 DEF T20
  <2>4. PartAOut(parts, {speaker}, "Granted") \in SUBSET Message
    BY <2>0, PartAOutType DEF MsgTypes
  <2>5. out' \in SUBSET Message
    BY <1>4, <2>4 DEF T20
  <2>6. ArbType' /\ HolderMatchesG'
    BY <1>0, <1>4, <2>1, <2>5, Zenon DEF T20, ArbType, HolderMatchesG, arbVars
  <2> QED BY <2>3, <2>6, TypeFromParts
<1> QED BY <1>1, <1>2, <1>3, <1>4 DEF ServerTimer

\* The floor of a new room (Floor::new) satisfies the type invariant.
LEMMA TypeInit == Init => TypeInv
<1>1. NewPart \in Part /\ NoFx \in Effect
  BY DEF NewPart, Part, PStates, NoFx, Effect
<1>2. <<>> \in Seq(Waiter) /\ 0 \in Nat /\ 0 \in 0..C20 + 1 /\ 0 \in 0..C7 + 1
  BY BoundsAssumption
<1>3. Init => parts \in [Users -> Part]
  BY <1>1 DEF Init
<1>4. Init => HolderMatchesG
  BY DEF Init, HolderMatchesG
<1> QED BY <1>1, <1>2, <1>3, <1>4, Zenon DEF Init, TypeInv, TypeOK, GStates

\* Every step keeps the type invariant.
LEMMA TypeStep ==
  ASSUME TypeInv, Next
  PROVE  TypeInv'
<1>1. ASSUME NEW u \in Users, NoMedia(u) \/ Rtp(u) PROVE TypeInv'
  <2>1. CASE ClientMessage(u)
    BY <2>1, RxRequestType, RxReleaseType, UserStepType DEF ClientMessage
  <2>2. CASE RoomEvent(u)
    BY <2>2, UserStepType, PermDownType, RoomStepType DEF RoomEvent
  <2>3. CASE UserTimer(u) \/ Rtp(u)
    BY <2>3, UserStepType DEF UserTimer
  <2> QED BY <1>1, <2>1, <2>2, <2>3 DEF NoMedia
<1> QED BY <1>1, ServerTimerType DEF Next

\* A step that changes nothing keeps the type invariant.
LEMMA TypeStutter ==
  ASSUME TypeInv, UNCHANGED vars
  PROVE  TypeInv'
BY Zenon DEF TypeInv, TypeOK, HolderMatchesG, vars, arbVars, timeVars

\* The type invariant holds always.
LEMMA TypeInvariant == Spec => []TypeInv
<1>1. TypeInv /\ [Next]_vars => TypeInv'
  BY TypeStep, TypeStutter
<1> QED BY TypeInit, <1>1, PTL DEF Spec

\* Every reachable state of the floor is well-typed; no retransmission counter
\* of the arbiter runs past its limit (armed_server, core.rs:853-871).
THEOREM FloorTypeOK == Spec => []TypeOK
<1>1. TypeInv => TypeOK
  BY DEF TypeInv
<1> QED BY TypeInvariant, <1>1, PTL

-----------------------------------------------------------------------------
(* The second layer: each member's participant follows the arbiter. *)

PartOK(p, idle) == Live(p) /\ (idle <=> KnowsIdle(p))

\* PartFollowsArbiter is not inductive: media and RELEASE turn gTaken, which
\* KnowsIdle reads only in NpSends, into the participant's state.
PartInv == \A u \in members : PartOK(parts[u], g = "Idle")

\* Whether a participant is right depends on its state and on g_taken only.
LEMMA SameKnow ==
  ASSUME NEW p, NEW q, q.part = p.part, q.gTaken = p.gTaken, NEW idle
  PROVE  PartOK(q, idle) <=> PartOK(p, idle)
BY DEF PartOK, Live, KnowsIdle

\* A step that keeps the arbiter idle or not idle, and changes u's record only.
LEMMA OnePart ==
  ASSUME TypeInv, PartInv, NEW u \in Users, NEW p,
         parts' = [parts EXCEPT ![u] = p],
         members' \in SUBSET members,
         g' = "Idle" <=> g = "Idle",
         u \in members' => PartOK(p, g = "Idle")
  PROVE  PartInv'
<1>1. ASSUME NEW v \in members' PROVE PartOK(parts'[v], g = "Idle")
  <2>1. CASE v = u
    BY <2>1 DEF TypeInv, TypeOK
  <2>2. CASE v # u
    BY <2>2 DEF TypeInv, TypeOK, PartInv
  <2> QED BY <2>1, <2>2
<1> QED BY <1>1, Zenon DEF PartInv, PartOK

\* A step that leaves participants and the idleness of the floor alone keeps PartInv.
LEMMA SameParts ==
  ASSUME PartInv, UNCHANGED parts, members' \in SUBSET members, g' = "Idle" <=> g = "Idle"
  PROVE  PartInv'
BY Zenon DEF PartInv, PartOK

\* idle_enter tells every member how the floor now stands.
LEMMA IdlePartsInv ==
  ASSUME TypeInv, NEW q \in Seq(Waiter), NEW ps \in [Users -> Part],
         \A u \in members : PartOK(ps[u], FALSE)
  PROVE  \A u \in members : PartOK(IdleParts(q, ps)[u], q = <<>>)
<1> TAKE u \in members
<1> USE DEF PartOK
<1>0. u \in Users /\ ps[u] \in Part /\ Live(ps[u]) /\ ~KnowsIdle(ps[u])
  BY DEF TypeInv, TypeOK
<1>1. CASE q = <<>>
  <2>1. IdleParts(q, ps)[u] = PartA(ps[u], "Idle")
    BY <1>0, <1>1 DEF IdleParts, Fan
  <2>2. PartOK(PartA(ps[u], "Idle"), TRUE)
    BY <1>0, PartALive
  <2> QED BY <1>1, <2>1, <2>2
<1>2. CASE q # <<>>
  <2>1. Head(q).u \in Users
    BY <1>2, HeadTail, Zenon DEF Waiter
  <2>2. CASE u = Head(q).u
    <3>1. IdleParts(q, ps)[u] = PartA(ps[u], "Granted")
      BY <1>0, <1>2, <2>2 DEF IdleParts, EnterTakenParts, Fan
    <3>2. PartOK(PartA(ps[u], "Granted"), FALSE)
      BY <1>0, PartALive
    <3> QED BY <1>2, <3>1, <3>2, Zenon
  <2>3. CASE u # Head(q).u
    <3>1. IdleParts(q, ps)[u] = PartA(ps[u], "Taken")
      BY <1>0, <1>2, <2>3 DEF IdleParts, EnterTakenParts, Fan
    <3>2. PartOK(PartA(ps[u], "Taken"), FALSE)
      BY <1>0, PartALive
    <3> QED BY <1>2, <3>1, <3>2, Zenon
  <2> QED BY <2>2, <2>3
<1> QED BY <1>1, <1>2

\* idle_enter leaves the floor idle exactly when nobody waits.
LEMMA IdleEnterG ==
  ASSUME NEW q, NEW ps, NEW last, NEW said, IdleEnter(q, ps, last, said)
  PROVE  g' = "Idle" <=> q = <<>>
BY DEF IdleEnter, EnterTaken

\* A tenure ended, whatever else the operation did to the one who lost it.
LEMMA EndTenureParts ==
  ASSUME TypeInv, PartInv, g # "Idle", NEW ps \in [Users -> Part],
         \A v \in Users : ps[v].part = parts[v].part /\ ps[v].gTaken = parts[v].gTaken,
         NEW last, NEW said, IdleEnter(queue, ps, last, said)
  PROVE  \A u \in members : PartOK(IdleParts(queue, ps)[u], g' = "Idle")
<1>1. ASSUME NEW u \in members PROVE PartOK(ps[u], FALSE)
  <2>1. PartOK(parts[u], FALSE) /\ u \in Users
    BY Zenon DEF PartInv, PartOK, TypeInv, TypeOK
  <2> QED BY <2>1, SameKnow, Zenon
<1>2. \A u \in members : PartOK(IdleParts(queue, ps)[u], queue = <<>>)
  BY <1>1, IdlePartsInv, Zenon DEF TypeInv, TypeOK
<1> QED BY <1>2, IdleEnterG, Zenon DEF PartOK

\* A FLOOR_REQUEST keeps participants in line with the arbiter.
LEMMA RxRequestParts ==
  ASSUME TypeInv, PartInv, NEW u \in Users, NEW p \in Prios, NEW half \in BOOLEAN,
         RxRequest(u, p, half)
  PROVE  PartInv'
<1> USE DEF TypeInv, TypeOK
<1>1. CASE \E o : Reply(o)
  BY <1>1, SameParts, Zenon DEF Reply, Say, arbVars
<1>2. CASE /\ EnterTaken(u, p, EnterTakenOut(parts, u)) /\ g = "Idle"
           /\ parts[u].part = "NpIdle" /\ u \in members
           /\ parts' = EnterTakenParts(parts, u)
           /\ UNCHANGED members
  <2>1. g' = "Taken"
    BY <1>2 DEF EnterTaken
  <2>2. ASSUME NEW v \in members PROVE PartOK(parts'[v], FALSE)
    <3>0. parts[v] \in Part /\ Live(parts[v])
      BY DEF PartInv, PartOK
    <3>1. CASE v = u
      <4>1. parts'[v] = PartA(parts[v], "Granted")
        BY <1>2, <3>1 DEF EnterTakenParts, Fan
      <4>2. Live(PartA(parts[v], "Granted")) /\ (parts[v].part # "NpSends" => ~KnowsIdle(PartA(parts[v], "Granted")))
        BY <3>0, PartALive, Zenon
      <4>3. parts[v].part # "NpSends"
        BY <1>2, <3>1, Zenon
      <4> QED BY <4>1, <4>2, <4>3, Zenon DEF PartOK
    <3>2. CASE v # u
      <4>1. parts'[v] = PartA(parts[v], "Taken")
        BY <1>2, <3>2 DEF EnterTakenParts, Fan
      <4>2. Live(PartA(parts[v], "Taken")) /\ ~KnowsIdle(PartA(parts[v], "Taken"))
        BY <3>0, PartALive, Zenon
      <4> QED BY <4>1, <4>2, Zenon DEF PartOK
    <3> QED BY <3>1, <3>2
  <2> QED BY <1>2, <2>1, <2>2, Zenon DEF PartInv, PartOK
<1>3. CASE g = "Taken" /\ ArbPreempt(u, p)
  <2>1. speaker \in Users /\ g' = "Prevoke"
    BY <1>3, HolderIsUser DEF ArbPreempt, PrevokeEnter
  <2>2. parts' = [parts EXCEPT ![speaker] = PartA(parts[speaker], "Revoke")] /\ UNCHANGED members
    BY <1>3 DEF ArbPreempt
  <2>3. speaker \in members => PartOK(PartA(parts[speaker], "Revoke"), g = "Idle")
    BY <2>1, PartALive DEF PartInv, PartOK
  <2> QED BY <1>3, <2>1, <2>2, <2>3, OnePart
<1>4. CASE \E o : Say(o) /\ UNCHANGED parts
  BY <1>4, SameParts DEF Say, arbVars
<1> QED
  BY <1>1, <1>2, <1>3, <1>4, Zenon DEF RxRequest, ArbReqIdle, TakenReq, Admitted

\* A FLOOR_RELEASE keeps participants in line with the arbiter.
LEMMA RxReleaseParts ==
  ASSUME TypeInv, PartInv, NEW u \in Users, RxRelease(u)
  PROVE  PartInv'
<1> USE DEF TypeInv, TypeOK
<1>0. u \in members /\ PartOK(parts[u], g = "Idle") /\ parts[u] \in Part
  BY DEF RxRelease, PartInv
<1>1. CASE \E o : Say(o) /\ UNCHANGED parts
  BY <1>1, SameParts, Zenon DEF Say, arbVars
<1>2. CASE /\ \E o : Say(o)
           /\ parts' = [parts EXCEPT ![u].c21 = 1]
  <2> DEFINE p == [parts[u] EXCEPT !.c21 = 1]
  <2>1. p.part = parts[u].part /\ p.gTaken = parts[u].gTaken
    BY <1>0 DEF Part
  <2>2. PartOK(p, g = "Idle")
    BY <1>0, <2>1, SameKnow
  <2> HIDE DEF p
  <2>3. parts' = [parts EXCEPT ![u] = p]
    BY <1>2 DEF p
  <2>4. members' = members /\ g' = g
    BY <1>2 DEF Say, arbVars
  <2> QED BY <1>0, <2>2, <2>3, <2>4, OnePart
<1>3. CASE parts[u].part \in {"Permitted", "Prevoke"} /\ ArbRel(u)
  <2> DEFINE ps == IF parts[u].part = "Permitted" THEN [parts EXCEPT ![u].released = TRUE] ELSE parts
  <2>1. ps \in [Users -> Part]
    BY PartFields DEF Part
  <2>2. \A v \in Users : ps[v].part = parts[v].part /\ ps[v].gTaken = parts[v].gTaken
    BY DEF Part
  <2>3. CASE /\ IdleEnter(queue, ps, u, Send(u, "Ack"))
             /\ parts' = IdleParts(queue, ps)
             /\ UNCHANGED members
    <3>1. g # "Idle"
      BY <1>0, <1>3, Zenon DEF PartOK, KnowsIdle
    <3> HIDE DEF ps
    <3>2. \A v \in members : PartOK(IdleParts(queue, ps)[v], g' = "Idle")
      BY <2>1, <2>2, <2>3, <3>1, EndTenureParts
    <3> QED BY <2>3, <3>2, Zenon DEF PartInv
  <2>4. CASE Say(Send(u, "Ack")) /\ parts' = ps
    <3> HIDE DEF ps
    <3>1. members' = members /\ g' = g
      BY <2>4 DEF Say, arbVars
    <3>2. ASSUME NEW v \in members PROVE PartOK(ps[v], g = "Idle")
      <4>1. v \in Users /\ PartOK(parts[v], g = "Idle")
        BY DEF PartInv
      <4> QED BY <2>2, <4>1, SameKnow, Zenon
    <3> QED BY <2>4, <3>1, <3>2, Zenon DEF PartInv
  <2> QED BY <1>3, <2>3, <2>4, Zenon DEF ArbRel
<1>4. CASE LET to == IF parts[u].gTaken THEN "NpTaken" ELSE "NpIdle"
           IN  /\ parts' = [parts EXCEPT ![u] = EnterR(@, to)]
               /\ \E o : Say(o)
               /\ parts[u].part \notin {"NpIdle", "NpTaken", "Permitted", "Prevoke"}
  <2> DEFINE to == IF parts[u].gTaken THEN "NpTaken" ELSE "NpIdle"
  <2>1. parts[u].part = "NpSends"
    BY <1>0, <1>4 DEF PartOK, Live, Part, PStates
  <2>2. (g = "Idle") <=> (to = "NpIdle")
    BY <1>0, <2>1 DEF PartOK, KnowsIdle
  <2>3. to \in {"NpIdle", "NpTaken"} /\ to \in PStates
    BY DEF PStates
  <2>4. parts' = [parts EXCEPT ![u] = EnterR(parts[u], to)] /\ \E o : Say(o)
    BY <1>4, Zenon
  <2> HIDE DEF to
  <2>5. PartOK(EnterR(parts[u], to), g = "Idle")
    BY <1>0, <2>2, <2>3, EnterRType, Zenon DEF PartOK, Live, KnowsIdle
  <2> QED BY <2>4, <2>5, OnePart DEF Say, arbVars
<1> QED BY <1>1, <1>2, <1>3, <1>4, Zenon DEF RxRelease

\* The steps that touch one participant only keep it in line with the arbiter.
LEMMA UserStepParts ==
  ASSUME TypeInv, PartInv, NEW u \in Users,
         \/ RxAckTaken(u) \/ RxQposReq(u) \/ Ready(u) \/ PermUp(u) \/ WsPubSelect(u)
         \/ T8(u) \/ T9(u) \/ T21(u) \/ Rtp(u)
  PROVE  PartInv'
<1> USE DEF TypeInv, TypeOK
<1>0. parts[u] \in Part
  OBVIOUS
<1>1. CASE \E o : Reply(o)
  BY <1>1, SameParts, Zenon DEF Reply, Say, arbVars
<1>2. ASSUME NEW p, p.part = parts[u].part, p.gTaken = parts[u].gTaken,
             parts' = [parts EXCEPT ![u] = p], \E o : Say(o)
      PROVE  PartInv'
  <2>1. u \in members => PartOK(p, g = "Idle")
    BY <1>2, SameKnow, Zenon DEF PartInv
  <2> QED BY <1>2, <2>1, OnePart DEF Say, arbVars
<1>3. CASE RxQposReq(u) \/ Ready(u)
  BY <1>1, <1>3 DEF RxQposReq, Ready
<1>4. CASE RxAckTaken(u)
  <2>1. [parts[u] EXCEPT !.c21 = 0].part = parts[u].part /\ [parts[u] EXCEPT !.c21 = 0].gTaken = parts[u].gTaken
    BY <1>0 DEF Part
  <2> QED BY <1>2, <1>4, <2>1, Zenon DEF RxAckTaken
<1>5. CASE PermUp(u)
  <2>1. [parts[u] EXCEPT !.perm = TRUE].part = parts[u].part /\ [parts[u] EXCEPT !.perm = TRUE].gTaken = parts[u].gTaken
    BY <1>0 DEF Part
  <2> QED BY <1>2, <1>5, <2>1, Zenon DEF PermUp
<1>6. CASE WsPubSelect(u)
  <2>1. [parts[u] EXCEPT !.pubRoom = TRUE].part = parts[u].part /\ [parts[u] EXCEPT !.pubRoom = TRUE].gTaken = parts[u].gTaken
    BY <1>0 DEF Part
  <2> QED BY <1>2, <1>6, <2>1, Zenon DEF WsPubSelect
<1>7. CASE T8(u)
  <2> DEFINE p == [parts[u] EXCEPT !.c8 = parts[u].c8 + 1]
  <2>1. p.part = parts[u].part /\ p.gTaken = parts[u].gTaken
    BY <1>0 DEF Part
  <2>2. parts' = [parts EXCEPT ![u] = p] /\ \E o : Say(o)
    BY <1>7 DEF T8
  <2> QED BY <1>2, <2>1, <2>2, Zenon
<1>8. CASE T9(u)
  <2>1. [parts[u] EXCEPT !.retry = FALSE].part = parts[u].part /\ [parts[u] EXCEPT !.retry = FALSE].gTaken = parts[u].gTaken
    BY <1>0 DEF Part
  <2> QED BY <1>2, <1>8, <2>1, Zenon DEF T9
<1>9. CASE T21(u)
  <2> DEFINE p == [parts[u] EXCEPT !.c21 = parts[u].c21 + 1]
  <2>1. p.part = parts[u].part /\ p.gTaken = parts[u].gTaken
    BY <1>0 DEF Part
  <2>2. parts' = [parts EXCEPT ![u] = p] /\ \E o : Say(o)
    BY <1>9, Zenon DEF T21
  <2> QED BY <1>2, <2>1, <2>2, Zenon
<1>10. CASE Rtp(u)
  <2>1. g' = g /\ members' = members
    BY <1>10, Zenon DEF Rtp, arbVars
  <2>2. CASE UNCHANGED parts
    BY <2>1, <2>2, SameParts, Zenon
  <2>3. CASE /\ parts[u].part \in {"NpIdle", "NpTaken"}
             /\ parts' = [parts EXCEPT ![u] = EnterR(@, "NpSends")]
    <3>1. u \in members => PartOK(EnterR(parts[u], "NpSends"), g = "Idle")
      BY <1>0, <2>3, EnterRType DEF PartInv, PartOK, Live, KnowsIdle, PStates
    <3> QED BY <2>1, <2>3, <3>1, OnePart
  <2> QED BY <1>10, <2>2, <2>3, Zenon DEF Rtp
<1> QED BY <1>3, <1>4, <1>5, <1>6, <1>7, <1>8, <1>9, <1>10, Zenon

\* Losing the permission to speak keeps participants in line with the arbiter.
LEMMA PermDownParts ==
  ASSUME TypeInv, PartInv, NEW u \in Users, PermDown(u)
  PROVE  PartInv'
<1> USE DEF TypeInv, TypeOK
<1> DEFINE p == [parts[u] EXCEPT !.perm = FALSE]
<1>1. p \in Part /\ p.part = parts[u].part /\ p.gTaken = parts[u].gTaken
  BY DEF Part
<1>2. u \in members => PartOK(p, g = "Idle")
  BY <1>1, SameKnow, Zenon DEF PartInv
<1>3. CASE IsSpeaker(u)
  <2>1. parts' = [parts EXCEPT ![u] = PartA(p, "Revoke")]
    BY <1>3 DEF PermDown
  <2>2. g = "Taken" /\ g' = "Prevoke" /\ members' = members
    BY <1>3 DEF PermDown, IsSpeaker, PrevokeEnter
  <2> HIDE DEF p
  <2>3. u \in members => PartOK(PartA(p, "Revoke"), g = "Idle")
    BY <1>1, <1>2, PartALive DEF PartOK
  <2> QED BY <2>1, <2>2, <2>3, OnePart
<1>4. CASE ~IsSpeaker(u)
  <2>1. parts' = [parts EXCEPT ![u] = p] /\ g' = g /\ members' = members
    BY <1>4 DEF PermDown, Say, arbVars
  <2> HIDE DEF p
  <2> QED BY <1>2, <2>1, OnePart
<1> QED BY <1>3, <1>4

\* away leaves the members who stay informed.
LEMMA AwayPartsInv ==
  ASSUME TypeInv, PartInv, NEW u \in Users, NEW ps \in [Users -> Part],
         \A v \in Users : ps[v].part = parts[v].part /\ ps[v].gTaken = parts[v].gTaken,
         Away(u, ps)
  PROVE  \A v \in members : PartOK(AwayParts(u, ps)[v], g' = "Idle")
<1>1. CASE IsSpeaker(u)
  <2>1. IdleEnter(queue, ps, u, {}) /\ g # "Idle"
    BY <1>1, Zenon DEF Away, IsSpeaker
  <2>2. AwayParts(u, ps) = IdleParts(queue, ps)
    BY <1>1 DEF AwayParts
  <2> QED BY <2>1, <2>2, EndTenureParts, Zenon
<1>2. CASE ~IsSpeaker(u)
  <2>1. g' = g /\ AwayParts(u, ps) = ps
    BY <1>2 DEF Away, AwayParts, arbVars
  <2>2. ASSUME NEW v \in members PROVE PartOK(ps[v], g = "Idle")
    <3>1. v \in Users /\ PartOK(parts[v], g = "Idle")
      BY DEF PartInv, TypeInv, TypeOK
    <3> QED BY <3>1, SameKnow, Zenon
  <2> QED BY <2>1, <2>2, Zenon
<1> QED BY <1>1, <1>2, Zenon

\* Leaving, moving away and joining keep participants in line with the arbiter.
LEMMA RoomStepParts ==
  ASSUME TypeInv, PartInv, NEW u \in Users,
         WsPubAway(u) \/ WsLeave(u) \/ \E perm \in BOOLEAN : WsJoin(u, perm)
  PROVE  PartInv'
<1> USE DEF TypeInv, TypeOK
<1> DEFINE ps == [parts EXCEPT ![u].pubRoom = FALSE]
<1>1. /\ ps \in [Users -> Part]
      /\ \A v \in Users : ps[v].part = parts[v].part /\ ps[v].gTaken = parts[v].gTaken
  BY DEF Part
<1> HIDE DEF ps
<1>2. CASE WsPubAway(u)
  <2>1. Away(u, ps) /\ parts' = AwayParts(u, ps) /\ members' = members
    BY <1>2 DEF WsPubAway, ps
  <2> QED BY <1>1, <2>1, AwayPartsInv, Zenon DEF PartInv
<1>3. CASE WsLeave(u)
  <2>1. /\ Away(u, ps) /\ members' = members \ {u}
        /\ parts' = [AwayParts(u, ps) EXCEPT ![u].retry = FALSE, ![u].part = "Releasing"]
    BY <1>3 DEF WsLeave, ps
  <2>2. AwayParts(u, ps) \in [Users -> Part]
    BY <1>1, <2>1, AwayType
  <2>3. ASSUME NEW v \in members' PROVE PartOK(parts'[v], g' = "Idle")
    <3>1. v \in members /\ v \in Users /\ v # u
      BY <2>1
    <3>2. parts'[v] = AwayParts(u, ps)[v]
      BY <2>1, <2>2, <3>1
    <3>3. PartOK(AwayParts(u, ps)[v], g' = "Idle")
      BY <1>1, <2>1, <3>1, AwayPartsInv
    <3> QED BY <3>2, <3>3, Zenon
  <2> QED BY <2>3, Zenon DEF PartInv
<1>4. ASSUME NEW perm \in BOOLEAN, WsJoin(u, perm) PROVE PartInv'
  <2>0. ASSUME NEW p \in Part, NEW taken \in BOOLEAN PROVE PartOK(Joined(p, perm, taken), ~taken)
    BY DEF PartOK, Live, KnowsIdle, Joined, Part, PStates
  <2>1. CASE IsRevoked(u)
    <3>1. /\ IdleEnter(queue, parts, u, {}) /\ g # "Idle" /\ members' = members \cup {u}
          /\ parts' = [IdleParts(queue, parts) EXCEPT ![u] = Joined(@, perm, queue # <<>>)]
      BY <1>4, <2>1, Zenon DEF WsJoin, IsRevoked
    <3>2. IdleParts(queue, parts) \in [Users -> Part]
      BY IdlePartsType
    <3>3. ASSUME NEW v \in members' PROVE PartOK(parts'[v], g' = "Idle")
      <4>1. CASE v = u
        <5>1. parts'[v] = Joined(IdleParts(queue, parts)[u], perm, queue # <<>>)
          BY <3>1, <3>2, <4>1, Zenon
        <5>2. PartOK(parts'[v], queue = <<>>)
          BY <2>0, <3>2, <5>1
        <5> QED BY <3>1, <5>2, IdleEnterG, Zenon
      <4>2. CASE v # u
        <5>1. v \in members /\ v \in Users /\ parts'[v] = IdleParts(queue, parts)[v]
          BY <3>1, <3>2, <4>2, Zenon
        <5>2. PartOK(IdleParts(queue, parts)[v], g' = "Idle")
          BY <3>1, <5>1, EndTenureParts
        <5> QED BY <5>1, <5>2, Zenon
      <4> QED BY <4>1, <4>2
    <3> QED BY <3>3, Zenon DEF PartInv
  <2>2. CASE ~IsRevoked(u)
    <3>1. /\ members' = members \cup {u} /\ g' = g
          /\ parts' = [parts EXCEPT ![u] = Joined(@, perm, Holder # NoUser)]
      BY <1>4, <2>2, Zenon DEF WsJoin, arbVars
    <3>2. (g = "Idle") <=> (Holder = NoUser)
      BY HolderIsUser, UsersAssumption
    <3>3. ASSUME NEW v \in members' PROVE PartOK(parts'[v], g = "Idle")
      <4>1. CASE v = u
        <5>1. parts'[v] = Joined(parts[u], perm, Holder # NoUser)
          BY <3>1, <4>1
        <5>2. PartOK(parts'[v], Holder = NoUser)
          BY <2>0, <5>1
        <5> QED BY <3>2, <5>2, Zenon DEF PartOK
      <4>2. CASE v # u
        BY <3>1, <4>2 DEF PartInv
      <4> QED BY <4>1, <4>2
    <3> QED BY <3>1, <3>3, Zenon DEF PartInv
  <2> QED BY <2>1, <2>2
<1> QED BY <1>2, <1>3, <1>4

\* The arbiter's timers keep participants in line with the arbiter.
LEMMA ServerTimerParts ==
  ASSUME TypeInv, PartInv, ServerTimer
  PROVE  PartInv'
<1> USE DEF TypeInv, TypeOK
<1>1. CASE T1 \/ T3
  <2>1. PICK u : EndTenure(u) /\ g # "Idle"
    BY <1>1, Zenon DEF T1, T3
  <2>2. \A v \in members : PartOK(IdleParts(queue, parts)[v], g' = "Idle")
    BY <2>1, EndTenureParts, Zenon DEF EndTenure
  <2> QED BY <2>1, <2>2, Zenon DEF EndTenure, PartInv
<1>2. CASE T2
  <2> DEFINE p == [parts[speaker] EXCEPT !.retry = TRUE]
  <2>1. speaker \in Users /\ g = "Taken" /\ g' = "Prevoke" /\ members' = members
    BY <1>2, HolderIsUser DEF T2, PrevokeEnter
  <2>2. p \in Part /\ p.part = parts[speaker].part /\ p.gTaken = parts[speaker].gTaken
    BY <2>1 DEF Part
  <2>3. speaker \in members => PartOK(p, g = "Idle")
    BY <2>2, SameKnow, Zenon DEF PartInv
  <2>4. parts' = [parts EXCEPT ![speaker] = PartA(p, "Revoke")]
    BY <1>2 DEF T2
  <2> HIDE DEF p
  <2>5. speaker \in members => PartOK(PartA(p, "Revoke"), g = "Idle")
    BY <2>2, <2>3, PartALive DEF PartOK
  <2> QED BY <2>1, <2>4, <2>5, OnePart
<1>3. CASE T7
  <2>1. g = "Idle" /\ g' = "Idle" /\ members' = members /\ parts' = Fan(parts, "Idle", members)
    BY <1>3, Zenon DEF T7, arbVars
  <2>2. ASSUME NEW u \in members PROVE PartOK(parts'[u], TRUE)
    <3>1. parts'[u] = PartA(parts[u], "Idle") /\ parts[u] \in Part
      BY <2>1 DEF Fan
    <3>2. Live(parts[u])
      BY DEF PartInv, PartOK
    <3>3. Live(PartA(parts[u], "Idle")) /\ KnowsIdle(PartA(parts[u], "Idle"))
      BY <3>1, <3>2, PartALive, Zenon
    <3> QED BY <3>1, <3>3, Zenon DEF PartOK
  <2> QED BY <2>1, <2>2, Zenon DEF PartInv, PartOK
<1>4. CASE T20
  <2>1. speaker \in Users /\ g = "Taken" /\ g' = g /\ members' = members
    BY <1>4, HolderIsUser DEF T20, T20Armed, arbVars
  <2>2. CASE UNCHANGED parts
    BY <2>1, <2>2, SameParts, Zenon
  <2>3. CASE parts' = [parts EXCEPT ![speaker] = PartA(@, "Granted")]
    <3>1. speaker \in members => PartOK(PartA(parts[speaker], "Granted"), g = "Idle")
      BY <2>1, PartALive DEF PartInv, PartOK
    <3> QED BY <2>1, <2>3, <3>1, OnePart
  <2> QED BY <1>4, <2>2, <2>3 DEF T20
<1> QED BY <1>1, <1>2, <1>3, <1>4 DEF ServerTimer

\* Every step keeps participants in line with the arbiter.
LEMMA PartStep ==
  ASSUME TypeInv, PartInv, Next
  PROVE  PartInv'
<1>1. ASSUME NEW u \in Users, NoMedia(u) \/ Rtp(u) PROVE PartInv'
  <2>1. CASE ClientMessage(u)
    BY <2>1, RxRequestParts, RxReleaseParts, UserStepParts DEF ClientMessage
  <2>2. CASE RoomEvent(u)
    BY <2>2, UserStepParts, PermDownParts, RoomStepParts DEF RoomEvent
  <2>3. CASE UserTimer(u) \/ Rtp(u)
    BY <2>3, UserStepParts DEF UserTimer
  <2> QED BY <1>1, <2>1, <2>2, <2>3 DEF NoMedia
<1> QED BY <1>1, ServerTimerParts DEF Next

\* Participants are in line with the arbiter always.
LEMMA PartInvariant == Spec => [](TypeInv /\ PartInv)
<1>1. Init => PartInv
  BY DEF Init, PartInv
<1>2. TypeInv /\ PartInv /\ [Next]_vars => PartInv'
  <2>1. PartInv /\ UNCHANGED vars => PartInv'
    BY Zenon DEF PartInv, vars, arbVars
  <2> QED BY <2>1, PartStep
<1> QED BY TypeInvariant, <1>1, <1>2, PTL DEF Spec

\* Every member's participant machine knows whether the floor is idle, in every
\* interleaving of requests, media, room events and timers.
THEOREM FloorPartsFollow == Spec => []PartFollowsArbiter
<1>1. PartInv => PartFollowsArbiter
  BY DEF PartInv, PartOK, PartFollowsArbiter
<1> QED BY PartInvariant, <1>1, PTL

-----------------------------------------------------------------------------
(* The third layer, the queue.  To the queue and the holder every operation  *)
(* of the floor is one of seven shapes, and the proofs are by shape.          *)

Grants == \E u \in members, p \in Prios :
  /\ g = "Idle" /\ g' = "Taken" /\ speaker' = u /\ sprio' = p
  /\ parts[u].part = "NpIdle" /\ out' = EnterTakenOut(parts, u)
  /\ fx' = Bind(u) /\ UNCHANGED <<revoking, rprio, queue>>

\* Participants in the states they were in.
SameStates(ps) == \A v \in Users : ps[v].part = parts[v].part

Ends == \E ps, said : SameStates(ps) /\ g # "Idle" /\ IdleEnter(queue, ps, Holder, said)

Preempts == \E u \in Users, p \in Prios :
  /\ g = "Taken" /\ ~PreQ(queue) /\ ~InQ(queue, u) /\ p > sprio
  /\ queue' = <<[u |-> u, p |-> p, pre |-> TRUE]>> \o queue
  /\ PrevokeEnter(speaker) /\ fx' = NoFx

Revokes == g = "Taken" /\ PrevokeEnter(speaker) /\ fx' = NoFx /\ UNCHANGED queue

Enqueues == \E u \in Users, p \in Prios :
  /\ g # "Idle" /\ ~InQ(queue, u) /\ p <= HolderPrio /\ ~QFull
  /\ queue' = InsertQ(queue, [u |-> u, p |-> p, pre |-> FALSE])
  /\ UNCHANGED arbVars /\ fx' = NoFx

Dequeues == \E u \in Users :
  queue' = Dequeue(queue, u) /\ UNCHANGED arbVars /\ fx' = NoFx

Keeps == UNCHANGED <<arbVars, queue>> /\ fx' = NoFx

Shape == Grants \/ Ends \/ Preempts \/ Revokes \/ Enqueues \/ Dequeues \/ Keeps

\* A FLOOR_REQUEST changes the arbiter in one of the seven ways.
LEMMA RequestShape ==
  ASSUME TypeInv, PartInv, NEW u \in Users, NEW p \in Prios, NEW half \in BOOLEAN,
         RxRequest(u, p, half)
  PROVE  Shape
<1>1. CASE \E o : Reply(o)
  BY <1>1 DEF Reply, Say, Keeps, Shape
<1>2. CASE u \in members /\ parts[u].part = "NpIdle" /\ ArbReqIdle(u, p)
  <2>1. CASE \E o : Reply(o)
    BY <1>1, <2>1, Zenon
  <2>2. CASE /\ g = "Idle" /\ EnterTaken(u, p, EnterTakenOut(parts, u))
             /\ UNCHANGED <<revoking, queue>>
    BY <1>2, <2>2, Zenon DEF EnterTaken, Grants, Shape
  <2> QED BY <1>2, <2>1, <2>2, Zenon DEF ArbReqIdle
<1>3. CASE u \in members /\ parts[u].part = "NpTaken" /\ TakenReq(u, p)
  <2>0. g # "Idle"
    BY <1>3 DEF PartInv, PartOK, KnowsIdle
  <2>1. CASE \E o : Reply(o)
    BY <1>1, <2>1
  <2>2. CASE ~PreQ(queue) /\ ~InQ(queue, u) /\ g = "Taken" /\ p > HolderPrio /\ ArbPreempt(u, p)
    BY <2>2 DEF ArbPreempt, HolderPrio, Preempts, Shape
  <2>3. CASE /\ ~InQ(queue, u) /\ p <= HolderPrio /\ ~QFull
             /\ queue' = InsertQ(queue, [u |-> u, p |-> p, pre |-> FALSE])
             /\ \E o : Say(o)
    BY <2>0, <2>3 DEF Say, Enqueues, Shape
  <2> QED BY <1>3, <2>1, <2>2, <2>3, Zenon DEF TakenReq
<1> QED BY <1>1, <1>2, <1>3, Zenon DEF RxRequest, Admitted

\* A user going away changes the arbiter in one of the seven ways.
LEMMA AwayShape ==
  ASSUME NEW u \in Users, NEW ps, SameStates(ps), Away(u, ps)
  PROVE  Shape
<1>1. CASE IsSpeaker(u)
  BY <1>1 DEF Away, IsSpeaker, Holder, Ends, Shape
<1>2. CASE ~IsSpeaker(u)
  BY <1>2 DEF Away, Dequeues, Keeps, Shape
<1> QED BY <1>1, <1>2

\* Every step changes the arbiter in one of the seven ways.
LEMMA StepShape ==
  ASSUME TypeInv, PartInv, Next
  PROVE  Shape
<1>0. /\ SameStates(parts)
      /\ \A u \in Users : SameStates([parts EXCEPT ![u].pubRoom = FALSE])
      /\ \A u \in Users : SameStates([parts EXCEPT ![u].released = TRUE])
  BY DEF TypeInv, TypeOK, Part, SameStates
<1>1. ASSUME NEW u \in Users, ClientMessage(u) PROVE Shape
  <2>1. CASE RxRelease(u)
    <3>1. CASE \E o : Say(o) /\ queue' = Dequeue(queue, u)
      BY <3>1 DEF Say, Dequeues, Shape
    <3>2. CASE \E o : Say(o) /\ UNCHANGED queue
      BY <3>2 DEF Say, Keeps, Shape
    <3>3. CASE ArbRel(u)
      <4>1. CASE IsSpeaker(u) \/ IsRevoked(u)
        <5>1. PICK ps \in {parts, [parts EXCEPT ![u].released = TRUE]} :
                IdleEnter(queue, ps, u, Send(u, "Ack"))
          BY <3>3, <4>1 DEF ArbRel
        <5>2. g # "Idle" /\ Holder = u
          BY <4>1 DEF IsSpeaker, IsRevoked, Holder
        <5> QED BY <1>0, <5>1, <5>2, Zenon DEF Ends, Shape
      <4>2. CASE ~(IsSpeaker(u) \/ IsRevoked(u))
        BY <3>3, <4>2, <3>2, Zenon DEF ArbRel
      <4> QED BY <4>1, <4>2
    <3> QED BY <2>1, <3>1, <3>2, <3>3, Zenon DEF RxRelease
  <2>2. CASE RxAckTaken(u) \/ RxQposReq(u)
    BY <2>2 DEF RxAckTaken, RxQposReq, Reply, Say, Keeps, Shape
  <2> QED BY <1>1, <2>1, <2>2, RequestShape DEF ClientMessage
<1>2. ASSUME NEW u \in Users, RoomEvent(u) PROVE Shape
  <2>1. CASE Ready(u) \/ PermUp(u) \/ WsPubSelect(u)
    BY <2>1 DEF Ready, PermUp, WsPubSelect, Reply, Say, Keeps, Shape
  <2>2. CASE PermDown(u)
    BY <2>2 DEF PermDown, IsSpeaker, Say, Revokes, Dequeues, Shape
  <2>3. CASE WsPubAway(u) \/ WsLeave(u)
    BY <1>0, <2>3, AwayShape DEF WsPubAway, WsLeave
  <2>4. ASSUME NEW perm \in BOOLEAN, WsJoin(u, perm) PROVE Shape
    <3>1. CASE IsRevoked(u)
      BY <1>0, <2>4, <3>1 DEF WsJoin, IsRevoked, Holder, Ends, Shape
    <3>2. CASE ~IsRevoked(u)
      BY <2>4, <3>2 DEF WsJoin, Keeps, Shape
    <3> QED BY <3>1, <3>2
  <2> QED BY <1>2, <2>1, <2>2, <2>3, <2>4 DEF RoomEvent
<1>3. ASSUME NEW u \in Users, UserTimer(u) \/ Rtp(u) PROVE Shape
  BY <1>3 DEF UserTimer, T8, T9, T21, Rtp, Say, Keeps, Shape
<1>4. CASE ServerTimer
  <2>1. CASE T1
    BY <1>0, <2>1 DEF T1, EndTenure, Ends, Shape
  <2>2. CASE T3
    BY <1>0, <2>2 DEF T3, EndTenure, Holder, Ends, Shape
  <2>3. CASE T2
    BY <2>3 DEF T2, Revokes, Shape
  <2>4. CASE T7 \/ T20
    BY <2>4 DEF T7, T20, Keeps, Shape
  <2> QED BY <1>4, <2>1, <2>2, <2>3, <2>4 DEF ServerTimer
<1> QED BY <1>1, <1>2, <1>3, <1>4 DEF Next, NoMedia

-----------------------------------------------------------------------------
(* Layer 3: the queue *)

QueueInv == /\ IdleQueueEmpty /\ WaitersDistinct /\ QueueOrdered
            /\ NoInversion /\ QueueWithinBound

QueueOK == IF g = "Idle" THEN queue = <<>> ELSE QOK(queue, g, HolderPrio)

\* QueueInv, restated over indices of the queue.
LEMMA QueueInvIsQOK ==
  ASSUME TypeInv
  PROVE  QueueInv <=> QueueOK
<1> USE DEF QueueOK
<1>1. CASE g = "Idle"
  <2>1. queue = <<>> => QueueInv
    BY BoundsAssumption DEF QueueInv, IdleQueueEmpty, WaitersDistinct, QueueOrdered, NoInversion,
                            QueueWithinBound, PreQ
  <2> QED BY <1>1, <2>1 DEF QueueInv, IdleQueueEmpty
<1>2. CASE g = "Taken"
  <2>1. QOK(queue, g, HolderPrio) => \A i \in 1..Len(queue) : ~queue[i].pre
    BY <1>2 DEF QOK
  <2>2. QueueInv => \A i \in 1..Len(queue) : ~queue[i].pre
    BY <1>2 DEF QueueInv, QueueOrdered
  <2>3. QueueInv => QOK(queue, g, HolderPrio)
    BY <1>2, <2>2, Zenon DEF QueueInv, IdleQueueEmpty, WaitersDistinct, QueueOrdered, NoInversion,
                      QueueWithinBound, QOK
  <2>4. QOK(queue, g, HolderPrio) => QueueInv
    BY <1>2, <2>1, Zenon DEF QueueInv, IdleQueueEmpty, WaitersDistinct, QueueOrdered, NoInversion,
                      QueueWithinBound, QOK
  <2> QED BY <1>2, <2>3, <2>4
<1>3. CASE g = "Prevoke"
  <2>1. HolderPrio = rprio
    BY <1>3 DEF HolderPrio
  <2>2. QueueInv <=> QOK(queue, g, HolderPrio)
    BY <1>3, <2>1, Zenon DEF QueueInv, IdleQueueEmpty, WaitersDistinct, QueueOrdered, NoInversion,
                      QueueWithinBound, QOK
  <2> QED BY <1>3, <2>2
<1> QED BY <1>1, <1>2, <1>3 DEF TypeInv, TypeOK, GStates

\* The same restatement for a next state.
LEMMA QueueInvIsQOKNext == TypeInv' /\ QueueOK' => QueueInv'
<1>1. TypeInv /\ QueueOK => QueueInv
  BY QueueInvIsQOK, Zenon
<1> QED BY <1>1, PTL

\* Each of the seven ways keeps the queue invariant.
LEMMA QueueStep ==
  ASSUME TypeInv, TypeInv', QueueInv, Shape
  PROVE  QueueInv'
<1> USE DEF TypeInv, TypeOK
<1>0. HolderPrio \in Nat /\ queue \in Seq(Waiter)
  BY DEF HolderPrio
<1>1. IF g = "Idle" THEN queue = <<>> ELSE QOK(queue, g, HolderPrio)
  BY QueueInvIsQOK, Zenon DEF QueueOK
<1>2. SUFFICES IF g' = "Idle" THEN queue' = <<>> ELSE QOK(queue', g', HolderPrio')
  BY QueueInvIsQOKNext DEF QueueOK
<1>3. CASE Grants
  <2>1. g = "Idle" /\ g' = "Taken" /\ queue' = queue
    BY <1>3, Zenon DEF Grants
  <2>2. queue' = <<>>
    BY <1>1, <2>1, Zenon
  <2> QED BY <2>1, <2>2, EmptyQOK, Zenon
<1>4. CASE Ends
  <2>1. CASE queue = <<>>
    BY <1>4, <2>1, Zenon DEF Ends, IdleEnter
  <2>2. CASE queue # <<>>
    <3>1. queue' = Tail(queue) /\ g' = "Taken" /\ sprio' = Head(queue).p
      BY <1>4, <2>2, Zenon DEF Ends, IdleEnter, EnterTaken
    <3>2. HolderPrio' = Head(queue).p
      BY <3>1, Zenon DEF HolderPrio
    <3> QED BY <1>0, <1>1, <2>2, <3>1, <3>2, TailQOK, Zenon
  <2> QED BY <2>1, <2>2, Zenon
<1>5. CASE Preempts
  <2>1. HolderPrio = sprio /\ HolderPrio' = sprio /\ g = "Taken" /\ g' = "Prevoke"
    BY <1>5 DEF Preempts, PrevokeEnter, HolderPrio
  <2> QED BY <1>0, <1>1, <1>5, <2>1, PreemptQOK, Zenon DEF Preempts
<1>6. CASE Revokes
  <2>1. HolderPrio = sprio /\ HolderPrio' = sprio /\ g = "Taken" /\ g' = "Prevoke" /\ queue' = queue
    BY <1>6 DEF Revokes, PrevokeEnter, HolderPrio
  <2>2. QOK(queue, "Taken", sprio)
    BY <1>1, <2>1
  <2>3. QOK(queue, "Prevoke", sprio)
    BY <2>2, Zenon DEF QOK
  <2> QED BY <2>1, <2>3, Zenon
<1>7. CASE Enqueues
  <2>1. HolderPrio' = HolderPrio /\ g' = g /\ g # "Idle"
    BY <1>7, Zenon DEF Enqueues, HolderPrio, arbVars
  <2>2. Len(queue) < QMax
    <3>1. ~(Len(queue) >= QMax)
      BY <1>7, Zenon DEF Enqueues, QFull
    <3>2. Len(queue) \in Nat /\ QMax \in Nat
      BY <1>0, BoundsAssumption
    <3> QED BY <3>1, <3>2
  <2> QED BY <1>0, <1>1, <1>7, <2>1, <2>2, InsertQOK, Zenon DEF Enqueues
<1>8. CASE Dequeues
  <2>1. HolderPrio' = HolderPrio /\ g' = g
    BY <1>8 DEF Dequeues, HolderPrio, arbVars
  <2>2. CASE g = "Idle"
    <3>1. queue' = <<>>
      <4>1. PICK u \in Users : queue' = Dequeue(queue, u)
        BY <1>8 DEF Dequeues
      <4>2. queue = <<>> /\ ~(\E i : i \in 1..Len(queue))
        <5>1. queue = <<>>
          BY <1>1, <2>2, Zenon
        <5> QED BY <5>1
      <4> QED BY <1>0, <4>1, <4>2, DequeueFacts, Zenon
    <3> QED BY <2>1, <2>2, <3>1
  <2>3. CASE g # "Idle"
    BY <1>0, <1>1, <1>8, <2>1, <2>3, DequeueQOK, Zenon DEF Dequeues
  <2> QED BY <2>2, <2>3, Zenon
<1>9. CASE Keeps
  <2>1. HolderPrio' = HolderPrio /\ g' = g /\ queue' = queue
    BY <1>9 DEF Keeps, HolderPrio, arbVars
  <2> QED BY <1>1, <2>1, Zenon
<1> QED BY <1>3, <1>4, <1>5, <1>6, <1>7, <1>8, <1>9, Zenon DEF Shape

\* The three layers of the inductive invariant hold always.
LEMMA FloorInvariant == Spec => [](TypeInv /\ PartInv /\ QueueInv)
<1>1. Init => QueueInv
  <2>1. Init => QueueOK
    BY Zenon DEF Init, QueueOK
  <2> QED BY <2>1, TypeInit, QueueInvIsQOK, Zenon
<1>2. TypeInv /\ TypeInv' /\ PartInv /\ QueueInv /\ [Next]_vars => QueueInv'
  <2>1. QueueInv /\ UNCHANGED vars => QueueInv'
    BY Zenon DEF QueueInv, IdleQueueEmpty, WaitersDistinct, QueueOrdered, NoInversion,
                 QueueWithinBound, PreQ, HolderPrio, vars, arbVars
  <2> QED BY <2>1, StepShape, QueueStep
<1> QED BY PartInvariant, <1>1, <1>2, PTL DEF Spec

\* Nobody waits for a floor nobody holds.
THEOREM FloorIdleQueueEmpty == Spec => []IdleQueueEmpty
<1>1. QueueInv => IdleQueueEmpty
  BY DEF QueueInv
<1> QED BY FloorInvariant, <1>1, PTL

\* A user waits at most once.
THEOREM FloorWaitersDistinct == Spec => []WaitersDistinct
<1>1. QueueInv => WaitersDistinct
  BY DEF QueueInv
<1> QED BY FloorInvariant, <1>1, PTL

\* The queue is ordered by rank; a pre-empting waiter heads it, in Prevoke only.
THEOREM FloorQueueOrdered == Spec => []QueueOrdered
<1>1. QueueInv => QueueOrdered
  BY DEF QueueInv
<1> QED BY FloorInvariant, <1>1, PTL

\* No ordinary waiter outranks the holder; a pre-empting one outranks it.
THEOREM FloorNoInversion == Spec => []NoInversion
<1>1. QueueInv => NoInversion
  BY DEF QueueInv
<1> QED BY FloorInvariant, <1>1, PTL

\* The queue passes its limit by the pre-empting waiter only.
THEOREM FloorQueueWithinBound == Spec => []QueueWithinBound
<1>1. QueueInv => QueueWithinBound
  BY DEF QueueInv
<1> QED BY FloorInvariant, <1>1, PTL
=============================================================================
