------------------------------ MODULE FloorAbs ------------------------------
(***************************************************************************)
(* What the floor of a room promises, without participants, timers or      *)
(* messages: at most one holder; the floor passes only to the best waiter; *)
(* it falls free only when nobody waits; and every change of holder asks   *)
(* the media side for exactly one effect.  `Floor` implements it, and      *)
(* `FloorExec` carries its effects out.                                    *)
(***************************************************************************)
EXTENDS Integers

CONSTANTS Users, NoUser, Prios

VARIABLES holder,    \* who holds the floor
          waiting,   \* the waiters
          fx         \* the media effect of the last decision

absVars == <<holder, waiting, fx>>

Waiter == [u : Users, p : Prios, pre : BOOLEAN]
NoFx == [t |-> "None", u |-> NoUser]
Bind(u) == [t |-> "Bind", u |-> u]
Release(u) == [t |-> "Release", u |-> u]

Before(w, x) == (w.pre /\ ~x.pre) \/ (w.pre = x.pre /\ w.p > x.p)

Init == holder = NoUser /\ waiting = {} /\ fx = NoFx

\* An idle floor is granted.
Grant(u) == /\ holder = NoUser
            /\ holder' = u /\ fx' = Bind(u)
            /\ UNCHANGED waiting

\* A tenure ends and nobody outranks the successor.
HandOn(w) == /\ holder # NoUser
             /\ w \in waiting
             /\ \A x \in waiting : ~Before(x, w)
             /\ holder' = w.u /\ waiting' = waiting \ {w} /\ fx' = Bind(w.u)

\* A tenure ends and nobody waits.
Free == /\ holder # NoUser
        /\ waiting = {}
        /\ holder' = NoUser /\ fx' = Release(holder)
        /\ UNCHANGED waiting

\* A user starts to wait, once.
Enqueue(w) == /\ holder # NoUser
              /\ \A x \in waiting : x.u # w.u
              /\ waiting' = waiting \cup {w} /\ fx' = NoFx
              /\ UNCHANGED holder

GiveUp(w) == /\ w \in waiting
             /\ waiting' = waiting \ {w} /\ fx' = NoFx
             /\ UNCHANGED holder

\* Anything else asks for no effect.
Other == fx' = NoFx /\ UNCHANGED <<holder, waiting>>

Next == \/ \E u \in Users : Grant(u)
        \/ \E w \in Waiter : HandOn(w) \/ Enqueue(w) \/ GiveUp(w)
        \/ Free
        \/ Other

Spec == Init /\ [][Next]_absVars
=============================================================================
