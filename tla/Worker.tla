------------------------------- MODULE Worker -------------------------------
(***************************************************************************)
(* The inbox of a media worker (oxsfud/src/fwd/rt.rs Worker::push,         *)
(* fwd/mod.rs worker_loop): one bounded ring per producer, one counter of  *)
(* queued packets against a limit, and a worker that sleeps when it has    *)
(* found nothing to do.  A step is one atomic operation; the code uses     *)
(* sequentially consistent ones where the order of two matters.            *)
(*                                                                         *)
(* An item is the number of packets it stands for.  park_timeout returns   *)
(* after 5 ms at the latest (Wake), so a lost wake-up costs a delay; the   *)
(* property is that none is lost.                                          *)
(***************************************************************************)
EXTENDS Integers, Sequences, Functions

CONSTANTS Froms,       \* number of producers, each with its ring
          RingCap, Limit, Weights, MaxPush

\* What the proofs assume of the constants: at least one ring, and packets have sizes.
WorkerBounds == /\ Froms \in Nat \ {0} /\ RingCap \in Nat /\ Limit \in Nat
                /\ Weights \subseteq Nat

VARIABLES rings, queued, sleeping, token, prod, work, pushes

vars == <<rings, queued, sleeping, token, prod, work, pushes>>

Producers == 1 .. Froms
Still == [pc |-> "idle", n |-> 0]

Init ==
    /\ rings = [p \in Producers |-> <<>>]
    /\ queued = 0 /\ sleeping = FALSE /\ token = FALSE
    /\ prod = [p \in Producers |-> Still]
    /\ work = [pc |-> "scan", at |-> 1, did |-> FALSE, n |-> 0]
    /\ pushes = 0

----------------------------------------------------------------------------
(* Worker::push                                                             *)

\* fetch_add, and the comparison with the limit.
Count(p, n) ==
    /\ prod[p] = Still /\ pushes < MaxPush /\ pushes' = pushes + 1
    /\ queued' = queued + n
    /\ prod' = [prod EXCEPT ![p] = [pc |-> IF queued + n > Limit THEN "refuse" ELSE "put", n |-> n]]
    /\ UNCHANGED <<rings, sleeping, token, work>>

Put(p) ==
    /\ prod[p].pc = "put"
    /\ IF Len(rings[p]) < RingCap
       THEN rings' = [rings EXCEPT ![p] = Append(@, prod[p].n)] /\ prod' = [prod EXCEPT ![p].pc = "look"]
       ELSE rings' = rings /\ prod' = [prod EXCEPT ![p].pc = "refuse"]
    /\ UNCHANGED <<queued, sleeping, token, work, pushes>>

Refuse(p) ==
    /\ prod[p].pc = "refuse"
    /\ queued' = queued - prod[p].n
    /\ prod' = [prod EXCEPT ![p] = Still]
    /\ UNCHANGED <<rings, sleeping, token, work, pushes>>

Look(p) ==
    /\ prod[p].pc = "look"
    /\ prod' = [prod EXCEPT ![p] = IF sleeping THEN [pc |-> "unpark", n |-> 0] ELSE Still]
    /\ UNCHANGED <<rings, queued, sleeping, token, work, pushes>>

Unpark(p) ==
    /\ prod[p].pc = "unpark"
    /\ token' = TRUE /\ prod' = [prod EXCEPT ![p] = Still]
    /\ UNCHANGED <<rings, queued, sleeping, work, pushes>>

----------------------------------------------------------------------------
(* worker_loop                                                              *)

\* Pops of one ring after the other; an item is handled and then uncounted.
Pop ==
    LET r == rings[work.at]
    IN /\ work.pc = "scan" /\ work.at <= Froms
       /\ IF r = <<>> THEN work' = [work EXCEPT !.at = @ + 1] /\ rings' = rings
          ELSE /\ work' = [work EXCEPT !.pc = "uncount", !.n = Head(r), !.did = TRUE]
               /\ rings' = [rings EXCEPT ![work.at] = Tail(@)]
       /\ UNCHANGED <<queued, sleeping, token, prod, pushes>>

Uncount ==
    /\ work.pc = "uncount"
    /\ queued' = queued - work.n
    /\ work' = [work EXCEPT !.pc = "scan", !.n = 0]
    /\ UNCHANGED <<rings, sleeping, token, prod, pushes>>

FaultScanned ==
    /\ work.pc = "scan" /\ work.at > Froms
    /\ \/ work' = [work EXCEPT !.at = 1, !.did = FALSE] /\ sleeping' = sleeping
       \/ ~work.did /\ work' = [work EXCEPT !.pc = "park"] /\ sleeping' = TRUE
    /\ UNCHANGED <<rings, queued, token, prod, pushes>>

\* After a round: again if it did something or has not spun long enough, else
\* announce the sleep and look once more.
Scanned ==
    /\ work.pc = "scan" /\ work.at > Froms
    /\ \/ work' = [work EXCEPT !.at = 1, !.did = FALSE] /\ sleeping' = sleeping
       \/ ~work.did /\ work' = [work EXCEPT !.pc = "recheck", !.at = 1] /\ sleeping' = TRUE
    /\ UNCHANGED <<rings, queued, token, prod, pushes>>

Recheck ==
    /\ work.pc = "recheck"
    /\ \/ rings[work.at] # <<>> /\ work' = [work EXCEPT !.pc = "awake"]
       \/ rings[work.at] = <<>> /\ work.at < Froms /\ work' = [work EXCEPT !.at = @ + 1]
       \/ rings[work.at] = <<>> /\ work.at = Froms /\ work' = [work EXCEPT !.pc = "park"]
    /\ UNCHANGED <<rings, queued, sleeping, token, prod, pushes>>

\* park_timeout returns: the thread was unparked, or the time is over.
Wake ==
    /\ work.pc = "park"
    /\ token' = FALSE
    /\ work' = [work EXCEPT !.pc = "awake"]
    /\ UNCHANGED <<rings, queued, sleeping, prod, pushes>>

Awake ==
    /\ work.pc = "awake"
    /\ sleeping' = FALSE
    /\ work' = [work EXCEPT !.pc = "scan", !.at = 1, !.did = FALSE]
    /\ UNCHANGED <<rings, queued, token, prod, pushes>>

Next ==
    \/ \E p \in Producers : Put(p) \/ Refuse(p) \/ Look(p) \/ Unpark(p) \/ \E n \in Weights : Count(p, n)
    \/ Pop \/ Uncount \/ Scanned \/ Recheck \/ Wake \/ Awake

Spec == Init /\ [][Next]_vars

----------------------------------------------------------------------------
(* Properties.                                                              *)

\* Packets in the rings, and packets counted that are not in a ring yet or any more.
Waiting == SumFunction([p \in Producers |-> SumFunction(rings[p])])
Counting == SumFunctionOnSet([p \in Producers |-> prod[p].n], {p \in Producers : prod[p].pc \in {"put", "refuse"}})

WorkerTypeOK ==
    /\ queued \in Nat /\ \A p \in Producers : Len(rings[p]) <= RingCap
    /\ work.pc \in {"scan", "uncount", "recheck", "park", "awake"}

\* push and worker_loop: a parked worker with an item in a ring has been, or is
\* being, unparked, whatever way the last look and the push interleave; and the
\* counter is exact, so the packets in the rings never exceed the limit.
NoLostWake ==
    /\ (work.pc = "park" /\ ~token /\ \E p \in Producers : rings[p] # <<>>) =>
           \E p \in Producers : prod[p].pc \in {"look", "unpark"}
    /\ queued = Waiting + Counting + work.n
    /\ Waiting <= Limit
=============================================================================
