------------------------------ MODULE KeyIndex ------------------------------
(***************************************************************************)
(* Key expressions of the bus (oxmesh/src/keyexpr.rs) and the index of the *)
(* subscriptions a process routes by (oxmesh/src/core.rs SubIndex).        *)
(*                                                                         *)
(* An expression is the sequence of its chunks; "*" stands for one chunk   *)
(* and "**" for any number of them, none included.  A key has neither.     *)
(***************************************************************************)
EXTENDS Integers, Sequences, Functions, SequencesExt

CONSTANTS Subs,            \* subscriptions: owner and id
          Letters, Plain,  \* the chunks of keys; those that occur in expressions
          MaxChunks        \* bound: chunks of an expression

VARIABLES exprs, exact, wild

vars == <<exprs, exact, wild>>

Single == "*"
Double == "**"

----------------------------------------------------------------------------
(* keyexpr.rs                                                               *)

\* No two "**" in a row (and no empty chunk, no "*" inside a chunk).
Valid(e) == e # <<>> /\ \A i \in 1 .. Len(e) - 1 : ~(e[i] = Double /\ e[i + 1] = Double)

Concrete(e) == \A i \in DOMAIN e : e[i] \notin {Single, Double}

\* A last "**" must stand for a chunk at least.
FaultEnded(a, b) == a = <<>> /\ b = <<>>

\* One side is used up: what is left of the other may be a "**", which then stands for nothing.
Ended(a, b) == a \in {<<>>, <<Double>>} /\ b \in {<<>>, <<Double>>}

\* intersects: chunk by chunk; a "**" takes a chunk of the other side or ends.
RECURSIVE Intersects(_, _)
Intersects(a, b) ==
    CASE a = b -> TRUE
      [] a # b /\ (a = <<>> \/ b = <<>>) -> Ended(a, b)
      [] OTHER ->
            CASE a[1] = Double -> Tail(a) = <<>> \/ Intersects(a, Tail(b)) \/ Intersects(Tail(a), b)
              [] a[1] # Double /\ b[1] = Double -> Tail(b) = <<>> \/ Intersects(Tail(a), b) \/ Intersects(a, Tail(b))
              [] OTHER -> (a[1] = b[1] \/ Single \in {a[1], b[1]}) /\ Intersects(Tail(a), Tail(b))

----------------------------------------------------------------------------
(* SubIndex                                                                 *)

Chunk == Plain \cup {Single, Double}
Exprs == {e \in BoundedSeq(Chunk, MaxChunks) : Valid(e)}
ConcreteKeys == BoundedSeq(Letters, MaxChunks + 1) \ {<<>>}

Init == exprs = <<>> /\ exact = <<>> /\ wild = {}

\* The index without a subscription: an entry that is empty goes.
Without(x, s) ==
    IF s \notin DOMAIN x.exprs THEN x
    ELSE LET left == [k \in DOMAIN x.exact |-> x.exact[k] \ (IF k = x.exprs[s] THEN {s} ELSE {})] IN
         [exprs |-> Restrict(x.exprs, DOMAIN x.exprs \ {s}),
          exact |-> Restrict(left, {k \in DOMAIN left : left[k] # {}}),
          wild |-> x.wild \ {s}]

Becomes(x) == exprs' = x.exprs /\ exact' = x.exact /\ wild' = x.wild
Index == [exprs |-> exprs, exact |-> exact, wild |-> wild]

\* add, which takes the place of an older expression of the same subscription.
Add(s, e) ==
    LET x == Without(Index, s)
        old(k) == IF k \in DOMAIN x.exact THEN x.exact[k] ELSE {} IN
    Becomes([exprs |-> [t \in DOMAIN x.exprs \cup {s} |-> IF t = s THEN e ELSE x.exprs[t]],
             exact |-> IF ~Concrete(e) THEN x.exact
                       ELSE [k \in DOMAIN x.exact \cup {e} |-> old(k) \cup (IF k = e THEN {s} ELSE {})],
             wild |-> IF Concrete(e) THEN x.wild ELSE x.wild \cup {s}])

RemoveSub(s) == s \in DOMAIN exprs /\ Becomes(Without(Index, s))

\* matching: by the key itself and by every expression that is not one.
Matching(key) ==
    (IF key \in DOMAIN exact THEN exact[key] ELSE {})
        \cup {s \in wild : s \in DOMAIN exprs /\ Intersects(exprs[s], key)}

Next ==
    \/ \E s \in Subs, e \in Exprs : Add(s, e)
    \/ \E s \in Subs : RemoveSub(s)

Spec == Init /\ [][Next]_vars

----------------------------------------------------------------------------
(* Properties                                                               *)

KeysTypeOK == DOMAIN exprs \subseteq Subs /\ wild \subseteq DOMAIN exprs /\ DOMAIN exact \subseteq ConcreteKeys

\* What an expression means: a key is cut into one piece per chunk, a piece of
\* any length for "**" and of one chunk otherwise.
Means(e, key) ==
    \E cut \in [0 .. Len(e) -> 0 .. Len(key)] :
        /\ cut[0] = 0 /\ cut[Len(e)] = Len(key)
        /\ \A i \in DOMAIN e :
              \/ e[i] = Double /\ cut[i - 1] <= cut[i]
              \/ e[i] # Double /\ cut[i] = cut[i - 1] + 1 /\ e[i] \in {Single, key[cut[i]]}

Meaning == [e \in Exprs |-> {key \in ConcreteKeys : Means(e, key)}]

\* SubIndex::matching and intersects: whatever was added, replaced and removed, a put
\* reaches exactly the subscriptions whose expression means its key.
RoutesExact == \A key \in ConcreteKeys : Matching(key) = {s \in DOMAIN exprs : key \in Meaning[exprs[s]]}
=============================================================================
