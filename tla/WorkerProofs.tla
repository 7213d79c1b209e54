---------------------------- MODULE WorkerProofs ----------------------------
(***************************************************************************)
(* The media worker, for every number of producers, every ring capacity and*)
(* every limit.  First come the facts about sums that the worker's shared  *)
(* counter needs: the library defines a sum by a recursion on sets, and    *)
(* these prove what it computes, by minimal counterexamples.               *)
(***************************************************************************)
EXTENDS Worker, FiniteSetTheorems, NaturalsInduction, WellFoundedInduction, TLAPS

(* Sums *)

\* The element a fold takes next.
Pick(s) == CHOOSE x \in s : TRUE
\* g is the recursion that SumFunctionOnSet unfolds to, on the subsets of S.
IsIter(f, S, g) == g = [s \in SUBSET S |-> IF s = {} THEN 0 ELSE f[Pick(s)] + g[s \ {Pick(s)}]]
\* The recursion it chooses.
Iter(f, S) == CHOOSE g : IsIter(f, S, g)

\* The element a fold takes next is one of the set.
LEMMA PickIn == ASSUME NEW s, s # {} PROVE Pick(s) \in s
BY DEF Pick

\* A non-empty set of naturals has a least element: induction as a minimal
\* counterexample.
LEMMA LeastNat ==
  ASSUME NEW S \in SUBSET Nat, S # {}
  PROVE  \E x \in S : \A y \in S : x <= y
<1>1. PICK x \in S : \A y \in S : ~(<<y, x>> \in OpToRel(<, Nat))
  BY NatLessThanWellFounded, WFMin
<1>2. ASSUME NEW y \in S PROVE x <= y
  <2>1. <<y, x>> \in Nat \X Nat
    OBVIOUS
  <2>2. ~(y < x)
    BY <1>1, <2>1, Zenon DEF OpToRel
  <2> QED BY <2>2
<1> QED BY <1>2

\* SumFunctionOnSet of the library is that recursion.
LEMMA SumIsIter == ASSUME NEW f, NEW S PROVE SumFunctionOnSet(f, S) = Iter(f, S)[S]
BY Zenon DEF SumFunctionOnSet, FoldFunctionOnSet, MapThenFoldSet, Iter, IsIter, Pick

\* The set left after taking an element is smaller.
LEMMA Less ==
  ASSUME NEW S, IsFiniteSet(S), S # {}
  PROVE  IsFiniteSet(S \ {Pick(S)}) /\ Cardinality(S) \in Nat /\ Cardinality(S \ {Pick(S)}) \in Nat
         /\ Cardinality(S \ {Pick(S)}) < Cardinality(S)
<1>1. Pick(S) \in S BY PickIn
<1>2. IsFiniteSet(S \ {Pick(S)}) /\ Cardinality(S \ {Pick(S)}) = Cardinality(S) - 1 BY <1>1, FS_RemoveElement
<1> QED BY <1>2, FS_CardinalityType

\* Two recursions agree on the finite sets both are defined for.
LEMMA IterUnique ==
  ASSUME NEW f, NEW t, IsFiniteSet(t), NEW S, NEW g, NEW T, NEW h, t \subseteq S, t \subseteq T, IsIter(f, S, g), IsIter(f, T, h)
  PROVE  g[t] = h[t]
<1> DEFINE Bad == {n \in Nat : \E u \in SUBSET t : IsFiniteSet(u) /\ Cardinality(u) = n /\ g[u] # h[u]}
<1>1. SUFFICES ASSUME Bad # {} PROVE FALSE
  BY FS_CardinalityType
<1>2. PICK n \in Bad : \A m \in Bad : n <= m
  BY <1>1, LeastNat
<1>3. PICK u \in SUBSET t : IsFiniteSet(u) /\ Cardinality(u) = n /\ g[u] # h[u]
  BY <1>2
<1>4. u \in SUBSET S /\ u \in SUBSET T
  OBVIOUS
<1>5. g[u] = IF u = {} THEN 0 ELSE f[Pick(u)] + g[u \ {Pick(u)}]
  BY <1>4 DEF IsIter
<1>6. h[u] = IF u = {} THEN 0 ELSE f[Pick(u)] + h[u \ {Pick(u)}]
  BY <1>4 DEF IsIter
<1>7. u # {} /\ g[u \ {Pick(u)}] # h[u \ {Pick(u)}]
  BY <1>3, <1>5, <1>6
<1>8. Cardinality(u \ {Pick(u)}) \in Bad /\ Cardinality(u \ {Pick(u)}) < n
  BY <1>7, <1>3, Less
<1>9. n \in Nat /\ Cardinality(u \ {Pick(u)}) \in Nat /\ n <= Cardinality(u \ {Pick(u)})
  BY <1>8, <1>2
<1> QED BY <1>8, <1>9

\* The recursion exists on finite sets, so the one chosen satisfies it.
LEMMA IterExists ==
  ASSUME NEW f, NEW S, IsFiniteSet(S)
  PROVE  IsIter(f, S, Iter(f, S))
<1> DEFINE Bad == {n \in Nat : \E u \in SUBSET S : IsFiniteSet(u) /\ Cardinality(u) = n /\ ~\E g : IsIter(f, u, g)}
<1>1. SUFFICES ASSUME Bad # {} PROVE FALSE
  <2>1. SUFFICES \E g : IsIter(f, S, g)
    BY DEF Iter
  <2> QED BY FS_CardinalityType
<1>2. PICK n \in Bad : \A m \in Bad : n <= m
  BY <1>1, LeastNat
<1>3. PICK u \in SUBSET S : IsFiniteSet(u) /\ Cardinality(u) = n /\ ~\E g : IsIter(f, u, g)
  BY <1>2
<1>4. ASSUME NEW s \in SUBSET u, s # u PROVE IsFiniteSet(s) /\ IsIter(f, s, Iter(f, s))
  <2>1. IsFiniteSet(s) /\ Cardinality(s) \in Nat /\ Cardinality(s) < Cardinality(u)
    BY <1>3, <1>4, FS_Subset, FS_CardinalityType
  <2>2. Cardinality(s) \notin Bad
    BY <2>1, <1>2, <1>3
  <2>3. \E g : IsIter(f, s, g)
    BY <2>1, <2>2, <1>4
  <2> QED BY <2>1, <2>3 DEF Iter
<1> DEFINE v(s) == IF s = {} THEN 0 ELSE f[Pick(s)] + Iter(f, s \ {Pick(s)})[s \ {Pick(s)}]
           g == [s \in SUBSET u |-> v(s)]
<1>5. ASSUME NEW s \in SUBSET u, s # {} PROVE g[s \ {Pick(s)}] = Iter(f, s \ {Pick(s)})[s \ {Pick(s)}]
  <2> DEFINE w == s \ {Pick(s)}
  <2>1. Pick(s) \in s
    BY <1>5, PickIn
  <2>2. w \in SUBSET u /\ w # u /\ IsFiniteSet(w) /\ IsIter(f, w, Iter(f, w))
    BY <2>1, <1>4
  <2>3. Iter(f, w)[w] = IF w = {} THEN 0 ELSE f[Pick(w)] + Iter(f, w)[w \ {Pick(w)}]
    BY <2>2 DEF IsIter
  <2>4. CASE w = {}
    BY <2>4, <2>3, <2>2
  <2>5. CASE w # {}
    <3> DEFINE x == w \ {Pick(w)}
    <3>1. Pick(w) \in w
      BY <2>5, PickIn
    <3>2. x \in SUBSET u /\ x # u /\ IsFiniteSet(x) /\ IsIter(f, x, Iter(f, x)) /\ x \subseteq w
      BY <3>1, <2>2, <1>4
    <3> HIDE DEF x
    <3>3. Iter(f, w)[x] = Iter(f, x)[x]
      BY <3>2, <2>2, IterUnique
    <3> QED BY <3>3, <2>5, <2>3, <2>2 DEF x
  <2> QED BY <2>4, <2>5
<1>6. IsIter(f, u, g)
  BY <1>5 DEF IsIter
<1> QED BY <1>6, <1>3

\* A sum takes one element and the sum of the rest.
LEMMA SumUnfold ==
  ASSUME NEW f, NEW S, IsFiniteSet(S)
  PROVE  SumFunctionOnSet(f, S) = IF S = {} THEN 0 ELSE f[Pick(S)] + SumFunctionOnSet(f, S \ {Pick(S)})
<1>1. IsIter(f, S, Iter(f, S))
  BY IterExists
<1>2. Iter(f, S)[S] = IF S = {} THEN 0 ELSE f[Pick(S)] + Iter(f, S)[S \ {Pick(S)}]
  BY <1>1 DEF IsIter
<1>3. CASE S = {}
  BY <1>2, <1>3, SumIsIter
<1>4. CASE S # {}
  <2> DEFINE w == S \ {Pick(S)}
  <2>1. IsFiniteSet(w) /\ w \subseteq S
    BY <1>4, Less
  <2> HIDE DEF w
  <2>2. IsIter(f, w, Iter(f, w))
    BY <2>1, IterExists
  <2>3. Iter(f, S)[w] = Iter(f, w)[w]
    BY <2>1, <2>2, <1>1, IterUnique
  <2> QED BY <2>3, <1>2, <1>4, SumIsIter DEF w
<1> QED BY <1>3, <1>4

\* A sum of naturals is a natural.
LEMMA SumType ==
  ASSUME NEW f, NEW S, IsFiniteSet(S), \A x \in S : f[x] \in Nat
  PROVE  SumFunctionOnSet(f, S) \in Nat
<1> DEFINE Bad == {n \in Nat : \E u \in SUBSET S : IsFiniteSet(u) /\ Cardinality(u) = n /\ SumFunctionOnSet(f, u) \notin Nat}
<1>1. SUFFICES ASSUME Bad # {} PROVE FALSE
  BY FS_CardinalityType
<1>2. PICK n \in Bad : \A m \in Bad : n <= m
  BY <1>1, LeastNat
<1>3. PICK u \in SUBSET S : IsFiniteSet(u) /\ Cardinality(u) = n /\ SumFunctionOnSet(f, u) \notin Nat
  BY <1>2
<1>a. SumFunctionOnSet(f, u) = IF u = {} THEN 0 ELSE f[Pick(u)] + SumFunctionOnSet(f, u \ {Pick(u)})
  BY <1>3, SumUnfold
<1>4. u # {} /\ SumFunctionOnSet(f, u) = f[Pick(u)] + SumFunctionOnSet(f, u \ {Pick(u)})
  BY <1>3, <1>a
<1>5. Pick(u) \in S
  BY <1>4, PickIn
<1>6. SumFunctionOnSet(f, u \ {Pick(u)}) \notin Nat
  BY <1>3, <1>4, <1>5
<1>7. Cardinality(u \ {Pick(u)}) \in Bad /\ Cardinality(u \ {Pick(u)}) < n /\ n \in Nat
  BY <1>3, <1>4, <1>6, Less
<1>8. Cardinality(u \ {Pick(u)}) \in Nat /\ n <= Cardinality(u \ {Pick(u)})
  BY <1>7, <1>2
<1> QED BY <1>7, <1>8

\* Any element may be taken out of a sum first.
LEMMA SumOut ==
  ASSUME NEW f, NEW S, IsFiniteSet(S), \A x \in S : f[x] \in Nat, NEW e \in S
  PROVE  SumFunctionOnSet(f, S) = f[e] + SumFunctionOnSet(f, S \ {e})
<1> DEFINE Bad == {n \in Nat : \E u \in SUBSET S : IsFiniteSet(u) /\ Cardinality(u) = n
                      /\ \E z \in u : SumFunctionOnSet(f, u) # f[z] + SumFunctionOnSet(f, u \ {z})}
<1>1. SUFFICES ASSUME Bad # {} PROVE FALSE
  BY FS_CardinalityType
<1>2. PICK n \in Bad : \A m \in Bad : n <= m
  BY <1>1, LeastNat
<1>a. PICK u \in SUBSET S : IsFiniteSet(u) /\ Cardinality(u) = n /\ \E z \in u : SumFunctionOnSet(f, u) # f[z] + SumFunctionOnSet(f, u \ {z})
  BY <1>2
<1>3. PICK z \in u : IsFiniteSet(u) /\ Cardinality(u) = n /\ SumFunctionOnSet(f, u) # f[z] + SumFunctionOnSet(f, u \ {z})
  BY <1>a
<1> DEFINE c == Pick(u)
<1>4. c \in u /\ SumFunctionOnSet(f, u) = f[c] + SumFunctionOnSet(f, u \ {c})
  BY <1>3, SumUnfold, PickIn
<1> HIDE DEF c
<1>5. c # z
  BY <1>3, <1>4
<1>6. ASSUME NEW y \in u PROVE /\ IsFiniteSet(u \ {y})
                               /\ \A q \in u \ {y} : SumFunctionOnSet(f, u \ {y}) = f[q] + SumFunctionOnSet(f, (u \ {y}) \ {q})
  <2>1. IsFiniteSet(u \ {y}) /\ Cardinality(u \ {y}) = n - 1
    BY <1>3, FS_RemoveElement
  <2>2. n \in Nat /\ n - 1 \in Nat
    BY <2>1, <1>2, FS_CardinalityType
  <2>3. n - 1 \notin Bad
    BY <2>2, <1>2
  <2> QED BY <2>1, <2>2, <2>3
<1>7. SumFunctionOnSet(f, u \ {c}) = f[z] + SumFunctionOnSet(f, (u \ {c}) \ {z})
  BY <1>4, <1>5, <1>6
<1>8. SumFunctionOnSet(f, u \ {z}) = f[c] + SumFunctionOnSet(f, (u \ {z}) \ {c})
  BY <1>4, <1>5, <1>6
<1>9. (u \ {c}) \ {z} = (u \ {z}) \ {c}
  OBVIOUS
<1>10. IsFiniteSet((u \ {z}) \ {c})
  BY <1>6, FS_RemoveElement
<1>11. SumFunctionOnSet(f, (u \ {z}) \ {c}) \in Nat /\ f[c] \in Nat /\ f[z] \in Nat
  BY <1>10, <1>4, SumType
<1> DEFINE A == SumFunctionOnSet(f, u)
           C == SumFunctionOnSet(f, u \ {c})
           Z == SumFunctionOnSet(f, u \ {z})
           X == SumFunctionOnSet(f, (u \ {z}) \ {c})
<1>12. A = f[c] + C /\ C = f[z] + X /\ Z = f[c] + X /\ X \in Nat /\ A # f[z] + Z
  BY <1>3, <1>4, <1>7, <1>8, <1>9, <1>11, Zenon
<1> HIDE DEF A, C, Z, X
<1> QED BY <1>11, <1>12

\* Equal functions have equal sums.
LEMMA SumSame ==
  ASSUME NEW f, NEW g, NEW S, IsFiniteSet(S), \A x \in S : f[x] = g[x]
  PROVE  SumFunctionOnSet(f, S) = SumFunctionOnSet(g, S)
<1> DEFINE Bad == {n \in Nat : \E u \in SUBSET S : IsFiniteSet(u) /\ Cardinality(u) = n /\ SumFunctionOnSet(f, u) # SumFunctionOnSet(g, u)}
<1>1. SUFFICES ASSUME Bad # {} PROVE FALSE
  BY FS_CardinalityType
<1>2. PICK n \in Bad : \A m \in Bad : n <= m
  BY <1>1, LeastNat
<1>3. PICK u \in SUBSET S : IsFiniteSet(u) /\ Cardinality(u) = n /\ SumFunctionOnSet(f, u) # SumFunctionOnSet(g, u)
  BY <1>2
<1>4. u # {} /\ SumFunctionOnSet(f, u) = f[Pick(u)] + SumFunctionOnSet(f, u \ {Pick(u)})
             /\ SumFunctionOnSet(g, u) = g[Pick(u)] + SumFunctionOnSet(g, u \ {Pick(u)})
  BY <1>3, SumUnfold
<1>5. Pick(u) \in S
  BY <1>4, PickIn
<1>6. SumFunctionOnSet(f, u \ {Pick(u)}) # SumFunctionOnSet(g, u \ {Pick(u)})
  BY <1>3, <1>4, <1>5
<1>7. Cardinality(u \ {Pick(u)}) \in Bad /\ Cardinality(u \ {Pick(u)}) < n /\ n \in Nat
  BY <1>3, <1>4, <1>6, Less
<1>8. Cardinality(u \ {Pick(u)}) \in Nat /\ n <= Cardinality(u \ {Pick(u)})
  BY <1>7, <1>2
<1> QED BY <1>7, <1>8

\* Shifting the indices by one keeps the sum.
LEMMA SumShift ==
  ASSUME NEW f, NEW g, NEW k \in Nat, \A i \in 1..k : g[i] = f[i + 1] /\ g[i] \in Nat
  PROVE  SumFunctionOnSet(f, 2..k+1) = SumFunctionOnSet(g, 1..k)
<1> DEFINE Bad == {n \in Nat : n <= k /\ SumFunctionOnSet(f, 2..n+1) # SumFunctionOnSet(g, 1..n)}
<1>1. SUFFICES ASSUME Bad # {} PROVE FALSE
  OBVIOUS
<1>2. PICK n \in Bad : \A m \in Bad : n <= m
  BY <1>1, LeastNat
<1>3. IsFiniteSet(1..n) /\ IsFiniteSet(2..n+1)
  BY FS_Interval
<1>4. n # 0
  <2>1. SUFFICES ASSUME n = 0 PROVE FALSE
    OBVIOUS
  <2>2. 1..n = {} /\ 2..n+1 = {}
    BY <2>1
  <2>3. SumFunctionOnSet(f, 2..n+1) = 0 /\ SumFunctionOnSet(g, 1..n) = 0
    BY <2>2, <1>3, SumUnfold
  <2> QED BY <2>3, <1>2
<1>5. n - 1 \in Nat /\ n - 1 \notin Bad
  BY <1>2, <1>4
<1>6. (1..n) \ {n} = 1..n-1 /\ (2..n+1) \ {n+1} = 2..(n-1)+1 /\ n \in 1..n /\ n+1 \in 2..n+1
  BY <1>4
<1>7. SumFunctionOnSet(g, 1..n) = g[n] + SumFunctionOnSet(g, 1..n-1)
  <2> DEFINE d == 1..n
             e == n
  <2>1. (\A x \in d : g[x] \in Nat) /\ IsFiniteSet(d) /\ e \in d /\ d \ {e} = 1..n-1
    BY <1>3, <1>6
  <2> HIDE DEF d, e
  <2>2. SumFunctionOnSet(g, d) = g[e] + SumFunctionOnSet(g, d \ {e})
    BY <2>1, SumOut
  <2> QED BY <2>1, <2>2, Zenon DEF d, e
<1>8. SumFunctionOnSet(f, 2..n+1) = f[n+1] + SumFunctionOnSet(f, 2..(n-1)+1)
  <2>1. ASSUME NEW x \in 2..n+1 PROVE f[x] \in Nat
    <3>1. x - 1 \in 1..k /\ (x - 1) + 1 = x
      OBVIOUS
    <3> QED BY <3>1
  <2> DEFINE d == 2..n+1
             e == n+1
  <2>2. (\A x \in d : f[x] \in Nat) /\ IsFiniteSet(d) /\ e \in d /\ d \ {e} = 2..(n-1)+1
    BY <2>1, <1>3, <1>6
  <2> HIDE DEF d, e
  <2>3. SumFunctionOnSet(f, d) = f[e] + SumFunctionOnSet(f, d \ {e})
    BY <2>2, SumOut
  <2> QED BY <2>2, <2>3, Zenon DEF d, e
<1> QED BY <1>5, <1>6, <1>7, <1>8, <1>2

\* The sum of a sequence: of the empty one, by its head, and of one more at its end.
LEMMA SumSeq ==
  ASSUME NEW s \in Seq(Nat)
  PROVE  /\ SumFunction(s) \in Nat
         /\ s = <<>> => SumFunction(s) = 0
         /\ s # <<>> => SumFunction(s) = Head(s) + SumFunction(Tail(s))
         /\ \A n \in Nat : SumFunction(Append(s, n)) = n + SumFunction(s)
<1>1. DOMAIN s = 1..Len(s) /\ IsFiniteSet(1..Len(s)) /\ Len(s) \in Nat /\ \A i \in 1..Len(s) : s[i] \in Nat
  <2>1. DOMAIN s = 1..Len(s) /\ Len(s) \in Nat /\ \A i \in 1..Len(s) : s[i] \in Nat
    OBVIOUS
  <2> QED BY <2>1, FS_Interval
<1>2. SumFunction(s) \in Nat
  BY <1>1, SumType DEF SumFunction
<1>3. ASSUME s = <<>> PROVE SumFunction(s) = 0
  <2>1. DOMAIN s = {}
    BY <1>3
  <2> QED BY <2>1, <1>1, SumUnfold DEF SumFunction
<1>4. ASSUME s # <<>> PROVE SumFunction(s) = Head(s) + SumFunction(Tail(s))
  <2> DEFINE t == Tail(s)
             k == Len(s) - 1
  <2>1. t \in Seq(Nat) /\ DOMAIN t = 1..k /\ k \in Nat /\ k + 1 = Len(s) /\ \A i \in 1..k : t[i] = s[i+1] /\ t[i] \in Nat
    BY <1>4
  <2>2. 1 \in DOMAIN s /\ (1..Len(s)) \ {1} = 2..k+1 /\ Head(s) = s[1]
    BY <1>4
  <2> HIDE DEF t, k
  <2>3. SumFunctionOnSet(s, 1..Len(s)) = s[1] + SumFunctionOnSet(s, 2..k+1)
    <3> DEFINE d == 1..Len(s)
               e == 1
    <3>1. IsFiniteSet(d) /\ (\A i \in d : s[i] \in Nat) /\ e \in d /\ d \ {e} = 2..k+1
      BY <2>2, <1>1
    <3> HIDE DEF d, e
    <3>2. SumFunctionOnSet(s, d) = s[e] + SumFunctionOnSet(s, d \ {e})
      BY <3>1, SumOut
    <3> QED BY <3>1, <3>2, Zenon DEF d, e
  <2>4. SumFunctionOnSet(s, 2..k+1) = SumFunctionOnSet(t, 1..k)
    BY <2>1, SumShift
  <2> QED BY <2>1, <2>2, <2>3, <2>4, <1>1 DEF SumFunction, t
<1>5. ASSUME NEW n \in Nat PROVE SumFunction(Append(s, n)) = n + SumFunction(s)
  <2> DEFINE a == Append(s, n)
             m == Len(s) + 1
  <2>1. DOMAIN a = 1..m /\ m \in 1..m /\ a[m] = n /\ (\A i \in 1..m : a[i] \in Nat) /\ (\A i \in 1..Len(s) : a[i] = s[i])
        /\ (1..m) \ {m} = 1..Len(s) /\ m \in Nat
    OBVIOUS
  <2> HIDE DEF a, m
  <2>2. IsFiniteSet(1..m)
    BY <2>1, FS_Interval
  <2>3. SumFunctionOnSet(a, 1..m) = n + SumFunctionOnSet(a, 1..Len(s))
    <3> DEFINE d == 1..m
    <3>1. IsFiniteSet(d) /\ (\A i \in d : a[i] \in Nat) /\ m \in d /\ d \ {m} = 1..Len(s)
      BY <2>1, <2>2
    <3> HIDE DEF d
    <3>2. SumFunctionOnSet(a, d) = a[m] + SumFunctionOnSet(a, d \ {m})
      BY <3>1, SumOut
    <3> QED BY <3>1, <3>2, <2>1, Zenon DEF d
  <2>4. SumFunctionOnSet(a, 1..Len(s)) = SumFunctionOnSet(s, 1..Len(s))
    BY <2>1, <1>1, SumSame
  <2> QED BY <2>1, <2>3, <2>4, <1>1 DEF SumFunction, a
<1> QED BY <1>2, <1>3, <1>4, <1>5

\* Changing one summand changes the sum by the difference.
LEMMA SumUpdate ==
  ASSUME NEW f, NEW g, NEW S, IsFiniteSet(S), NEW e \in S,
         \A x \in S : f[x] \in Nat /\ g[x] \in Nat,
         \A x \in S \ {e} : f[x] = g[x]
  PROVE  /\ SumFunctionOnSet(f, S) \in Nat /\ SumFunctionOnSet(g, S) \in Nat
         /\ f[e] <= SumFunctionOnSet(f, S)
         /\ SumFunctionOnSet(g, S) = SumFunctionOnSet(f, S) - f[e] + g[e]
<1> DEFINE T == S \ {e}
<1>1. IsFiniteSet(T)
  BY FS_RemoveElement
<1>2. SumFunctionOnSet(f, S) = f[e] + SumFunctionOnSet(f, T)
  BY SumOut
<1>3. SumFunctionOnSet(g, S) = g[e] + SumFunctionOnSet(g, T)
  BY SumOut
<1>4. SumFunctionOnSet(f, T) = SumFunctionOnSet(g, T)
  BY <1>1, SumSame
<1>5. SumFunctionOnSet(f, T) \in Nat
  BY <1>1, SumType
<1> HIDE DEF T
<1>6. SumFunctionOnSet(f, S) \in Nat /\ SumFunctionOnSet(g, S) \in Nat
  BY SumType
<1> QED BY <1>2, <1>3, <1>4, <1>5, <1>6

\* A sum of zeroes.
LEMMA SumZero ==
  ASSUME NEW f, NEW S, IsFiniteSet(S), \A x \in S : f[x] = 0
  PROVE  SumFunctionOnSet(f, S) = 0
<1> DEFINE Bad == {n \in Nat : \E u \in SUBSET S : IsFiniteSet(u) /\ Cardinality(u) = n /\ SumFunctionOnSet(f, u) # 0}
<1>1. SUFFICES ASSUME Bad # {} PROVE FALSE
  BY FS_CardinalityType
<1>2. PICK n \in Bad : \A m \in Bad : n <= m
  BY <1>1, LeastNat
<1>3. PICK u \in SUBSET S : IsFiniteSet(u) /\ Cardinality(u) = n /\ SumFunctionOnSet(f, u) # 0
  BY <1>2
<1>4. SumFunctionOnSet(f, u) = IF u = {} THEN 0 ELSE f[Pick(u)] + SumFunctionOnSet(f, u \ {Pick(u)})
  BY <1>3, SumUnfold
<1>5. u # {} /\ f[Pick(u)] = 0
  BY <1>3, <1>4, PickIn
<1>6. SumFunctionOnSet(f, u \ {Pick(u)}) # 0
  BY <1>3, <1>4, <1>5
<1>7. Cardinality(u \ {Pick(u)}) \in Bad /\ Cardinality(u \ {Pick(u)}) < n /\ n \in Nat
  BY <1>3, <1>5, <1>6, Less
<1>8. Cardinality(u \ {Pick(u)}) \in Nat /\ n <= Cardinality(u \ {Pick(u)})
  BY <1>7, <1>2
<1> QED BY <1>7, <1>8

\* Sums are monotone.
LEMMA SumLeq ==
  ASSUME NEW f, NEW g, NEW S, IsFiniteSet(S), \A x \in S : f[x] \in Nat /\ g[x] \in Nat /\ f[x] <= g[x]
  PROVE  SumFunctionOnSet(f, S) <= SumFunctionOnSet(g, S)
<1> DEFINE Bad == {n \in Nat : \E u \in SUBSET S : IsFiniteSet(u) /\ Cardinality(u) = n /\ ~(SumFunctionOnSet(f, u) <= SumFunctionOnSet(g, u))}
<1>1. SUFFICES ASSUME Bad # {} PROVE FALSE
  BY FS_CardinalityType
<1>2. PICK n \in Bad : \A m \in Bad : n <= m
  BY <1>1, LeastNat
<1>3. PICK u \in SUBSET S : IsFiniteSet(u) /\ Cardinality(u) = n /\ ~(SumFunctionOnSet(f, u) <= SumFunctionOnSet(g, u))
  BY <1>2
<1> DEFINE v == u \ {Pick(u)}
<1>4. /\ SumFunctionOnSet(f, u) = IF u = {} THEN 0 ELSE f[Pick(u)] + SumFunctionOnSet(f, v)
      /\ SumFunctionOnSet(g, u) = IF u = {} THEN 0 ELSE g[Pick(u)] + SumFunctionOnSet(g, v)
  BY <1>3, SumUnfold
<1>5. u # {} /\ Pick(u) \in S
  BY <1>3, <1>4, PickIn
<1>6. IsFiniteSet(v) /\ v \in SUBSET S /\ Cardinality(v) \in Nat /\ Cardinality(v) < n /\ n \in Nat
  BY <1>3, <1>5, Less
<1> HIDE DEF v
<1>7. SumFunctionOnSet(f, v) \in Nat /\ SumFunctionOnSet(g, v) \in Nat
  BY <1>6, SumType
<1>8. ~(SumFunctionOnSet(f, v) <= SumFunctionOnSet(g, v))
  BY <1>3, <1>4, <1>5, <1>7
<1>9. n <= Cardinality(v)
  BY <1>2, <1>6, <1>8
<1> QED BY <1>6, <1>9

\* Summing over a subset is summing with the others counted as zero.
LEMMA SumFilter ==
  ASSUME NEW f, NEW S, IsFiniteSet(S), NEW F \in SUBSET S, \A x \in S : f[x] \in Nat
  PROVE  SumFunctionOnSet(f, F) = SumFunctionOnSet([x \in S |-> IF x \in F THEN f[x] ELSE 0], S)
<1> DEFINE g == [x \in S |-> IF x \in F THEN f[x] ELSE 0]
           Bad == {n \in Nat : \E u \in SUBSET S : IsFiniteSet(u) /\ Cardinality(u) = n /\ SumFunctionOnSet(g, u) # SumFunctionOnSet(f, u \cap F)}
<1>1. SUFFICES ASSUME Bad # {} PROVE FALSE
  <2>1. S \cap F = F
    OBVIOUS
  <2>2. SUFFICES SumFunctionOnSet(g, S) = SumFunctionOnSet(f, S \cap F)
    BY <2>1
  <2> HIDE DEF g
  <2> QED BY FS_CardinalityType
<1>a. \A x \in S : g[x] = IF x \in F THEN f[x] ELSE 0
  OBVIOUS
<1> HIDE DEF g
<1>2. PICK n \in Bad : \A m \in Bad : n <= m
  BY <1>1, LeastNat
<1>3. PICK u \in SUBSET S : IsFiniteSet(u) /\ Cardinality(u) = n /\ SumFunctionOnSet(g, u) # SumFunctionOnSet(f, u \cap F)
  BY <1>2
<1> DEFINE c == Pick(u)
           v == u \ {c}
<1>4. SumFunctionOnSet(g, u) = IF u = {} THEN 0 ELSE g[c] + SumFunctionOnSet(g, v)
  BY <1>3, SumUnfold
<1>5. u # {}
  <2>1. SUFFICES ASSUME u = {} PROVE FALSE
    OBVIOUS
  <2>2. u \cap F = {}
    BY <2>1
  <2>3. SumFunctionOnSet(f, u \cap F) = 0
    BY <2>2, FS_EmptySet, SumUnfold
  <2> QED BY <2>1, <2>3, <1>3, <1>4
<1>6. IsFiniteSet(v) /\ v \in SUBSET S /\ Cardinality(v) \in Nat /\ Cardinality(v) < n /\ n \in Nat /\ c \in u
  BY <1>3, <1>5, Less, PickIn
<1>7. SumFunctionOnSet(g, v) = SumFunctionOnSet(f, v \cap F)
  <2> HIDE DEF v
  <2>1. SUFFICES ASSUME SumFunctionOnSet(g, v) # SumFunctionOnSet(f, v \cap F) PROVE FALSE
    OBVIOUS
  <2>2. Cardinality(v) \in Bad
    BY <2>1, <1>6
  <2>3. n <= Cardinality(v)
    BY <2>2, <1>2
  <2> QED BY <2>3, <1>6
<1> HIDE DEF c
<1>8. CASE c \in F
  <2> DEFINE w == u \cap F
  <2>1. c \in w /\ v \cap F = w \ {c} /\ g[c] = f[c] /\ \A x \in w : f[x] \in Nat
    BY <1>6, <1>8, <1>a
  <2>2. IsFiniteSet(w)
    BY <1>3, FS_Intersection
  <2> HIDE DEF w, v
  <2>3. SumFunctionOnSet(f, w) = f[c] + SumFunctionOnSet(f, w \ {c})
    BY <2>1, <2>2, SumOut
  <2> QED BY <2>1, <2>3, <1>3, <1>4, <1>5, <1>7, Zenon DEF w
<1>9. CASE c \notin F
  <2>1. v \cap F = u \cap F /\ g[c] = 0
    BY <1>6, <1>9, <1>a
  <2>2. IsFiniteSet(u \cap F) /\ \A x \in u \cap F : f[x] \in Nat
    BY <1>3, FS_Intersection
  <2>3. SumFunctionOnSet(f, u \cap F) \in Nat
    BY <2>2, SumType
  <2>4. SumFunctionOnSet(g, u) = 0 + SumFunctionOnSet(f, u \cap F)
    BY <2>1, <1>4, <1>5, <1>7, Zenon
  <2> QED BY <2>3, <2>4, <1>3
<1> QED BY <1>8, <1>9

-----------------------------------------------------------------------------
(* The worker *)

\* The places of a producer and of the worker, and their records.
ProdPcs == {"idle", "put", "refuse", "look", "unpark"}
WorkPcs == {"scan", "uncount", "recheck", "park", "awake"}
ProdRec == [pc : ProdPcs, n : Nat]
WorkRec == [pc : WorkPcs, at : Nat, did : {TRUE, FALSE}, n : Nat]

\* Rings within their capacity, producers and the worker at their places.
RingType == rings \in [Producers -> Seq(Nat)] /\ \A p \in Producers : Len(rings[p]) <= RingCap
ProdType == prod \in [Producers -> ProdRec]
WorkType ==
    /\ work \in WorkRec /\ work.at >= 1
    /\ work.pc = "recheck" => work.at \in Producers
    /\ work.pc # "uncount" => work.n = 0
    /\ sleeping <=> work.pc \in {"recheck", "park", "awake"}
    /\ sleeping \in {TRUE, FALSE} /\ token \in {TRUE, FALSE}
WorkerType == RingType /\ ProdType /\ WorkType

\* Someone has seen, or will see, that the worker sleeps.
Called == token \/ \E q \in Producers : prod[q].pc \in {"look", "unpark"}

\* Before it parks, the worker has rechecked every ring below its place, and what
\* was pushed since has been seen by a producer who will wake it.
WakeInv ==
    work.pc \in {"recheck", "park"} /\ ~Called =>
           \A p \in Producers : work.pc = "park" \/ p < work.at => rings[p] = <<>>

\* What each producer has in its ring, holds counted but not placed, and may place.
InRing == [p \in Producers |-> SumFunction(rings[p])]
Held == [p \in Producers |-> IF prod[p].pc \in {"put", "refuse"} THEN prod[p].n ELSE 0]
Placing == [p \in Producers |-> IF prod[p].pc = "put" THEN prod[p].n ELSE 0]
Total(f) == SumFunctionOnSet(f, Producers)

\* NoLostWake bounds the load by what lies in the rings; inductive is that the
\* counter is the rings, the producers about to put or refuse, and the worker's batch.
CountInv ==
    /\ queued = Total(InRing) + Total(Held) + work.n
    /\ Total(InRing) + Total(Placing) <= Limit
WorkerInv == WorkerType /\ WakeInv /\ CountInv

\* A worker that starts has empty rings.
LEMMA WakeInit == ASSUME WorkerBounds, Init PROVE WorkerType /\ WakeInv
<1>1. RingType
  BY DEF Init, WorkerBounds, RingType
<1>3. ProdType
  BY DEF Init, Still, ProdType, ProdRec, ProdPcs
<1>4. work \in WorkRec /\ work.pc = "scan" /\ work.n = 0 /\ work.at >= 1
  BY DEF Init, WorkRec, WorkPcs
<1> QED BY <1>1, <1>3, <1>4 DEF Init, WorkerType, WorkType, WakeInv

\* A producer moves to another place.
LEMMA ProdStep ==
  ASSUME ProdType, NEW p \in Producers, NEW c \in ProdPcs
  PROVE  [prod EXCEPT ![p].pc = c] \in [Producers -> ProdRec]
BY DEF ProdType, ProdRec

\* A producer starts over with a batch.
LEMMA ProdSet ==
  ASSUME ProdType, NEW p \in Producers, NEW c \in ProdPcs, NEW n \in Nat
  PROVE  [prod EXCEPT ![p] = [pc |-> c, n |-> n]] \in [Producers -> ProdRec]
BY DEF ProdType, ProdRec

\* Producers keep their records.
LEMMA ProdNext ==
  ASSUME WorkerBounds, ProdType, Next
  PROVE  ProdType'
<1>1. ASSUME NEW p \in Producers, NEW n \in Weights, Count(p, n) PROVE ProdType'
  <2>1. prod' = [prod EXCEPT ![p] = [pc |-> IF queued + n > Limit THEN "refuse" ELSE "put", n |-> n]]
    BY <1>1 DEF Count
  <2>2. n \in Nat /\ (IF queued + n > Limit THEN "refuse" ELSE "put") \in ProdPcs
    BY DEF WorkerBounds, ProdPcs
  <2> QED BY <2>1, <2>2, ProdSet DEF ProdType
<1>2. ASSUME NEW p \in Producers, Put(p) PROVE ProdType'
  <2>1. \E c \in {"look", "refuse"} : prod' = [prod EXCEPT ![p].pc = c]
    BY <1>2, Zenon DEF Put
  <2>2. \A c \in {"look", "refuse"} : [prod EXCEPT ![p].pc = c] \in [Producers -> ProdRec]
    BY ProdStep DEF ProdPcs
  <2> QED BY <2>1, <2>2 DEF ProdType
<1>3. ASSUME NEW p \in Producers, Refuse(p) PROVE ProdType'
  BY <1>3, ProdSet DEF Refuse, ProdType, ProdPcs, Still
<1>4. ASSUME NEW p \in Producers, Look(p) PROVE ProdType'
  BY <1>4, ProdSet DEF Look, ProdType, ProdPcs, Still
<1>5. ASSUME NEW p \in Producers, Unpark(p) PROVE ProdType'
  BY <1>5, ProdSet DEF Unpark, ProdType, ProdPcs, Still
<1>6. ASSUME Pop \/ Uncount \/ Scanned \/ Recheck \/ Wake \/ Awake PROVE ProdType'
  BY <1>6 DEF ProdType, Pop, Uncount, Scanned, Recheck, Wake, Awake
<1> QED BY <1>1, <1>2, <1>3, <1>4, <1>5, <1>6 DEF Next

\* Rings keep their capacity.
LEMMA RingNext ==
  ASSUME WorkerBounds, WorkerType, Next
  PROVE  RingType'
<1>2. ASSUME NEW p \in Producers, Put(p) PROVE RingType'
  <2>1. CASE Len(rings[p]) < RingCap
    <3> DEFINE a == Append(rings[p], prod[p].n)
    <3>1. rings' = [rings EXCEPT ![p] = a]
      BY <1>2, <2>1 DEF Put
    <3>a. prod[p].n \in Nat /\ rings[p] \in Seq(Nat)
      BY DEF WorkerType, ProdType, ProdRec, RingType
    <3>2. a \in Seq(Nat) /\ Len(a) <= RingCap
      BY <2>1, <3>a DEF WorkerBounds
    <3> HIDE DEF a
    <3> QED BY <3>1, <3>2 DEF WorkerType, RingType
  <2>2. CASE ~(Len(rings[p]) < RingCap)
    BY <1>2, <2>2 DEF Put, WorkerType, RingType
  <2> QED BY <2>1, <2>2
<1>6. ASSUME Pop PROVE RingType'
  <2>1. work.at \in Producers
    BY <1>6 DEF Pop, Producers, WorkerType, WorkType, WorkRec
  <2>2. CASE rings[work.at] = <<>>
    BY <1>6, <2>2 DEF Pop, WorkerType, RingType
  <2>3. CASE rings[work.at] # <<>>
    <3> DEFINE a == Tail(rings[work.at])
    <3>1. rings' = [rings EXCEPT ![work.at] = a]
      BY <1>6, <2>3 DEF Pop
    <3>a. rings[work.at] \in Seq(Nat) /\ Len(rings[work.at]) <= RingCap
      BY <2>1 DEF WorkerType, RingType
    <3>2. a \in Seq(Nat) /\ Len(a) <= RingCap
      BY <2>3, <3>a DEF WorkerBounds
    <3> HIDE DEF a
    <3> QED BY <2>1, <3>1, <3>2 DEF WorkerType, RingType
  <2> QED BY <2>2, <2>3
<1>7. CASE UNCHANGED rings
  BY <1>7 DEF WorkerType, RingType
<1> QED BY <1>2, <1>6, <1>7 DEF Next, Count, Refuse, Look, Unpark, Uncount, Scanned, Recheck, Wake, Awake

\* The worker sleeps exactly at the places where its flag says so.
LEMMA WorkNext ==
  ASSUME WorkerBounds, WorkerType, Next
  PROVE  WorkType'
<1>0. /\ work \in WorkRec /\ work.at >= 1 /\ sleeping \in {TRUE, FALSE} /\ token \in {TRUE, FALSE}
      /\ work.pc = "recheck" => work.at \in Producers
      /\ work.pc # "uncount" => work.n = 0
      /\ sleeping <=> work.pc \in {"recheck", "park", "awake"}
  BY DEF WorkerType, WorkType
<1>1. ASSUME UNCHANGED <<work, sleeping>>, token' \in {TRUE, FALSE} PROVE WorkType'
  BY <1>0, <1>1 DEF WorkType
<1>2. ASSUME NEW p \in Producers, Put(p) \/ Refuse(p) \/ Look(p) \/ Unpark(p) \/ \E n \in Weights : Count(p, n) PROVE WorkType'
  BY <1>0, <1>1, <1>2 DEF Put, Refuse, Look, Unpark, Count
<1>6. ASSUME Pop PROVE WorkType'
  <2>1. work.at \in Producers /\ work.pc = "scan" /\ UNCHANGED <<sleeping, token>>
    BY <1>0, <1>6 DEF Pop, Producers, WorkRec
  <2>2. CASE rings[work.at] = <<>>
    <3>1. work' = [work EXCEPT !.at = @ + 1]
      BY <1>6, <2>2 DEF Pop
    <3>2. work.at + 1 \in Nat /\ work.at + 1 >= 1
      BY <1>0 DEF WorkRec
    <3>3. work' \in WorkRec
      BY <1>0, <3>1, <3>2 DEF WorkRec
    <3>4. work'.pc = "scan" /\ work'.n = work.n
      BY <1>0, <2>1, <3>1 DEF WorkRec
    <3>5. work'.at >= 1
      BY <1>0, <3>1, <3>2 DEF WorkRec
    <3> QED BY <1>0, <2>1, <3>3, <3>4, <3>5 DEF WorkType
  <2>3. CASE rings[work.at] # <<>>
    <3> DEFINE h == Head(rings[work.at])
    <3>1. rings[work.at] \in Seq(Nat)
      BY <2>1 DEF WorkerType, RingType
    <3>2. h \in Nat
      BY <2>3, <3>1
    <3>3. work' = [work EXCEPT !.pc = "uncount", !.n = h, !.did = TRUE]
      BY <1>6, <2>3 DEF Pop
    <3> HIDE DEF h
    <3>4. work' \in WorkRec
      BY <1>0, <3>2, <3>3 DEF WorkRec, WorkPcs
    <3>5. work'.pc = "uncount" /\ work'.at = work.at
      BY <1>0, <3>3 DEF WorkRec
    <3> QED BY <1>0, <2>1, <3>4, <3>5 DEF WorkType
  <2> QED BY <2>2, <2>3
<1>7. ASSUME Uncount PROVE WorkType'
  <2>1. work' \in WorkRec
    BY <1>0, <1>7 DEF Uncount, WorkRec, WorkPcs
  <2>2. work'.pc = "scan" /\ work'.n = 0 /\ work'.at = work.at /\ work.pc = "uncount" /\ UNCHANGED <<sleeping, token>>
    BY <1>0, <1>7 DEF Uncount, WorkRec
  <2> QED BY <1>0, <2>1, <2>2 DEF WorkType
<1>8. ASSUME Scanned PROVE WorkType'
  <2>1. 1 \in Producers
    BY DEF WorkerBounds, Producers
  <2>2. CASE work' = [work EXCEPT !.at = 1, !.did = FALSE] /\ sleeping' = sleeping
    <3>1. work' \in WorkRec
      BY <1>0, <2>2 DEF WorkRec
    <3>2. work'.pc = "scan" /\ work'.n = work.n /\ work'.at = 1 /\ work'.at >= 1 /\ work.pc = "scan" /\ token' = token
      BY <1>0, <1>8, <2>2 DEF Scanned, WorkRec
    <3> QED BY <1>0, <2>2, <3>1, <3>2 DEF WorkType
  <2>3. CASE work' = [work EXCEPT !.pc = "recheck", !.at = 1] /\ sleeping' = TRUE
    <3>1. work' \in WorkRec
      BY <1>0, <2>3 DEF WorkRec, WorkPcs
    <3>2. work'.pc = "recheck" /\ work'.n = work.n /\ work'.at = 1 /\ work'.at >= 1 /\ work.pc = "scan" /\ token' = token
      BY <1>0, <1>8, <2>3 DEF Scanned, WorkRec
    <3>3. work'.n = 0
      BY <1>0, <3>2
    <3> QED BY <1>0, <2>1, <2>3, <3>1, <3>2, <3>3 DEF WorkType
  <2> QED BY <1>8, <2>2, <2>3 DEF Scanned
<1>9. ASSUME Recheck PROVE WorkType'
  <2>1. work.pc = "recheck" /\ work.at \in Producers /\ work.at \in 1..Froms /\ UNCHANGED <<sleeping, token>>
    BY <1>0, <1>9 DEF Recheck, Producers
  <2>2. ASSUME NEW c \in {"awake", "park"}, work' = [work EXCEPT !.pc = c] PROVE WorkType'
    <3>1. work' \in WorkRec
      BY <1>0, <2>2 DEF WorkRec, WorkPcs
    <3>2. work'.pc = c /\ work'.n = work.n /\ work'.at = work.at
      BY <1>0, <2>2 DEF WorkRec
    <3> QED BY <1>0, <2>1, <3>1, <3>2 DEF WorkType
  <2>3. CASE rings[work.at] # <<>>
    BY <1>9, <2>2, <2>3 DEF Recheck
  <2>4. CASE rings[work.at] = <<>> /\ work.at < Froms
    <3>0. work.at # Froms
      BY <2>1, <2>4 DEF WorkerBounds
    <3>1. work' = [work EXCEPT !.at = @ + 1]
      BY <1>9, <2>4, <3>0 DEF Recheck
    <3>2. work.at + 1 \in Nat /\ work.at + 1 >= 1 /\ work.at + 1 \in Producers
      BY <2>1, <2>4 DEF WorkerBounds, Producers
    <3>3. work' \in WorkRec
      BY <1>0, <3>1, <3>2 DEF WorkRec
    <3>4. work'.pc = "recheck" /\ work'.n = work.n
      BY <1>0, <2>1, <3>1 DEF WorkRec
    <3>5. work'.at >= 1 /\ work'.at \in Producers
      BY <1>0, <3>1, <3>2 DEF WorkRec
    <3> QED BY <1>0, <2>1, <3>3, <3>4, <3>5 DEF WorkType
  <2>5. CASE rings[work.at] = <<>> /\ work.at = Froms
    <3>1. ~(work.at < Froms)
      BY <2>5 DEF WorkerBounds
    <3>2. work' = [work EXCEPT !.pc = "park"]
      BY <1>9, <2>5, <3>1 DEF Recheck
    <3> QED BY <2>2, <3>2
  <2> QED BY <2>1, <2>3, <2>4, <2>5 DEF WorkerBounds
<1>10. ASSUME Wake PROVE WorkType'
  <2>1. work' \in WorkRec
    BY <1>0, <1>10 DEF Wake, WorkRec, WorkPcs
  <2>2. work'.pc = "awake" /\ work'.n = work.n /\ work'.at = work.at /\ work.pc = "park" /\ sleeping' = sleeping /\ token' = FALSE
    BY <1>0, <1>10 DEF Wake, WorkRec
  <2> QED BY <1>0, <2>1, <2>2 DEF WorkType
<1>11. ASSUME Awake PROVE WorkType'
  <2>1. work' \in WorkRec
    BY <1>0, <1>11 DEF Awake, WorkRec, WorkPcs
  <2>2. work'.pc = "scan" /\ work'.n = work.n /\ work'.at = 1 /\ work'.at >= 1 /\ work.pc = "awake" /\ sleeping' = FALSE /\ token' = token
    BY <1>0, <1>11 DEF Awake, WorkRec
  <2> QED BY <1>0, <2>1, <2>2 DEF WorkType
<1> QED BY <1>2, <1>6, <1>7, <1>8, <1>9, <1>10, <1>11 DEF Next

\* No step loses a wake: a push while the worker is about to park leaves a producer
\* that looks at the flag afterwards.
LEMMA WakeNext == ASSUME WorkerBounds, WorkerType, WakeInv, Next PROVE WakeInv'
<1>1. ASSUME NEW p \in Producers, NEW n \in Weights, Count(p, n) PROVE WakeInv'
  BY <1>1 DEF Count, WakeInv, Called, Still, WorkerType, ProdType
<1>2. ASSUME NEW p \in Producers, Put(p) PROVE WakeInv'
  <2>1. CASE Len(rings[p]) < RingCap
    <3>1. prod'[p].pc = "look"
      BY <1>2, <2>1 DEF Put, WorkerType, ProdType, ProdRec
    <3> QED BY <3>1 DEF WakeInv, Called
  <2>2. CASE ~(Len(rings[p]) < RingCap)
    BY <1>2, <2>2 DEF Put, WakeInv, Called, WorkerType, ProdType, ProdRec
  <2> QED BY <2>1, <2>2
<1>3. ASSUME NEW p \in Producers, Refuse(p) PROVE WakeInv'
  BY <1>3 DEF Refuse, WakeInv, Called, Still, WorkerType, ProdType
<1>4. ASSUME NEW p \in Producers, Look(p) PROVE WakeInv'
  BY <1>4 DEF Look, WakeInv, Called, Still, WorkerType, ProdType, WorkType
<1>5. ASSUME NEW p \in Producers, Unpark(p) PROVE WakeInv'
  BY <1>5 DEF Unpark, WakeInv, Called
<1>6. ASSUME Pop PROVE WakeInv'
  BY <1>6 DEF Pop, WakeInv, WorkerType, WorkType, WorkRec
<1>7. ASSUME Uncount PROVE WakeInv'
  BY <1>7 DEF Uncount, WakeInv, WorkerType, WorkType, WorkRec
<1>8. ASSUME Scanned PROVE WakeInv'
  <2>1. work'.pc = "scan" \/ (work'.pc = "recheck" /\ work'.at = 1)
    BY <1>8 DEF Scanned, WorkerType, WorkType, WorkRec
  <2> QED BY <2>1 DEF WakeInv, Producers
<1>9. ASSUME Recheck PROVE WakeInv'
  <2>1. CASE rings[work.at] # <<>>
    <3>1. work'.pc = "awake"
      BY <1>9, <2>1 DEF Recheck, WorkerType, WorkType, WorkRec
    <3> QED BY <3>1 DEF WakeInv
  <2>2. CASE rings[work.at] = <<>> /\ work.at < Froms
    <3>1. work'.pc = "recheck" /\ work'.at = work.at + 1 /\ work.pc = "recheck" /\ work.at \in Nat
      BY <1>9, <2>2 DEF Recheck, WorkerType, WorkType, WorkRec
    <3>2. UNCHANGED <<rings, token, prod>>
      BY <1>9 DEF Recheck
    <3> QED BY <3>1, <3>2, <2>2 DEF WakeInv, Called, Producers
  <2>3. CASE rings[work.at] = <<>> /\ work.at = Froms
    <3>a. ~(work.at < Froms)
      BY <2>3 DEF WorkerBounds
    <3>b. work' = [work EXCEPT !.pc = "park"] /\ work.pc = "recheck"
      BY <1>9, <2>3, <3>a, Zenon DEF Recheck
    <3>1. work'.pc = "park" /\ work.pc = "recheck"
      BY <3>b DEF WorkerType, WorkType, WorkRec
    <3>2. UNCHANGED <<rings, token, prod>>
      BY <1>9 DEF Recheck
    <3> QED BY <3>1, <3>2, <2>3 DEF WakeInv, Called, Producers, WorkerBounds
  <2>4. work.at < Froms \/ work.at = Froms
    BY <1>9 DEF Recheck, WorkerType, WorkType, Producers, WorkerBounds
  <2> QED BY <2>1, <2>2, <2>3, <2>4
<1>10. ASSUME Wake PROVE WakeInv'
  BY <1>10 DEF Wake, WakeInv, WorkerType, WorkType, WorkRec
<1>11. ASSUME Awake PROVE WakeInv'
  BY <1>11 DEF Awake, WakeInv, WorkerType, WorkType, WorkRec
<1> QED BY <1>1, <1>2, <1>3, <1>4, <1>5, <1>6, <1>7, <1>8, <1>9, <1>10, <1>11 DEF Next

\* There are finitely many producers.
LEMMA Producing == ASSUME WorkerBounds PROVE IsFiniteSet(Producers)
BY FS_Interval DEF WorkerBounds, Producers

\* The four counts are naturals.
LEMMA CountTypes ==
  ASSUME WorkerBounds, WorkerType
  PROVE  /\ \A p \in Producers : InRing[p] \in Nat /\ Held[p] \in Nat /\ Placing[p] \in Nat /\ Placing[p] <= Held[p]
         /\ Total(InRing) \in Nat /\ Total(Held) \in Nat /\ Total(Placing) \in Nat /\ Total(Placing) <= Total(Held)
<1>1. ASSUME NEW p \in Producers PROVE InRing[p] \in Nat /\ Held[p] \in Nat /\ Placing[p] \in Nat /\ Placing[p] <= Held[p]
  <2>1. rings[p] \in Seq(Nat) /\ prod[p].n \in Nat
    BY DEF WorkerType, RingType, ProdType, ProdRec
  <2>2. SumFunction(rings[p]) \in Nat
    BY <2>1, SumSeq
  <2> QED BY <2>1, <2>2 DEF InRing, Held, Placing
<1>2. Total(InRing) \in Nat /\ Total(Held) \in Nat /\ Total(Placing) \in Nat
  BY <1>1, Producing, SumType DEF Total
<1>3. Total(Placing) <= Total(Held)
  BY <1>1, Producing, SumLeq DEF Total
<1> QED BY <1>1, <1>2, <1>3

\* Steps that touch neither rings nor producers keep the counts.
LEMMA SameTotals ==
  ASSUME WorkerBounds, WorkerType,
         UNCHANGED rings, UNCHANGED prod
  PROVE  UNCHANGED <<Total(InRing), Total(Held), Total(Placing)>>
BY DEF InRing, Held, Placing, Total

\* A change at one producer changes a count by the difference.
LEMMA TotalMove ==
  ASSUME WorkerBounds, NEW f, NEW g, NEW p \in Producers,
         \A q \in Producers : f[q] \in Nat /\ g[q] \in Nat,
         \A q \in Producers \ {p} : f[q] = g[q]
  PROVE  Total(g) = Total(f) - f[p] + g[p] /\ f[p] <= Total(f) /\ Total(f) \in Nat
BY Producing, SumUpdate DEF Total

\* Every step moves the counter with what it counts.
LEMMA CountNext == ASSUME WorkerBounds, WorkerType, WorkerType', CountInv, Next PROVE CountInv'
<1>0. /\ queued = Total(InRing) + Total(Held) + work.n
      /\ Total(InRing) + Total(Placing) <= Limit
      /\ work.n \in Nat /\ Limit \in Nat
      /\ Total(InRing) \in Nat /\ Total(Held) \in Nat /\ Total(Placing) \in Nat /\ Total(Placing) <= Total(Held)
  BY CountTypes DEF CountInv, WorkerType, WorkType, WorkRec, WorkerBounds
<1>a. \A p \in Producers : InRing[p] \in Nat /\ Held[p] \in Nat /\ Placing[p] \in Nat
  BY CountTypes
<1>b. \A p \in Producers : InRing'[p] \in Nat /\ Held'[p] \in Nat /\ Placing'[p] \in Nat
  <2>1. ASSUME NEW p \in Producers PROVE InRing'[p] \in Nat /\ Held'[p] \in Nat /\ Placing'[p] \in Nat
    <3>1. rings'[p] \in Seq(Nat) /\ prod'[p].n \in Nat
      BY DEF WorkerType, RingType, ProdType, ProdRec
    <3>2. SumFunction(rings'[p]) \in Nat
      BY <3>1, SumSeq
    <3> QED BY <3>1, <3>2 DEF InRing, Held, Placing
  <2> QED BY <2>1
<1>c. ASSUME NEW p \in Producers, \A q \in Producers \ {p} : prod'[q] = prod[q]
      PROVE  /\ Total(Held') = Total(Held) - Held[p] + Held'[p] /\ Held[p] <= Total(Held)
             /\ Total(Placing') = Total(Placing) - Placing[p] + Placing'[p] /\ Placing[p] <= Total(Placing)
  <2>1. \A q \in Producers \ {p} : Held[q] = Held'[q] /\ Placing[q] = Placing'[q]
    BY <1>c DEF Held, Placing
  <2> QED BY <2>1, <1>a, <1>b, TotalMove
<1>d. ASSUME NEW p \in Producers, \A q \in Producers \ {p} : rings'[q] = rings[q]
      PROVE  Total(InRing') = Total(InRing) - InRing[p] + InRing'[p] /\ InRing[p] <= Total(InRing)
  <2>1. \A q \in Producers \ {p} : InRing[q] = InRing'[q]
    BY <1>d DEF InRing
  <2> QED BY <2>1, <1>a, <1>b, TotalMove
<1>e. Total(InRing)' = Total(InRing') /\ Total(Held)' = Total(Held') /\ Total(Placing)' = Total(Placing')
  BY DEF Total
<1> DEFINE W == Total(InRing)
           H == Total(Held)
           P == Total(Placing)
<1>f. ASSUME UNCHANGED rings PROVE W' = W
  BY <1>f DEF InRing, Total
<1>g. ASSUME UNCHANGED prod PROVE H' = H /\ P' = P
  BY <1>g DEF Held, Placing, Total
<1>1. ASSUME NEW p \in Producers, NEW n \in Weights, Count(p, n) PROVE CountInv'
  <2>1. /\ n \in Nat /\ prod[p] = Still /\ queued' = queued + n /\ UNCHANGED <<rings, work>>
        /\ prod' = [prod EXCEPT ![p] = [pc |-> IF queued + n > Limit THEN "refuse" ELSE "put", n |-> n]]
    BY <1>1 DEF Count, WorkerBounds
  <2>2. Held[p] = 0 /\ Placing[p] = 0
    BY <2>1 DEF Held, Placing, Still
  <2>3. prod'[p] = [pc |-> IF queued + n > Limit THEN "refuse" ELSE "put", n |-> n] /\ \A q \in Producers \ {p} : prod'[q] = prod[q]
    BY <2>1 DEF WorkerType, ProdType
  <2>4. Held'[p] = n /\ Placing'[p] = IF queued + n > Limit THEN 0 ELSE n
    BY <2>3 DEF Held, Placing
  <2>5. W' = W /\ H' = H + n /\ P' = P + IF queued + n > Limit THEN 0 ELSE n
    BY <2>1, <2>2, <2>3, <2>4, <1>c, <1>e, <1>f, <1>0
  <2> HIDE DEF W, H, P
  <2>6. queued' = W' + H' + work'.n /\ W' + P' <= Limit
    BY <2>1, <2>5, <1>0 DEF W, H, P
  <2> QED BY <2>6 DEF CountInv, W, H, P
<1>2. ASSUME NEW p \in Producers, Put(p) PROVE CountInv'
  <2>1. /\ prod[p].pc = "put" /\ UNCHANGED <<queued, work>> /\ prod[p].n \in Nat
        /\ Held[p] = prod[p].n /\ Placing[p] = prod[p].n
    BY <1>2 DEF Put, Held, Placing, WorkerType, ProdType, ProdRec
  <2>2. CASE Len(rings[p]) < RingCap
    <3>1. rings' = [rings EXCEPT ![p] = Append(@, prod[p].n)] /\ prod' = [prod EXCEPT ![p].pc = "look"]
      BY <1>2, <2>2 DEF Put
    <3>2. prod'[p].pc = "look" /\ \A q \in Producers \ {p} : prod'[q] = prod[q]
      BY <3>1 DEF WorkerType, ProdType, ProdRec
    <3>3. Held'[p] = 0 /\ Placing'[p] = 0
      BY <3>2 DEF Held, Placing
    <3>4. rings[p] \in Seq(Nat) /\ rings'[p] = Append(rings[p], prod[p].n) /\ \A q \in Producers \ {p} : rings'[q] = rings[q]
      BY <3>1 DEF WorkerType, RingType
    <3>5. InRing'[p] = prod[p].n + InRing[p]
      BY <3>4, <2>1, SumSeq DEF InRing
    <3>a. H' = H - Held[p] + Held'[p] /\ P' = P - Placing[p] + Placing'[p]
      BY <3>2, <1>c, <1>e
    <3>b. W' = W - InRing[p] + InRing'[p]
      BY <3>4, <1>d, <1>e
    <3>6. W' = W + prod[p].n /\ H' = H - prod[p].n /\ P' = P - prod[p].n
      BY <2>1, <3>3, <3>5, <3>a, <3>b, <1>a, <1>0
    <3> HIDE DEF W, H, P
    <3>7. queued' = W' + H' + work'.n /\ W' + P' <= Limit
      BY <2>1, <3>6, <1>0 DEF W, H, P
    <3> QED BY <3>7 DEF CountInv, W, H, P
  <2>3. CASE ~(Len(rings[p]) < RingCap)
    <3>1. rings' = rings /\ prod' = [prod EXCEPT ![p].pc = "refuse"]
      BY <1>2, <2>3 DEF Put
    <3>2. prod'[p].pc = "refuse" /\ prod'[p].n = prod[p].n /\ \A q \in Producers \ {p} : prod'[q] = prod[q]
      BY <3>1 DEF WorkerType, ProdType, ProdRec
    <3>3. Held'[p] = prod[p].n /\ Placing'[p] = 0
      BY <3>2 DEF Held, Placing
    <3>4. W' = W /\ H' = H /\ P' = P - prod[p].n
      BY <2>1, <3>1, <3>2, <3>3, <1>c, <1>e, <1>f, <1>0
    <3> HIDE DEF W, H, P
    <3>5. queued' = W' + H' + work'.n /\ W' + P' <= Limit
      BY <2>1, <3>4, <1>0 DEF W, H, P
    <3> QED BY <3>5 DEF CountInv, W, H, P
  <2> QED BY <2>2, <2>3
<1>3. ASSUME NEW p \in Producers, Refuse(p) PROVE CountInv'
  <2>1. /\ prod[p].pc = "refuse" /\ UNCHANGED <<rings, work>> /\ prod[p].n \in Nat /\ queued' = queued - prod[p].n
        /\ Held[p] = prod[p].n /\ Placing[p] = 0
    BY <1>3 DEF Refuse, Held, Placing, WorkerType, ProdType, ProdRec
  <2>2. prod'[p].pc = "idle" /\ \A q \in Producers \ {p} : prod'[q] = prod[q]
    BY <1>3 DEF Refuse, Still, WorkerType, ProdType
  <2>3. Held'[p] = 0 /\ Placing'[p] = 0
    BY <2>2 DEF Held, Placing
  <2>4. W' = W /\ H' = H - prod[p].n /\ P' = P
    BY <2>1, <2>2, <2>3, <1>c, <1>e, <1>f, <1>0
  <2> HIDE DEF W, H, P
  <2>5. queued' = W' + H' + work'.n /\ W' + P' <= Limit
    BY <2>1, <2>4, <1>0 DEF W, H, P
  <2> QED BY <2>5 DEF CountInv, W, H, P
<1>4. ASSUME NEW p \in Producers, Look(p) \/ Unpark(p) PROVE CountInv'
  <2>1. prod[p].pc \in {"look", "unpark"} /\ UNCHANGED <<rings, work, queued>> /\ Held[p] = 0 /\ Placing[p] = 0
    BY <1>4 DEF Look, Unpark, Held, Placing
  <2>2. prod'[p].pc \in {"idle", "unpark"} /\ \A q \in Producers \ {p} : prod'[q] = prod[q]
    BY <1>4 DEF Look, Unpark, Still, WorkerType, ProdType
  <2>3. Held'[p] = 0 /\ Placing'[p] = 0
    BY <2>2 DEF Held, Placing
  <2>4. W' = W /\ H' = H /\ P' = P
    BY <2>1, <2>2, <2>3, <1>c, <1>e, <1>f, <1>0
  <2> QED BY <2>1, <2>4 DEF CountInv
<1>5. ASSUME Pop PROVE CountInv'
  <2> DEFINE r == rings[work.at]
  <2>1. work.at \in Producers /\ work.n = 0 /\ UNCHANGED <<queued, prod>>
    BY <1>5 DEF Pop, Producers, WorkerType, WorkType, WorkRec
  <2>2. CASE r = <<>>
    <3>1. rings' = rings /\ work'.n = work.n
      BY <1>5, <2>2 DEF Pop, WorkerType, WorkType, WorkRec
    <3> QED BY <2>1, <3>1, <1>f, <1>g DEF CountInv
  <2>3. CASE r # <<>>
    <3>1. r \in Seq(Nat)
      BY <2>1 DEF WorkerType, RingType
    <3>2. Head(r) \in Nat /\ SumFunction(r) = Head(r) + SumFunction(Tail(r)) /\ SumFunction(Tail(r)) \in Nat
      <4>1. r # <<>> /\ Head(r) \in Nat /\ Tail(r) \in Seq(Nat)
        BY <2>3, <3>1
      <4> HIDE DEF r
      <4> QED BY <3>1, <4>1, SumSeq
    <3>3. rings' = [rings EXCEPT ![work.at] = Tail(@)] /\ work'.n = Head(r)
      BY <1>5, <2>3 DEF Pop, WorkerType, WorkType, WorkRec
    <3>4. rings'[work.at] = Tail(r) /\ \A q \in Producers \ {work.at} : rings'[q] = rings[q]
      BY <2>1, <3>3 DEF WorkerType, RingType
    <3>5. InRing[work.at] = SumFunction(r) /\ InRing'[work.at] = SumFunction(Tail(r))
      BY <2>1, <3>4 DEF InRing
    <3>a. W' = W - InRing[work.at] + InRing'[work.at]
      BY <2>1, <3>4, <1>d, <1>e
    <3>6. W' = W - Head(r)
      BY <3>2, <3>5, <3>a, <1>0
    <3> HIDE DEF W, H, P, r
    <3>7. queued' = W' + H' + work'.n /\ W' + P' <= Limit
      BY <2>1, <3>2, <3>3, <3>6, <1>g, <1>0 DEF W, H, P
    <3> QED BY <3>7 DEF CountInv, W, H, P
  <2> QED BY <2>2, <2>3
<1>6. ASSUME Uncount PROVE CountInv'
  <2>1. queued' = queued - work.n /\ work'.n = 0 /\ UNCHANGED <<rings, prod>>
    BY <1>6 DEF Uncount, WorkerType, WorkType, WorkRec
  <2>2. W' = W /\ H' = H /\ P' = P
    BY <2>1, <1>f, <1>g
  <2> HIDE DEF W, H, P
  <2>3. queued' = W' + H' + work'.n /\ W' + P' <= Limit
    BY <2>1, <2>2, <1>0 DEF W, H, P
  <2> QED BY <2>3 DEF CountInv, W, H, P
<1>7. ASSUME Scanned \/ Recheck \/ Wake \/ Awake PROVE CountInv'
  <2>1. UNCHANGED <<queued, rings, prod>>
    BY <1>7 DEF Scanned, Recheck, Wake, Awake
  <2>2. work'.n = work.n
    BY <1>7 DEF Scanned, Recheck, Wake, Awake, WorkerType, WorkType, WorkRec
  <2> QED BY <2>1, <2>2, <1>f, <1>g DEF CountInv
<1> QED BY <1>1, <1>2, <1>3, <1>4, <1>5, <1>6, <1>7 DEF Next

\* Nothing is counted at the start.
LEMMA CountInit == ASSUME WorkerBounds, Init PROVE CountInv
<1>1. ASSUME NEW p \in Producers PROVE InRing[p] = 0 /\ Held[p] = 0 /\ Placing[p] = 0
  <2>1. rings[p] = <<>> /\ rings[p] \in Seq(Nat) /\ prod[p].pc = "idle"
    BY DEF Init, Still
  <2> QED BY <2>1, SumSeq DEF InRing, Held, Placing
<1>2. Total(InRing) = 0 /\ Total(Held) = 0 /\ Total(Placing) = 0
  BY <1>1, Producing, SumZero DEF Total
<1> QED BY <1>2 DEF CountInv, Init, WorkerBounds

\* The inductive invariant contains the two properties.
LEMMA WorkerImplies == ASSUME WorkerBounds, WorkerInv PROVE NoLostWake /\ WorkerTypeOK
<1>1. Waiting = Total(InRing)
  BY DEF Waiting, SumFunction, InRing, Total
<1> DEFINE F == {p \in Producers : prod[p].pc \in {"put", "refuse"}}
           f == [p \in Producers |-> prod[p].n]
<1>2. Counting = Total(Held)
  <2>1. F \in SUBSET Producers /\ \A p \in Producers : f[p] \in Nat
    BY DEF WorkerInv, WorkerType, ProdType, ProdRec
  <2>2. [x \in Producers |-> IF x \in F THEN f[x] ELSE 0] = Held
    BY DEF Held
  <2>3. Counting = SumFunctionOnSet(f, F)
    BY DEF Counting
  <2> HIDE DEF F, f
  <2> QED BY <2>1, <2>2, <2>3, Producing, SumFilter DEF Total
<1>3. work.n \in Nat /\ Total(InRing) \in Nat /\ Total(Held) \in Nat /\ Total(Placing) \in Nat /\ Limit \in Nat
  BY CountTypes DEF WorkerInv, WorkerType, WorkType, WorkRec, WorkerBounds
<1>4. queued = Waiting + Counting + work.n /\ Waiting <= Limit /\ queued \in Nat
  BY <1>1, <1>2, <1>3 DEF WorkerInv, CountInv
<1>5. (work.pc = "park" /\ ~token /\ \E p \in Producers : rings[p] # <<>>) => \E p \in Producers : prod[p].pc \in {"look", "unpark"}
  BY DEF WorkerInv, WakeInv, Called
<1>6. WorkerTypeOK
  BY <1>4 DEF WorkerTypeOK, WorkerInv, WorkerType, RingType, WorkType, WorkRec, WorkPcs
<1> QED BY <1>4, <1>5, <1>6 DEF NoLostWake

\* For every number of producers, ring capacity and limit, a worker that parks with
\* something in a ring has been or will be woken, and the shared counter is exact and
\* keeps the rings within the limit (push and worker_loop, fwd/rt.rs).
THEOREM WorkerNeverStalls == ASSUME WorkerBounds PROVE Spec => [](NoLostWake /\ WorkerTypeOK)
<1>1. Init => WorkerInv
  BY WakeInit, CountInit DEF WorkerInv
<1>2. WorkerInv /\ [Next]_vars => WorkerInv'
  <2>1. ASSUME WorkerInv, Next PROVE WorkerInv'
    <3>1. WorkerType'
      BY <2>1, ProdNext, RingNext, WorkNext DEF WorkerInv, WorkerType
    <3>2. WakeInv' /\ CountInv'
      BY <2>1, <3>1, WakeNext, CountNext DEF WorkerInv
    <3> QED BY <3>1, <3>2 DEF WorkerInv
  <2>2. ASSUME WorkerInv, UNCHANGED vars PROVE WorkerInv'
    BY <2>2 DEF vars, WorkerInv, WorkerType, RingType, ProdType, WorkType, WakeInv, Called, CountInv, InRing, Held, Placing, Total
  <2> QED BY <2>1, <2>2
<1>3. WorkerInv => NoLostWake /\ WorkerTypeOK
  BY WorkerImplies
<1> QED BY <1>1, <1>2, <1>3, PTL DEF Spec
=============================================================================
