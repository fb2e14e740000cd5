----------------------------- MODULE SumLemmas -----------------------------
(***************************************************************************)
(* What the conservation proofs need to know of SumFunction: how a sum over *)
(* a finite set changes when one summand changes, comes or goes.  Induction *)
(* over finite sets is done by hand: a set of counterexamples would have a  *)
(* minimal element.  And that a product of naturals grows with its factors. *)
(***************************************************************************)
EXTENDS Integers, Functions, FiniteSetTheorems, TLAPS

\* Among the subsets of a finite set that are in T one is minimal.
LEMMA MinimalSubset ==
    ASSUME NEW S, IsFiniteSet(S), NEW T, T \subseteq SUBSET S, T # {}
    PROVE  \E x \in T : \A y \in T : y \subseteq x => y = x
<1>1. FiniteSubsetsOf(S) = SUBSET S
  BY FS_FiniteSubsetsOfFinite, Zenon
<1>2. IsWellFoundedOn(StrictSubsetOrdering(S), SUBSET S)
  BY <1>1, FS_StrictSubsetOrderingWellFounded, Zenon
<1>3. PICK x \in T : \A y \in T : ~ (<<y, x>> \in StrictSubsetOrdering(S))
  BY <1>2, WFMin, Zenon
<1> QED BY <1>3, Zenon DEF StrictSubsetOrdering

\* The element the fold takes out of a set.
Pick(s) == CHOOSE x \in s : TRUE

\* g adds up f over every subset of S, as the fold does.
IsSum(g, f, S) ==
    g = [s \in SUBSET S |-> IF s = {} THEN 0 ELSE f[Pick(s)] + g[s \ {Pick(s)}]]

\* The fold, in these terms.
LEMMA SumUnfolded ==
    ASSUME NEW f, NEW S
    PROVE  SumFunctionOnSet(f, S) = (CHOOSE g : IsSum(g, f, S))[S]
BY Zenon DEF SumFunctionOnSet, FoldFunctionOnSet, MapThenFoldSet, IsSum, Pick

\* A set that is not empty contains what is taken out of it.
LEMMA PickIn ==
    ASSUME NEW s, s # {}
    PROVE  Pick(s) \in s
BY Zenon DEF Pick

\* The sums over a set do not depend on the set they are seen as a subset of.
LEMMA SumUnique ==
    ASSUME NEW f, NEW S, IsFiniteSet(S), NEW T, NEW g, NEW h,
           IsSum(g, f, S), IsSum(h, f, T), NEW u, u \subseteq S, u \subseteq T
    PROVE  g[u] = h[u]
<1> DEFINE Bad == {v \in SUBSET u : g[v] # h[v]}
<1> SUFFICES ASSUME Bad # {} PROVE FALSE
  BY Zenon
<1>1. IsFiniteSet(u)
  BY FS_Subset, Zenon
<1>2. PICK v \in Bad : \A w \in Bad : w \subseteq v => w = v
  <2>1. Bad \subseteq SUBSET u
    BY Zenon
  <2> HIDE DEF Bad
  <2> QED BY <1>1, <2>1, MinimalSubset
<1>3. v \in SUBSET S /\ v \in SUBSET T
  BY Zenon
<1>4. /\ g[v] = IF v = {} THEN 0 ELSE f[Pick(v)] + g[v \ {Pick(v)}]
      /\ h[v] = IF v = {} THEN 0 ELSE f[Pick(v)] + h[v \ {Pick(v)}]
  BY <1>3, Zenon DEF IsSum
<1>5. v # {}
  BY <1>4, Zenon
<1>6. g[v \ {Pick(v)}] = h[v \ {Pick(v)}]
  BY <1>2, <1>5, PickIn
<1> QED BY <1>4, <1>6, Zenon

\* There is such a function for every finite set.
LEMMA SumExists ==
    ASSUME NEW f, NEW S, IsFiniteSet(S)
    PROVE  \E g : IsSum(g, f, S)
<1> DEFINE Bad == {T \in SUBSET S : ~ \E g : IsSum(g, f, T)}
           Sum(u) == (CHOOSE g : IsSum(g, f, u))[u]
<1> SUFFICES ASSUME Bad # {} PROVE FALSE
  BY Zenon
<1>1. PICK T \in Bad : \A U \in Bad : U \subseteq T => U = T
  <2>1. Bad \subseteq SUBSET S
    BY Zenon
  <2> HIDE DEF Bad
  <2> QED BY <2>1, MinimalSubset
<1>2. ASSUME NEW u \in SUBSET T, u # T
      PROVE  IsSum(CHOOSE g : IsSum(g, f, u), f, u)
  <2>1. \E g : IsSum(g, f, u)
    BY <1>1, <1>2, Zenon
  <2> QED BY <2>1, Zenon
<1>3. ASSUME NEW u \in SUBSET T, u # T
      PROVE  Sum(u) = IF u = {} THEN 0 ELSE f[Pick(u)] + Sum(u \ {Pick(u)})
  <2> DEFINE g == CHOOSE k : IsSum(k, f, u)
             v == u \ {Pick(u)}
             h == CHOOSE k : IsSum(k, f, v)
  <2>1. IsSum(g, f, u) /\ IsFiniteSet(u)
    BY <1>2, <1>3, FS_Subset, Zenon
  <2>2. Sum(u) = IF u = {} THEN 0 ELSE f[Pick(u)] + g[v]
    <3>1. u \in SUBSET u
      BY Zenon
    <3> HIDE DEF g
    <3>2. g[u] = IF u = {} THEN 0 ELSE f[Pick(u)] + g[v]
      BY <2>1, <3>1, Zenon DEF IsSum
    <3> QED BY <3>2, Zenon DEF g
  <2>3. CASE u = {}
    BY <2>2, <2>3, Zenon
  <2>4. CASE u # {}
    <3>1. v \in SUBSET T /\ v # T
      BY <1>3, <2>4, PickIn, Zenon
    <3>2. IsSum(h, f, v)
      BY <1>2, <3>1, Zenon
    <3>3. g[v] = h[v]
      <4> HIDE DEF g, h
      <4> QED BY <2>1, <3>2, SumUnique
    <3> QED BY <2>2, <2>4, <3>3
  <2> QED BY <2>3, <2>4, Zenon
<1> DEFINE k == [s \in SUBSET T |-> IF s = {} THEN 0 ELSE f[Pick(s)] + Sum(s \ {Pick(s)})]
<1>4. ASSUME NEW s \in SUBSET T, s # {}
      PROVE  k[s \ {Pick(s)}] = Sum(s \ {Pick(s)})
  <2> DEFINE v == s \ {Pick(s)}
  <2>1. v \in SUBSET T /\ v # T
    BY <1>4, PickIn, Zenon
  <2>2. k[v] = IF v = {} THEN 0 ELSE f[Pick(v)] + Sum(v \ {Pick(v)})
    <3> HIDE DEF v, Sum
    <3> QED BY <2>1, Zenon
  <2> HIDE DEF k, Sum, v
  <2> QED BY <1>3, <2>1, <2>2, Zenon DEF v
<1>5. IsSum(k, f, T)
  <2> HIDE DEF Sum
  <2>1. k = [s \in SUBSET T |-> IF s = {} THEN 0 ELSE f[Pick(s)] + k[s \ {Pick(s)}]]
    BY <1>4, Zenon
  <2> HIDE DEF k
  <2> QED BY <2>1, Zenon DEF IsSum
<1> QED BY <1>1, <1>5, Zenon

\* The sum over a finite set, one element at a time.
LEMMA SumStep ==
    ASSUME NEW f, NEW S, IsFiniteSet(S)
    PROVE  SumFunctionOnSet(f, S) =
             IF S = {} THEN 0
             ELSE f[Pick(S)] + SumFunctionOnSet(f, S \ {Pick(S)})
<1> DEFINE g == CHOOSE k : IsSum(k, f, S)
           v == S \ {Pick(S)}
           h == CHOOSE k : IsSum(k, f, v)
<1>1. IsSum(g, f, S)
  BY SumExists, Zenon
<1>2. IsFiniteSet(v) /\ v \in SUBSET S
  BY FS_Subset, Zenon
<1>3. IsSum(h, f, v)
  BY <1>2, SumExists, Zenon
<1> HIDE DEF g, h, v
<1>4. g[S] = IF S = {} THEN 0 ELSE f[Pick(S)] + g[v]
  BY <1>1, Zenon DEF IsSum, v
<1>5. g[v] = h[v]
  BY <1>1, <1>2, <1>3, SumUnique
<1>6. SumFunctionOnSet(f, S) = g[S] /\ SumFunctionOnSet(f, v) = h[v]
  BY SumUnfolded, Zenon DEF g, h
<1> QED BY <1>4, <1>5, <1>6, Zenon DEF v

\* The empty sum.
LEMMA SumEmpty ==
    ASSUME NEW f
    PROVE  SumFunctionOnSet(f, {}) = 0
BY SumStep, FS_EmptySet, Zenon

\* A sum of integers is an integer.
LEMMA SumInt ==
    ASSUME NEW f, NEW S, IsFiniteSet(S), \A x \in S : f[x] \in Int
    PROVE  SumFunctionOnSet(f, S) \in Int
<1> DEFINE Bad == {T \in SUBSET S : SumFunctionOnSet(f, T) \notin Int}
<1> SUFFICES ASSUME Bad # {} PROVE FALSE
  BY Zenon
<1>1. PICK T \in Bad : \A U \in Bad : U \subseteq T => U = T
  <2>1. Bad \subseteq SUBSET S
    BY Zenon
  <2> HIDE DEF Bad
  <2> QED BY <2>1, MinimalSubset
<1>2. T \in SUBSET S /\ IsFiniteSet(T)
  BY FS_Subset, Zenon
<1>3. T # {}
  BY SumEmpty
<1>4. SumFunctionOnSet(f, T) = f[Pick(T)] + SumFunctionOnSet(f, T \ {Pick(T)})
  BY <1>2, <1>3, SumStep, Zenon
<1>5. Pick(T) \in T
  BY <1>3, PickIn, Zenon
<1>6. SumFunctionOnSet(f, T \ {Pick(T)}) \in Int
  BY <1>1, <1>2, <1>5
<1> QED BY <1>2, <1>4, <1>5, <1>6

\* Any element may be taken out first.
LEMMA SumRemove ==
    ASSUME NEW f, NEW S, IsFiniteSet(S), \A x \in S : f[x] \in Int, NEW x \in S
    PROVE  SumFunctionOnSet(f, S) = f[x] + SumFunctionOnSet(f, S \ {x})
<1> DEFINE Bad == {T \in SUBSET S : \E y \in T :
                     SumFunctionOnSet(f, T) # f[y] + SumFunctionOnSet(f, T \ {y})}
<1> SUFFICES ASSUME Bad # {} PROVE FALSE
  BY Zenon
<1>1. PICK T \in Bad : \A U \in Bad : U \subseteq T => U = T
  <2>1. Bad \subseteq SUBSET S
    BY Zenon
  <2> HIDE DEF Bad
  <2> QED BY <2>1, MinimalSubset
<1>2. PICK y \in T : SumFunctionOnSet(f, T) # f[y] + SumFunctionOnSet(f, T \ {y})
  BY Zenon
<1>3. T \in SUBSET S /\ IsFiniteSet(T)
  BY FS_Subset, Zenon
<1> DEFINE z == Pick(T)
           Sum(U) == SumFunctionOnSet(f, U)
<1>4. z \in T
  BY PickIn, Zenon
<1>5. Sum(T) = f[z] + Sum(T \ {z})
  BY <1>3, SumStep, Zenon
<1>6. z # y
  BY <1>2, <1>5, Zenon
<1>7. \A U \in SUBSET S : U \subseteq T /\ U # T =>
         \A v \in U : Sum(U) = f[v] + Sum(U \ {v})
  BY <1>1, Zenon
<1>8. Sum(T \ {z}) = f[y] + Sum((T \ {z}) \ {y})
  BY <1>3, <1>4, <1>6, <1>7, Zenon
<1>9. Sum(T \ {y}) = f[z] + Sum((T \ {y}) \ {z})
  BY <1>3, <1>4, <1>6, <1>7, Zenon
<1>10. (T \ {z}) \ {y} = (T \ {y}) \ {z}
  BY Zenon
<1>11. Sum((T \ {z}) \ {y}) \in Int
  <2>1. (T \ {z}) \ {y} \in SUBSET S
    BY <1>3, Zenon
  <2>2. IsFiniteSet((T \ {z}) \ {y}) /\ \A v \in (T \ {z}) \ {y} : f[v] \in Int
    BY <2>1, FS_Subset, Zenon
  <2> QED BY <2>2, SumInt, Zenon
<1>12. f[y] \in Int /\ f[z] \in Int
  BY <1>3, <1>4, Zenon
<1> HIDE DEF Sum, z
<1>13. Sum(T) = f[y] + Sum(T \ {y})
  <2> DEFINE rest == Sum((T \ {z}) \ {y})
  <2>1. Sum(T \ {y}) = f[z] + rest
    BY <1>9, <1>10, Zenon
  <2>2. Sum(T) = f[z] + (f[y] + rest)
    BY <1>5, <1>8, Zenon
  <2> HIDE DEF rest
  <2> QED BY <1>11, <1>12, <2>1, <2>2 DEF rest
<1> QED BY <1>2, <1>13, Zenon DEF Sum

\* Only the summands matter.
LEMMA SumSame ==
    ASSUME NEW f, NEW g, NEW S, IsFiniteSet(S), \A x \in S : f[x] = g[x]
    PROVE  SumFunctionOnSet(f, S) = SumFunctionOnSet(g, S)
<1> DEFINE Bad == {T \in SUBSET S : SumFunctionOnSet(f, T) # SumFunctionOnSet(g, T)}
<1> SUFFICES ASSUME Bad # {} PROVE FALSE
  BY Zenon
<1>1. PICK T \in Bad : \A U \in Bad : U \subseteq T => U = T
  <2>1. Bad \subseteq SUBSET S
    BY Zenon
  <2> HIDE DEF Bad
  <2> QED BY <2>1, MinimalSubset
<1>2. T \in SUBSET S /\ IsFiniteSet(T)
  BY FS_Subset, Zenon
<1>3. T # {}
  BY SumEmpty, Zenon
<1>4. Pick(T) \in T
  BY <1>3, PickIn, Zenon
<1>5. SumFunctionOnSet(f, T \ {Pick(T)}) = SumFunctionOnSet(g, T \ {Pick(T)})
  BY <1>1, <1>2, <1>4
<1> QED BY <1>2, <1>3, <1>4, <1>5, SumStep
-----------------------------------------------------------------------------
(* The facts that are used. *)

\* A sum of integers is an integer.
LEMMA SumFunctionInt ==
    ASSUME NEW f, IsFiniteSet(DOMAIN f), \A x \in DOMAIN f : f[x] \in Int
    PROVE  SumFunction(f) \in Int
BY SumInt, Zenon DEF SumFunction

\* One summand changes.
LEMMA SumUpdate ==
    ASSUME NEW f, NEW g, IsFiniteSet(DOMAIN f), DOMAIN g = DOMAIN f,
           NEW x \in DOMAIN f, \A y \in DOMAIN f : f[y] \in Int, g[x] \in Int,
           \A y \in DOMAIN f \ {x} : g[y] = f[y]
    PROVE  SumFunction(g) = SumFunction(f) - f[x] + g[x]
<1> DEFINE S == DOMAIN f
           T == S \ {x}
<1>1. IsFiniteSet(T)
  BY FS_Subset, Zenon
<1>2. SumFunctionOnSet(f, S) = f[x] + SumFunctionOnSet(f, T)
  BY SumRemove
<1>3. SumFunctionOnSet(g, S) = g[x] + SumFunctionOnSet(g, T)
  BY SumRemove
<1>4. SumFunctionOnSet(f, T) = SumFunctionOnSet(g, T)
  BY <1>1, SumSame
<1>5. SumFunctionOnSet(f, T) \in Int
  BY <1>1, SumInt, Zenon
<1> QED BY <1>2, <1>3, <1>4, <1>5 DEF SumFunction

\* One summand comes.
LEMMA SumAdd ==
    ASSUME NEW f, NEW g, IsFiniteSet(DOMAIN f), NEW x, x \notin DOMAIN f,
           DOMAIN g = DOMAIN f \cup {x}, \A y \in DOMAIN f : f[y] \in Int, g[x] \in Int,
           \A y \in DOMAIN f : g[y] = f[y]
    PROVE  SumFunction(g) = SumFunction(f) + g[x]
<1> DEFINE S == DOMAIN f
           T == DOMAIN g
<1>1. IsFiniteSet(T) /\ T \ {x} = S /\ x \in T /\ \A y \in T : g[y] \in Int
  BY FS_AddElement, Zenon
<1>2. SumFunctionOnSet(g, T) = g[x] + SumFunctionOnSet(g, S)
  BY <1>1, SumRemove
<1>3. SumFunctionOnSet(f, S) = SumFunctionOnSet(g, S)
  BY SumSame
<1>4. SumFunctionOnSet(f, S) \in Int
  BY SumInt, Zenon
<1> QED BY <1>2, <1>3, <1>4 DEF SumFunction

\* Nothing is added up.
LEMMA SumNothing ==
    ASSUME NEW f, DOMAIN f = {}
    PROVE  SumFunction(f) = 0
BY SumEmpty, Zenon DEF SumFunction

\* Zeros add up to zero.
LEMMA SumZeros ==
    ASSUME NEW f, IsFiniteSet(DOMAIN f), \A x \in DOMAIN f : f[x] = 0
    PROVE  SumFunction(f) = 0
<1> DEFINE S == DOMAIN f
           Bad == {T \in SUBSET S : SumFunctionOnSet(f, T) # 0}
<1> SUFFICES ASSUME Bad # {} PROVE FALSE
  BY Zenon DEF SumFunction
<1>1. PICK T \in Bad : \A U \in Bad : U \subseteq T => U = T
  <2>1. Bad \subseteq SUBSET S
    BY Zenon
  <2> HIDE DEF Bad
  <2> QED BY <2>1, MinimalSubset
<1>2. T \in SUBSET S /\ IsFiniteSet(T)
  BY FS_Subset, Zenon
<1>3. T # {}
  BY SumEmpty, Zenon
<1>4. Pick(T) \in T
  BY <1>3, PickIn, Zenon
<1>5. SumFunctionOnSet(f, T \ {Pick(T)}) = 0 /\ f[Pick(T)] = 0
  BY <1>1, <1>2, <1>4
<1> QED BY <1>2, <1>3, <1>5, SumStep

\* A balance that changes by d changes the total by d.
LEMMA SumMoves ==
    ASSUME NEW S, IsFiniteSet(S), NEW f \in [S -> Int], NEW g \in [S -> Int], NEW x \in S,
           NEW d \in Int, g[x] = f[x] + d, \A y \in S \ {x} : g[y] = f[y]
    PROVE  SumFunction(g) = SumFunction(f) + d
<1>1. /\ DOMAIN f = S /\ DOMAIN g = S /\ g[x] \in Int /\ f[x] \in Int
      /\ \A y \in S : f[y] \in Int
  BY Zenon
<1>2. SumFunction(g) = SumFunction(f) - f[x] + g[x]
  BY <1>1, SumUpdate, Zenon
<1>3. SumFunction(f) \in Int
  BY <1>1, SumFunctionInt, Zenon
<1> QED BY <1>1, <1>2, <1>3

\* Summands that are at most m add up to m for each of them at most.
LEMMA SumBounded ==
    ASSUME NEW f, NEW S, IsFiniteSet(S), NEW m \in Nat, \A x \in S : f[x] \in Int /\ f[x] <= m
    PROVE  SumFunctionOnSet(f, S) <= Cardinality(S) * m
<1> DEFINE Bad == {T \in SUBSET S : ~ (SumFunctionOnSet(f, T) <= Cardinality(T) * m)}
<1> SUFFICES ASSUME Bad # {} PROVE FALSE
  BY Zenon
<1>1. PICK T \in Bad : \A U \in Bad : U \subseteq T => U = T
  <2>1. Bad \subseteq SUBSET S
    BY Zenon
  <2> HIDE DEF Bad
  <2> QED BY <2>1, MinimalSubset
<1>2. T \in SUBSET S /\ IsFiniteSet(T)
  BY FS_Subset, Zenon
<1>3. T # {}
  <2>1. SumFunctionOnSet(f, {}) = 0 /\ Cardinality({}) = 0
    BY SumEmpty, FS_EmptySet, Zenon
  <2>2. 0 <= 0 * m
    OBVIOUS
  <2> QED BY <2>1, <2>2, Zenon
<1> DEFINE x == Pick(T)
           U == T \ {x}
<1>4. x \in T
  BY <1>3, PickIn, Zenon
<1>5. SumFunctionOnSet(f, T) = f[x] + SumFunctionOnSet(f, U)
  BY <1>2, <1>3, SumStep, Zenon
<1>6. /\ U \in SUBSET S /\ IsFiniteSet(U) /\ U \subseteq T /\ U # T
      /\ Cardinality(U) = Cardinality(T) - 1 /\ Cardinality(T) \in Nat
  BY <1>2, <1>4, FS_RemoveElement, FS_CardinalityType
<1>7. SumFunctionOnSet(f, U) <= Cardinality(U) * m
  BY <1>1, <1>6, Zenon
<1>8. SumFunctionOnSet(f, U) \in Int /\ f[x] \in Int /\ f[x] <= m
  <2>1. \A y \in U : f[y] \in Int
    BY <1>6, Zenon
  <2> QED BY <1>2, <1>4, <1>6, <2>1, SumInt, Zenon
<1> HIDE DEF x, U
<1>9. ~ (SumFunctionOnSet(f, T) <= Cardinality(T) * m)
  BY Zenon
<1>10. PICK n, s, v : n = Cardinality(T) /\ s = SumFunctionOnSet(f, U) /\ v = f[x]
  BY Zenon
<1>11. n \in Nat /\ s \in Int /\ v \in Int /\ v <= m /\ s <= (n - 1) * m
  BY <1>6, <1>7, <1>8, <1>10
<1>12. v + s <= n * m
  <2>1. (n - 1) * m = n * m - m /\ n * m \in Int
    BY <1>11
  <2> QED BY <1>11, <2>1
<1> QED BY <1>5, <1>9, <1>10, <1>12

\* Naturals add up to a natural.
LEMMA SumNat ==
    ASSUME NEW f, IsFiniteSet(DOMAIN f), \A x \in DOMAIN f : f[x] \in Int /\ f[x] >= 0
    PROVE  SumFunction(f) \in Int /\ SumFunction(f) >= 0
<1> DEFINE S == DOMAIN f
           Bad == {T \in SUBSET S : ~ (SumFunctionOnSet(f, T) >= 0)}
<1>0. SumFunction(f) \in Int
  BY SumFunctionInt, Zenon
<1> SUFFICES ASSUME Bad # {} PROVE FALSE
  BY <1>0, Zenon DEF SumFunction
<1>1. PICK T \in Bad : \A U \in Bad : U \subseteq T => U = T
  <2>1. Bad \subseteq SUBSET S
    BY Zenon
  <2> HIDE DEF Bad
  <2> QED BY <2>1, MinimalSubset
<1>2. T \in SUBSET S /\ IsFiniteSet(T)
  BY FS_Subset, Zenon
<1>3. T # {}
  BY SumEmpty
<1>4. Pick(T) \in T
  BY <1>3, PickIn, Zenon
<1> DEFINE U == T \ {Pick(T)}
<1>5. U \in SUBSET S /\ IsFiniteSet(U) /\ U \subseteq T /\ U # T /\ \A y \in U : f[y] \in Int
  BY <1>2, <1>4, FS_Subset, Zenon
<1>6. SumFunctionOnSet(f, U) >= 0 /\ SumFunctionOnSet(f, U) \in Int
  BY <1>1, <1>5, SumInt, Zenon
<1>7. SumFunctionOnSet(f, T) = f[Pick(T)] + SumFunctionOnSet(f, U)
  BY <1>2, <1>3, SumStep, Zenon
<1>8. f[Pick(T)] \in Int /\ f[Pick(T)] >= 0
  BY <1>2, <1>4, Zenon
<1> HIDE DEF U
<1>9. SumFunctionOnSet(f, T) >= 0
  BY <1>6, <1>7, <1>8
<1> QED BY <1>9, Zenon

\* All summands but one are at most m.
LEMMA SumOfOthers ==
    ASSUME NEW f, IsFiniteSet(DOMAIN f), NEW m \in Nat, NEW x \in DOMAIN f, f[x] = 0,
           \A y \in DOMAIN f : f[y] \in Int /\ f[y] <= m
    PROVE  SumFunction(f) <= (Cardinality(DOMAIN f) - 1) * m
<1> DEFINE S == DOMAIN f
           T == S \ {x}
<1>1. /\ IsFiniteSet(T) /\ Cardinality(T) = Cardinality(S) - 1
      /\ \A y \in T : f[y] \in Int /\ f[y] <= m
  BY FS_RemoveElement, FS_CardinalityType
<1>2. SumFunctionOnSet(f, S) = f[x] + SumFunctionOnSet(f, T)
  BY SumRemove
<1>3. SumFunctionOnSet(f, T) <= Cardinality(T) * m
  BY <1>1, SumBounded, Zenon
<1>4. SumFunctionOnSet(f, T) \in Int
  BY <1>1, SumInt, Zenon
<1> QED BY <1>1, <1>2, <1>3, <1>4 DEF SumFunction

\* A product of two naturals is a natural and grows with each factor.
LEMMA ProductGrows ==
    ASSUME NEW r \in Nat, NEW a \in Nat, r <= a, NEW d \in Nat, NEW p \in Nat, d <= p
    PROVE  r * d \in Nat /\ r * d <= a * p
<1>1. r * d \in Nat /\ a * d \in Nat /\ a * p \in Nat
  OBVIOUS
<1>2. (a - r) * d \in Nat /\ a * (p - d) \in Nat
  <2>1. a - r \in Nat /\ p - d \in Nat
    OBVIOUS
  <2>2. \A x, y \in Nat : x * y \in Nat
    OBVIOUS
  <2> QED BY <2>1, <2>2, Zenon
<1>3. a * d = r * d + (a - r) * d
  OBVIOUS
<1>4. a * p = a * d + a * (p - d)
  OBVIOUS
<1> QED BY <1>1, <1>2, <1>3, <1>4
=============================================================================
