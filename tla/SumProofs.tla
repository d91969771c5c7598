------------------------------- MODULE SumProofs -------------------------------
(***************************************************************************)
(* Sums over finite sets: SumFunction of the community modules, which adds *)
(* in an order of its own choice, and what may be said of it in any order. *)
(***************************************************************************)
EXTENDS Integers, FiniteSets, Functions, FiniteSetTheorems, InductionProofs

Some(s) == CHOOSE x \in s : TRUE

\* g adds up f over the subsets of S.
Adds(f, S, g) == g = [s \in SUBSET S |-> IF s = {} THEN 0 ELSE f[Some(s)] + g[s \ {Some(s)}]]

\* The definition of the community modules.
LEMMA SumUnfolded ==
  ASSUME NEW f, NEW S
  PROVE  SumFunctionOnSet(f, S) = (CHOOSE g : Adds(f, S, g))[S]
  BY Zenon DEF SumFunctionOnSet, FoldFunctionOnSet, MapThenFoldSet, Adds, Some

\* An element taken from a set that is not empty.
LEMMA SomeTaken ==
  ASSUME NEW S, IsFiniteSet(S), NEW s \in SUBSET S, s # {}
  PROVE  /\ Some(s) \in s /\ Some(s) \in S /\ s \ {Some(s)} \in SUBSET S
         /\ Cardinality(s \ {Some(s)}) \in Nat
         /\ Cardinality(s) = Cardinality(s \ {Some(s)}) + 1
  <1>1. Some(s) \in s
    BY DEF Some
  <1>2. IsFiniteSet(s)
    BY FS_Subset
  <1>3. PICK x \in s : x = Some(s)
    BY <1>1
  <1>4. IsFiniteSet(s \ {x}) /\ Cardinality(s \ {x}) = Cardinality(s) - 1
    BY <1>2, FS_RemoveElement
  <1>5. Cardinality(s) \in Nat /\ Cardinality(s \ {x}) \in Nat
    BY <1>2, <1>4, FS_CardinalityType
  <1> QED
    BY <1>1, <1>3, <1>4, <1>5

\* There is a function that adds up, for a finite set.
LEMMA SomeAdds ==
  ASSUME NEW S, IsFiniteSet(S), NEW f, \A x \in S : f[x] \in Int
  PROVE  \E g \in [SUBSET S -> Int] : Adds(f, S, g)
  <1>1. PICK V : V = [SUBSET S -> Int]
    OBVIOUS
  <1>2. PICK v0 : v0 = [s \in SUBSET S |-> 0]
    OBVIOUS
  <1>3. v0 \in V
    BY <1>1, <1>2
  <1> DEFINE More(g) == [s \in SUBSET S |->
                           IF s = {} THEN 0 ELSE f[Some(s)] + g[s \ {Some(s)}]]
  <1>4. ASSUME NEW g \in V PROVE More(g) \in V
    <2>1. ASSUME NEW s \in SUBSET S
          PROVE  (IF s = {} THEN 0 ELSE f[Some(s)] + g[s \ {Some(s)}]) \in Int
      <3>1. CASE s = {}
        BY <3>1
      <3>2. CASE s # {}
        BY <1>1, <3>2, SomeTaken
      <3> QED
        BY <3>1, <3>2
    <2> QED
      BY <1>1, <2>1
  <1> HIDE DEF More
  <1>5. PICK step : step = [p \in V \X Nat |-> More(p[1])]
    OBVIOUS
  <1>6. step \in [V \X Nat -> V]
    BY <1>4, <1>5
  <1>7. PICK k \in Nat : k = Cardinality(S)
    BY FS_CardinalityType
  <1>8. PICK h : Begins(h, V, v0, step, k + 1)
    <2>1. k + 1 \in Nat
      OBVIOUS
    <2> QED
      BY <1>3, <1>6, <2>1, Recursion, Zenon
  <1>9. ASSUME NEW n \in 0 .. k PROVE h[n] \in V /\ h[n + 1] \in V /\ h[n + 1] = More(h[n])
    <2>1. h[n] \in V /\ h[n + 1] \in V /\ h[n + 1] = step[<<h[n], n>>]
      BY <1>8 DEF Begins
    <2> QED
      BY <1>5, <2>1
  <1>10. PICK P : P = {n \in Nat : n <= k =>
                        \A s \in SUBSET S : Cardinality(s) <= n => h[n + 1][s] = h[n][s]}
    OBVIOUS
  <1>11. ASSUME NEW n \in 0 .. k PROVE h[n + 1][{}] = 0
    BY <1>9 DEF More
  <1>12. ASSUME NEW n \in 0 .. k, NEW s \in SUBSET S, s # {}
         PROVE  h[n + 1][s] = f[Some(s)] + h[n][s \ {Some(s)}]
    BY <1>9, <1>12 DEF More
  <1>13. 0 \in P
    <2>1. ASSUME NEW s \in SUBSET S, Cardinality(s) <= 0 PROVE h[1][s] = h[0][s]
      <3>1. s = {}
        <4>1. IsFiniteSet(s) /\ Cardinality(s) \in Nat
          BY FS_Subset, FS_CardinalityType
        <4>2. Cardinality(s) = 0
          BY <2>1, <4>1
        <4> QED
          BY <4>1, <4>2, FS_EmptySet
      <3>2. h[0] = v0
        BY <1>8 DEF Begins
      <3>3. h[0 + 1][{}] = 0
        BY <1>11
      <3> QED
        BY <1>2, <3>1, <3>2, <3>3
    <2> QED
      BY <1>10, <2>1
  <1>14. ASSUME NEW n \in Nat, n \in P PROVE n + 1 \in P
    <2> SUFFICES ASSUME n + 1 <= k, NEW s \in SUBSET S, Cardinality(s) <= n + 1
                 PROVE  h[(n + 1) + 1][s] = h[n + 1][s]
      BY <1>10
    <2>1. n \in 0 .. k /\ n + 1 \in 0 .. k
      OBVIOUS
    <2>2. CASE s = {}
      BY <1>11, <2>1, <2>2
    <2>3. CASE s # {}
      <3>1. PICK r \in SUBSET S : r = s \ {Some(s)}
        BY <2>3, SomeTaken
      <3>2. Cardinality(r) \in Nat /\ Cardinality(s) = Cardinality(r) + 1
        BY <2>3, <3>1, SomeTaken
      <3>3. h[n + 1][r] = h[n][r]
        BY <1>10, <1>14, <2>1, <3>2
      <3>4. h[(n + 1) + 1][s] = f[Some(s)] + h[n + 1][r]
        BY <1>12, <2>1, <2>3, <3>1, Zenon
      <3>5. h[n + 1][s] = f[Some(s)] + h[n][r]
        BY <1>12, <2>1, <2>3, <3>1, Zenon
      <3> QED
        BY <3>3, <3>4, <3>5, Zenon
    <2> QED
      BY <2>2, <2>3
  <1>15. k \in P
    BY <1>13, <1>14, SetInduction
  <1>16. k \in 0 .. k /\ h[k] \in V /\ h[k + 1] \in V /\ h[k + 1] = More(h[k])
    BY <1>9
  <1>17. ASSUME NEW s \in SUBSET S PROVE h[k + 1][s] = h[k][s]
    BY <1>7, <1>10, <1>15, FS_Subset
  <1>18. h[k + 1] = h[k]
    BY <1>1, <1>16, <1>17
  <1>19. h[k] = More(h[k])
    BY <1>16, <1>18
  <1> QED
    BY <1>1, <1>16, <1>19 DEF Adds, More

--------------------------------------------------------------------------------

\* Two functions that add up f agree where both are defined.
LEMMA AddsAgree ==
  ASSUME NEW S, IsFiniteSet(S), NEW T \in SUBSET S, NEW f, \A x \in S : f[x] \in Int,
         NEW g, Adds(f, S, g), NEW h, Adds(f, T, h), NEW s \in SUBSET T
  PROVE  g[s] = h[s]
  <1>1. PICK P : P = {n \in Nat : \A r \in SUBSET T : Cardinality(r) = n => g[r] = h[r]}
    OBVIOUS
  <1>2. IsFiniteSet(T) /\ \A r \in SUBSET T : IsFiniteSet(r) /\ Cardinality(r) \in Nat
    BY FS_Subset, FS_CardinalityType
  <1>3. g[{}] = 0 /\ h[{}] = 0
    BY DEF Adds
  <1>4. ASSUME NEW r \in SUBSET T, r # {}
        PROVE  /\ g[r] = f[Some(r)] + g[r \ {Some(r)}]
               /\ h[r] = f[Some(r)] + h[r \ {Some(r)}]
    <2>1. r \in SUBSET S
      OBVIOUS
    <2> QED
      BY <1>4, <2>1 DEF Adds
  <1>5. 0 \in P
    BY <1>1, <1>2, <1>3, FS_EmptySet
  <1>6. ASSUME NEW n \in Nat, n \in P PROVE n + 1 \in P
    <2> SUFFICES ASSUME NEW r \in SUBSET T, Cardinality(r) = n + 1 PROVE g[r] = h[r]
      BY <1>1
    <2>1. CASE r = {}
      BY <1>3, <2>1
    <2>2. CASE r # {}
      <3>1. PICK t \in SUBSET T : t = r \ {Some(r)}
        BY <1>2, <2>2, SomeTaken
      <3>2. Cardinality(t) \in Nat /\ Cardinality(r) = Cardinality(t) + 1
        BY <1>2, <2>2, <3>1, SomeTaken
      <3>3. g[t] = h[t]
        BY <1>1, <1>6, <3>2
      <3> QED
        BY <1>4, <2>2, <3>1, <3>3, Zenon
    <2> QED
      BY <2>1, <2>2
  <1>7. Cardinality(s) \in P
    BY <1>2, <1>5, <1>6, SetInduction
  <1> QED
    BY <1>1, <1>7

Sums(f, S, g) == /\ g \in [SUBSET S -> Int] /\ Adds(f, S, g)
                 /\ \A T \in SUBSET S : SumFunctionOnSet(f, T) = g[T]

\* The sum over any part of S is what a function that adds up over S says.
LEMMA SumAdds ==
  ASSUME NEW S, IsFiniteSet(S), NEW f, \A x \in S : f[x] \in Int
  PROVE  \E g : Sums(f, S, g)
  <1>1. PICK g \in [SUBSET S -> Int] : Adds(f, S, g)
    BY SomeAdds
  <1>2. ASSUME NEW T \in SUBSET S PROVE SumFunctionOnSet(f, T) = g[T]
    <2>1. IsFiniteSet(T) /\ \A x \in T : f[x] \in Int
      BY FS_Subset
    <2>2. PICK h : h = CHOOSE e : Adds(f, T, e)
      OBVIOUS
    <2>3. \E e : Adds(f, T, e)
      BY <2>1, SomeAdds
    <2>4. Adds(f, T, h)
      BY <2>2, <2>3, Zenon
    <2>5. T \in SUBSET T /\ SumFunctionOnSet(f, T) = h[T]
      BY <2>2, SumUnfolded, Zenon
    <2>6. g[T] = h[T]
      BY <1>1, <2>4, <2>5, AddsAgree
    <2> QED
      BY <2>5, <2>6
  <1> QED
    BY <1>1, <1>2 DEF Sums

\* A sum is a number, and nothing adds up to 0.
LEMMA SumTyped ==
  ASSUME NEW S, IsFiniteSet(S), NEW f, \A x \in S : f[x] \in Int
  PROVE  SumFunctionOnSet(f, S) \in Int /\ SumFunctionOnSet(f, {}) = 0
  <1>1. PICK g : Sums(f, S, g)
    BY SumAdds
  <1>1a. /\ g \in [SUBSET S -> Int] /\ Adds(f, S, g)
        /\ \A T \in SUBSET S : SumFunctionOnSet(f, T) = g[T]
    BY <1>1 DEF Sums
  <1>2. S \in SUBSET S /\ {} \in SUBSET S
    OBVIOUS
  <1>3. g[{}] = 0
    BY <1>1a, <1>2 DEF Adds
  <1> QED
    BY <1>1a, <1>2, <1>3

\* The element that is taken first.
LEMMA SumFirst ==
  ASSUME NEW S, IsFiniteSet(S), NEW f, \A x \in S : f[x] \in Int, S # {}
  PROVE  SumFunctionOnSet(f, S) = f[Some(S)] + SumFunctionOnSet(f, S \ {Some(S)})
  <1>1. PICK g : Sums(f, S, g)
    BY SumAdds
  <1>1a. /\ g \in [SUBSET S -> Int] /\ Adds(f, S, g)
        /\ \A T \in SUBSET S : SumFunctionOnSet(f, T) = g[T]
    BY <1>1 DEF Sums
  <1>2. S \in SUBSET S /\ S \ {Some(S)} \in SUBSET S
    OBVIOUS
  <1>3. g[S] = f[Some(S)] + g[S \ {Some(S)}]
    BY <1>1a, <1>2 DEF Adds
  <1> QED
    BY <1>1a, <1>2, <1>3

\* Any element may be taken first.
LEMMA SumTake ==
  ASSUME NEW S, IsFiniteSet(S), NEW f, \A x \in S : f[x] \in Int, NEW d \in S
  PROVE  SumFunctionOnSet(f, S) = f[d] + SumFunctionOnSet(f, S \ {d})
  <1>1. PICK g : Sums(f, S, g)
    BY SumAdds
  <1>1a. /\ g \in [SUBSET S -> Int] /\ Adds(f, S, g)
        /\ \A T \in SUBSET S : SumFunctionOnSet(f, T) = g[T]
    BY <1>1 DEF Sums
  <1>2. PICK P : P = {n \in Nat : \A r \in SUBSET S : Cardinality(r) = n =>
                                    \A e \in r : g[r] = f[e] + g[r \ {e}]}
    OBVIOUS
  <1>3. \A r \in SUBSET S : IsFiniteSet(r) /\ Cardinality(r) \in Nat
    BY FS_Subset, FS_CardinalityType
  <1>4. ASSUME NEW r \in SUBSET S, r # {} PROVE g[r] = f[Some(r)] + g[r \ {Some(r)}]
    BY <1>1a, <1>4 DEF Adds
  <1>5. 0 \in P
    BY <1>2, <1>3, FS_EmptySet
  <1>6. ASSUME NEW n \in Nat, n \in P PROVE n + 1 \in P
    <2> SUFFICES ASSUME NEW r \in SUBSET S, Cardinality(r) = n + 1, NEW e \in r
                 PROVE  g[r] = f[e] + g[r \ {e}]
      BY <1>2
    <2>1. PICK x \in r : x = Some(r)
      BY SomeTaken
    <2>2. g[r] = f[x] + g[r \ {x}]
      BY <1>4, <2>1
    <2>3. CASE e = x
      BY <2>2, <2>3
    <2>4. CASE e # x
      <3>1. PICK t \in SUBSET S : t = r \ {x}
        OBVIOUS
      <3>2. PICK u \in SUBSET S : u = r \ {e}
        OBVIOUS
      <3>3. PICK v \in SUBSET S : v = t \ {e}
        OBVIOUS
      <3>4. v = u \ {x} /\ e \in t /\ x \in u
        BY <2>4, <3>1, <3>2, <3>3
      <3>5. Cardinality(t) = n /\ Cardinality(u) = n
        <4>1. Cardinality(t) = Cardinality(r) - 1 /\ Cardinality(u) = Cardinality(r) - 1
          BY <1>3, <3>1, <3>2, FS_RemoveElement
        <4> QED
          BY <4>1
      <3>6. g[t] = f[e] + g[v]
        BY <1>2, <1>6, <3>3, <3>4, <3>5
      <3>7. g[u] = f[x] + g[v]
        BY <1>2, <1>6, <3>4, <3>5
      <3>8. PICK a \in Int, b \in Int, c \in Int : a = f[e] /\ b = f[x] /\ c = g[v]
        BY <1>1a
      <3>9. g[r] = b + (a + c) /\ g[u] = b + c
        BY <2>2, <3>1, <3>6, <3>7, <3>8
      <3> QED
        BY <3>2, <3>8, <3>9
    <2> QED
      BY <2>3, <2>4
  <1>7. Cardinality(S) \in P
    BY <1>3, <1>5, <1>6, SetInduction
  <1>8. g[S] = f[d] + g[S \ {d}]
    BY <1>2, <1>7
  <1> QED
    BY <1>1a, <1>8

\* What is added decides the sum.
LEMMA SumSame ==
  ASSUME NEW S, IsFiniteSet(S), NEW f, \A x \in S : f[x] \in Int,
         NEW g, \A x \in S : g[x] = f[x]
  PROVE  SumFunctionOnSet(g, S) = SumFunctionOnSet(f, S)
  <1>1. PICK h : Sums(f, S, h)
    BY SumAdds
  <1>1a. /\ h \in [SUBSET S -> Int] /\ Adds(f, S, h)
        /\ \A T \in SUBSET S : SumFunctionOnSet(f, T) = h[T]
    BY <1>1 DEF Sums
  <1>2. \A x \in S : g[x] \in Int
    OBVIOUS
  <1>3. PICK k : Sums(g, S, k)
    BY <1>2, SumAdds
  <1>3a. /\ k \in [SUBSET S -> Int] /\ Adds(g, S, k)
        /\ \A T \in SUBSET S : SumFunctionOnSet(g, T) = k[T]
    BY <1>3 DEF Sums
  <1>4. Adds(g, S, h)
    <2>1. ASSUME NEW s \in SUBSET S
          PROVE  h[s] = IF s = {} THEN 0 ELSE g[Some(s)] + h[s \ {Some(s)}]
      <3>1. h[s] = IF s = {} THEN 0 ELSE f[Some(s)] + h[s \ {Some(s)}]
        BY <1>1a DEF Adds
      <3>2. CASE s = {}
        BY <3>1, <3>2
      <3>3. CASE s # {}
        BY <3>1, <3>3, SomeTaken
      <3> QED
        BY <3>2, <3>3
    <2>2. h = [s \in SUBSET S |-> h[s]]
      BY <1>1a
    <2>3. h = [s \in SUBSET S |-> IF s = {} THEN 0 ELSE g[Some(s)] + h[s \ {Some(s)}]]
      BY <2>1, <2>2
    <2> QED
      BY <2>3 DEF Adds
  <1>5. S \in SUBSET S
    OBVIOUS
  <1>6. k[S] = h[S]
    BY <1>2, <1>3a, <1>4, <1>5, AddsAgree
  <1> QED
    BY <1>1a, <1>3a, <1>5, <1>6

--------------------------------------------------------------------------------
(* The same of all values of a function. *)

\* The sum of a function of numbers is a number; of nothing it is 0.
LEMMA SumIsInt ==
  ASSUME NEW D, IsFiniteSet(D), NEW F \in [D -> Int]
  PROVE  SumFunction(F) \in Int /\ (D = {} => SumFunction(F) = 0)
  <1>1. DOMAIN F = D /\ \A x \in D : F[x] \in Int
    OBVIOUS
  <1>2. SumFunctionOnSet(F, D) \in Int /\ SumFunctionOnSet(F, {}) = 0
    BY <1>1, SumTyped
  <1> QED
    BY <1>1, <1>2 DEF SumFunction

\* A function with one more value.
OneMore(D, F, d, G) ==
    /\ IsFiniteSet(D) /\ F \in [D -> Int] /\ d \notin D
    /\ G \in [D \cup {d} -> Int] /\ \A x \in D : G[x] = F[x]

\* One value more.
LEMMA SumGrows ==
  ASSUME NEW D, NEW F, NEW d, NEW G, OneMore(D, F, d, G)
  PROVE  SumFunction(G) = SumFunction(F) + G[d]
  <1> USE DEF OneMore
  <1>1. PICK E : E = D \cup {d}
    OBVIOUS
  <1>2. IsFiniteSet(E) /\ E \ {d} = D /\ d \in E
    BY <1>1, FS_AddElement
  <1>3. DOMAIN F = D /\ DOMAIN G = E /\ \A x \in E : G[x] \in Int
    BY <1>1
  <1>4. SumFunctionOnSet(G, E) = G[d] + SumFunctionOnSet(G, E \ {d})
    BY <1>2, <1>3, SumTake
  <1>5. SumFunctionOnSet(G, D) = SumFunctionOnSet(F, D)
    BY SumSame
  <1>6. SumFunctionOnSet(F, D) \in Int
    BY SumTyped
  <1>7. SumFunction(G) = SumFunctionOnSet(G, E) /\ SumFunction(F) = SumFunctionOnSet(F, D)
    BY <1>3 DEF SumFunction
  <1>8. SumFunction(G) = G[d] + SumFunction(F) /\ SumFunction(F) \in Int /\ G[d] \in Int
    BY <1>2, <1>3, <1>4, <1>5, <1>6, <1>7
  <1> QED
    BY <1>8

\* One value less.
LEMMA SumShrinks ==
  ASSUME NEW D, IsFiniteSet(D), NEW F \in [D -> Int], NEW d \in D,
         NEW G \in [D \ {d} -> Int], \A x \in D \ {d} : G[x] = F[x]
  PROVE  SumFunction(F) = SumFunction(G) + F[d]
  <1>1. PICK E : E = D \ {d}
    OBVIOUS
  <1>2. IsFiniteSet(E) /\ E \cup {d} = D /\ d \notin E
    BY <1>1, FS_RemoveElement
  <1>3. F \in [E \cup {d} -> Int] /\ G \in [E -> Int] /\ \A x \in E : F[x] = G[x]
    BY <1>1, <1>2
  <1>4. OneMore(E, G, d, F)
    BY <1>2, <1>3 DEF OneMore
  <1> QED
    BY <1>4, SumGrows

\* One value changed.
LEMMA SumChanges ==
  ASSUME NEW D, IsFiniteSet(D), NEW F \in [D -> Int], NEW G \in [D -> Int],
         NEW d \in D, \A x \in D \ {d} : G[x] = F[x]
  PROVE  SumFunction(G) = SumFunction(F) - F[d] + G[d]
  <1>1. PICK H : H = [x \in D \ {d} |-> F[x]]
    OBVIOUS
  <1>2. H \in [D \ {d} -> Int] /\ \A x \in D \ {d} : H[x] = F[x] /\ H[x] = G[x]
    BY <1>1
  <1>3. SumFunction(F) = SumFunction(H) + F[d] /\ SumFunction(G) = SumFunction(H) + G[d]
    BY <1>2, SumShrinks
  <1>4. IsFiniteSet(D \ {d})
    BY FS_RemoveElement
  <1>5. SumFunction(H) \in Int
    BY <1>2, <1>4, SumIsInt
  <1> QED
    BY <1>3, <1>5

\* The sum of natural numbers is one, and none of them is greater.
LEMMA SumIsNat ==
  ASSUME NEW D, IsFiniteSet(D), NEW F \in [D -> Nat]
  PROVE  SumFunction(F) \in Nat /\ \A d \in D : F[d] <= SumFunction(F)
  <1>1. PICK P : P = {n \in Nat : \A E \in SUBSET D : Cardinality(E) = n =>
                                    SumFunctionOnSet(F, E) \in Nat}
    OBVIOUS
  <1>2. \A E \in SUBSET D : IsFiniteSet(E) /\ Cardinality(E) \in Nat
    BY FS_Subset, FS_CardinalityType
  <1>3. 0 \in P
    <2>1. ASSUME NEW E \in SUBSET D, Cardinality(E) = 0
          PROVE  SumFunctionOnSet(F, E) \in Nat
      <3>1. E = {}
        BY <1>2, <2>1, FS_EmptySet
      <3>2. SumFunctionOnSet(F, {}) = 0
        BY SumTyped
      <3> QED
        BY <3>1, <3>2
    <2> QED
      BY <1>1, <2>1
  <1>4. ASSUME NEW n \in Nat, n \in P PROVE n + 1 \in P
    <2> SUFFICES ASSUME NEW E \in SUBSET D, Cardinality(E) = n + 1
                 PROVE  SumFunctionOnSet(F, E) \in Nat
      BY <1>1
    <2>1. E # {}
      BY <1>2, FS_EmptySet
    <2>2. PICK x \in E : TRUE
      BY <2>1
    <2>3. Cardinality(E \ {x}) = n
      <3>1. Cardinality(E \ {x}) = Cardinality(E) - 1
        BY <1>2, FS_RemoveElement
      <3> QED
        BY <3>1
    <2>4. SumFunctionOnSet(F, E \ {x}) \in Nat
      BY <1>1, <1>4, <2>3
    <2>5. IsFiniteSet(E) /\ \A y \in E : F[y] \in Int
      BY <1>2
    <2>6. SumFunctionOnSet(F, E) = F[x] + SumFunctionOnSet(F, E \ {x})
      BY <2>5, SumTake
    <2> QED
      BY <2>4, <2>6
  <1>5. ASSUME NEW E \in SUBSET D PROVE SumFunctionOnSet(F, E) \in Nat
    BY <1>1, <1>2, <1>3, <1>4, SetInduction
  <1>6. D \in SUBSET D /\ DOMAIN F = D
    OBVIOUS
  <1>7. ASSUME NEW d \in D PROVE F[d] <= SumFunctionOnSet(F, D)
    <2>1. SumFunctionOnSet(F, D) = F[d] + SumFunctionOnSet(F, D \ {d})
      BY SumTake
    <2>2. SumFunctionOnSet(F, D \ {d}) \in Nat
      BY <1>5
    <2> QED
      BY <2>1, <2>2
  <1> QED
    BY <1>5, <1>6, <1>7 DEF SumFunction

\* The sum of one value.
LEMMA SumSingle ==
  ASSUME NEW k, NEW F \in [{k} -> Int]
  PROVE  SumFunction(F) = F[k]
  <1>1. PICK D : D = {k}
    OBVIOUS
  <1>2. IsFiniteSet(D) /\ IsFiniteSet({})
    BY <1>1, FS_Singleton, FS_EmptySet
  <1>3. PICK G : G = [x \in D \ {k} |-> 0]
    OBVIOUS
  <1>4. /\ G \in [D \ {k} -> Int] /\ \A x \in D \ {k} : G[x] = F[x]
        /\ D \ {k} = {} /\ k \in D /\ F \in [D -> Int]
    BY <1>1, <1>3
  <1>5. SumFunction(F) = SumFunction(G) + F[k]
    <2>1. IsFiniteSet(D) /\ k \in D
      BY <1>2, <1>4
    <2> QED
      BY <1>4, <2>1, SumShrinks
  <1>6. SumFunction(G) = 0
    BY <1>2, <1>4, SumIsInt
  <1> QED
    BY <1>5, <1>6

\* A function that is v on a part of its domain and 0 elsewhere.
LEMMA SumCount ==
  ASSUME NEW D, IsFiniteSet(D), NEW v \in Int, NEW E \in SUBSET D, NEW F \in [D -> Int],
         \A x \in E : F[x] = v, \A x \in D \ E : F[x] = 0
  PROVE  SumFunction(F) = Cardinality(E) * v
  <1>1. PICK P : P = {n \in Nat : \A T \in SUBSET D : Cardinality(T) = n =>
                        SumFunctionOnSet(F, T) = Cardinality(T \cap E) * v}
    OBVIOUS
  <1>2. /\ \A T \in SUBSET D : IsFiniteSet(T) /\ Cardinality(T) \in Nat
        /\ \A T \in SUBSET D : IsFiniteSet(T \cap E) /\ Cardinality(T \cap E) \in Nat
    <2>1. \A T \in SUBSET D : IsFiniteSet(T) /\ Cardinality(T) \in Nat
      BY FS_Subset, FS_CardinalityType
    <2>2. \A T \in SUBSET D : T \cap E \in SUBSET D
      OBVIOUS
    <2> QED
      BY <2>1, <2>2
  <1>3. 0 \in P
    <2>1. ASSUME NEW T \in SUBSET D, Cardinality(T) = 0
          PROVE  SumFunctionOnSet(F, T) = Cardinality(T \cap E) * v
      <3>1. T = {} /\ T \cap E = {}
        BY <1>2, <2>1, FS_EmptySet
      <3>2. SumFunctionOnSet(F, {}) = 0
        BY SumTyped
      <3>3. Cardinality({}) = 0
        BY FS_EmptySet
      <3> QED
        BY <3>1, <3>2, <3>3
    <2> QED
      BY <1>1, <2>1
  <1>4. ASSUME NEW n \in Nat, n \in P PROVE n + 1 \in P
    <2> SUFFICES ASSUME NEW T \in SUBSET D, Cardinality(T) = n + 1
                 PROVE  SumFunctionOnSet(F, T) = Cardinality(T \cap E) * v
      BY <1>1
    <2>1. T # {}
      BY <1>2, FS_EmptySet
    <2>2. PICK x \in T : TRUE
      BY <2>1
    <2>3. PICK R \in SUBSET D : R = T \ {x}
      OBVIOUS
    <2>4. Cardinality(R) = n
      <3>1. Cardinality(T \ {x}) = Cardinality(T) - 1
        BY <1>2, FS_RemoveElement
      <3> QED
        BY <2>3, <3>1
    <2>5. PICK k \in Nat : k = Cardinality(R \cap E)
      BY <1>2
    <2>6. SumFunctionOnSet(F, R) = k * v
      BY <1>1, <1>4, <2>4, <2>5
    <2>7. SumFunctionOnSet(F, T) = F[x] + SumFunctionOnSet(F, T \ {x})
      <3>1. IsFiniteSet(T) /\ \A y \in T : F[y] \in Int
        BY <1>2
      <3> QED
        BY <3>1, SumTake
    <2>8. CASE x \in E
      <3>1. (T \cap E) \ {x} = R \cap E /\ x \in T \cap E /\ F[x] = v
        BY <2>3, <2>8
      <3>2. Cardinality((T \cap E) \ {x}) = Cardinality(T \cap E) - 1
        BY <1>2, <3>1, FS_RemoveElement
      <3>3. PICK m \in Nat : m = Cardinality(T \cap E)
        BY <1>2
      <3>4. m = k + 1
        <4>1. k = m - 1
          BY <2>5, <3>1, <3>2, <3>3, Zenon
        <4> QED
          BY <4>1
      <3>5. (k + 1) * v = v + k * v
        OBVIOUS
      <3> QED
        BY <2>3, <2>6, <2>7, <3>1, <3>3, <3>4, <3>5
    <2>9. CASE x \notin E
      <3>1. T \cap E = R \cap E /\ F[x] = 0
        BY <2>3, <2>9
      <3>2. k * v \in Int /\ SumFunctionOnSet(F, T) = 0 + k * v
        BY <2>3, <2>6, <2>7, <3>1
      <3>3. 0 + k * v = k * v
        BY <3>2
      <3> QED
        BY <2>5, <3>1, <3>2, <3>3
    <2> QED
      BY <2>8, <2>9
  <1>5. Cardinality(D) \in P
    BY <1>2, <1>3, <1>4, SetInduction
  <1>6. D \in SUBSET D /\ D \cap E = E /\ DOMAIN F = D
    OBVIOUS
  <1>7. SumFunctionOnSet(F, D) = Cardinality(D \cap E) * v
    BY <1>1, <1>5, <1>6
  <1> QED
    BY <1>6, <1>7 DEF SumFunction

\* Values that are 0 but for one.
LEMMA SumOfOne ==
  ASSUME NEW D, IsFiniteSet(D), NEW F \in [D -> Int], NEW d \in D,
         \A x \in D \ {d} : F[x] = 0
  PROVE  SumFunction(F) = F[d]
  <1>1. PICK E \in SUBSET D : E = {d}
    OBVIOUS
  <1>2. PICK v \in Int : v = F[d]
    OBVIOUS
  <1>3. Cardinality(E) = 1 /\ (\A x \in E : F[x] = v) /\ (\A x \in D \ E : F[x] = 0)
    BY <1>1, <1>2, FS_Singleton
  <1>4. SumFunction(F) = Cardinality(E) * v
    BY <1>3, SumCount
  <1> QED
    BY <1>2, <1>3, <1>4

\* Values that are 0.
LEMMA SumOfNone ==
  ASSUME NEW D, IsFiniteSet(D), NEW F \in [D -> Int], \A x \in D : F[x] = 0
  PROVE  SumFunction(F) = 0
  <1>1. CASE D = {}
    BY <1>1, SumIsInt
  <1>2. CASE D # {}
    <2>1. PICK d \in D : TRUE
      BY <1>2
    <2>2. SumFunction(F) = F[d]
      BY SumOfOne
    <2> QED
      BY <2>2
  <1> QED
    BY <1>1, <1>2

\* A function and its restrictions to two parts of its domain.
Parts(D, F, E, G, C, H) ==
    /\ IsFiniteSet(D) /\ F \in [D -> Int]
    /\ E \in SUBSET D /\ G \in [E -> Int] /\ \A x \in E : G[x] = F[x]
    /\ C = D \ E /\ H \in [C -> Int] /\ \A x \in C : H[x] = F[x]

\* A sum in two parts.
LEMMA SumParts ==
  ASSUME NEW D, NEW F, NEW E, NEW G, NEW C, NEW H, Parts(D, F, E, G, C, H)
  PROVE  SumFunction(F) = SumFunction(G) + SumFunction(H)
  <1> USE DEF Parts
  <1>1. PICK P : P = {n \in Nat : \A T \in SUBSET D : Cardinality(T) = n =>
                        SumFunctionOnSet(F, T)
                          = SumFunctionOnSet(F, T \cap E) + SumFunctionOnSet(F, T \ E)}
    OBVIOUS
  <1>2. \A T \in SUBSET D : /\ IsFiniteSet(T) /\ Cardinality(T) \in Nat
                            /\ \A x \in T : F[x] \in Int
                            /\ SumFunctionOnSet(F, T) \in Int
    <2>1. \A T \in SUBSET D : IsFiniteSet(T) /\ Cardinality(T) \in Nat
      BY FS_Subset, FS_CardinalityType
    <2>2. \A T \in SUBSET D : \A x \in T : F[x] \in Int
      OBVIOUS
    <2>3. \A T \in SUBSET D : SumFunctionOnSet(F, T) \in Int
      BY <2>1, <2>2, SumTyped
    <2> QED
      BY <2>1, <2>2, <2>3
  <1>3. 0 \in P
    <2>1. ASSUME NEW T \in SUBSET D, Cardinality(T) = 0
          PROVE  SumFunctionOnSet(F, T)
                   = SumFunctionOnSet(F, T \cap E) + SumFunctionOnSet(F, T \ E)
      <3>1. T = {} /\ T \cap E = {} /\ T \ E = {}
        BY <1>2, <2>1, FS_EmptySet
      <3>2. SumFunctionOnSet(F, {}) = 0
        BY SumTyped
      <3> QED
        BY <3>1, <3>2
    <2> QED
      BY <1>1, <2>1
  <1>4. ASSUME NEW n \in Nat, n \in P PROVE n + 1 \in P
    <2> SUFFICES ASSUME NEW T \in SUBSET D, Cardinality(T) = n + 1
                 PROVE  SumFunctionOnSet(F, T)
                          = SumFunctionOnSet(F, T \cap E) + SumFunctionOnSet(F, T \ E)
      BY <1>1
    <2>1. T # {}
      BY <1>2, FS_EmptySet
    <2>2. PICK x \in T : TRUE
      BY <2>1
    <2>3. PICK R \in SUBSET D : R = T \ {x}
      OBVIOUS
    <2>4. Cardinality(R) = n
      <3>1. Cardinality(T \ {x}) = Cardinality(T) - 1
        BY <1>2, FS_RemoveElement
      <3> QED
        BY <2>3, <3>1
    <2>5. PICK A \in SUBSET D, B \in SUBSET D : A = R \cap E /\ B = R \ E
      OBVIOUS
    <2>6. PICK a \in Int, b \in Int, v \in Int :
             a = SumFunctionOnSet(F, A) /\ b = SumFunctionOnSet(F, B) /\ v = F[x]
      BY <1>2
    <2>7. SumFunctionOnSet(F, R) = a + b
      BY <1>1, <1>4, <2>4, <2>5, <2>6
    <2>8. \A S \in SUBSET D : x \in S =>
             SumFunctionOnSet(F, S) = F[x] + SumFunctionOnSet(F, S \ {x})
      BY <1>2, SumTake
    <2>9. SumFunctionOnSet(F, T) = v + (a + b)
      BY <2>3, <2>6, <2>7, <2>8
    <2>10. CASE x \in E
      <3>1. PICK S \in SUBSET D : S = T \cap E
        OBVIOUS
      <3>2. x \in S /\ S \ {x} = A /\ T \ E = B
        BY <2>3, <2>5, <2>10, <3>1
      <3>3. SumFunctionOnSet(F, S) = v + a
        BY <2>6, <2>8, <3>2
      <3>4. SumFunctionOnSet(F, T \ E) = b
        BY <2>6, <3>2
      <3> QED
        BY <2>9, <3>1, <3>3, <3>4
    <2>11. CASE x \notin E
      <3>1. PICK S \in SUBSET D : S = T \ E
        OBVIOUS
      <3>2. x \in S /\ S \ {x} = B /\ T \cap E = A
        BY <2>3, <2>5, <2>11, <3>1
      <3>3. SumFunctionOnSet(F, S) = v + b
        BY <2>6, <2>8, <3>2
      <3>4. SumFunctionOnSet(F, T \cap E) = a
        BY <2>6, <3>2
      <3> QED
        BY <2>9, <3>1, <3>3, <3>4
    <2> QED
      BY <2>10, <2>11
  <1>5. P = Nat
    <2>1. P \in SUBSET Nat
      BY <1>1
    <2> QED
      BY <1>3, <1>4, <2>1, SetInduction
  <1>6. SumFunctionOnSet(F, D) = SumFunctionOnSet(F, E) + SumFunctionOnSet(F, D \ E)
    <2>1. Cardinality(D) \in P
      BY <1>2, <1>5
    <2>2. D \cap E = E /\ D \in SUBSET D
      OBVIOUS
    <2> QED
      BY <1>1, <2>1, <2>2
  <1>7. SumFunctionOnSet(G, E) = SumFunctionOnSet(F, E)
    BY <1>2, SumSame
  <1>8. SumFunctionOnSet(H, D \ E) = SumFunctionOnSet(F, D \ E)
    <2>1. PICK T \in SUBSET D : T = D \ E
      OBVIOUS
    <2>2. \A x \in T : H[x] = F[x]
      BY <2>1
    <2>3. SumFunctionOnSet(H, T) = SumFunctionOnSet(F, T)
      BY <1>2, <2>2, SumSame
    <2> QED
      BY <2>1, <2>3
  <1>9. DOMAIN F = D /\ DOMAIN G = E /\ DOMAIN H = D \ E
    OBVIOUS
  <1> QED
    BY <1>6, <1>7, <1>8, <1>9 DEF SumFunction

================================================================================
