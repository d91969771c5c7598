---------------------------- MODULE InductionProofs ----------------------------
(***************************************************************************)
(* Induction and recursion over the natural numbers and over what has a    *)
(* measure, with sets and functions in the place of the library's operator *)
(* parameters; and what a loop that selects elements of a list keeps.       *)
(***************************************************************************)
EXTENDS Integers, WellFoundedInduction, Selection, SequenceTheorems, TLAPS

\* A set of numbers that is not empty has a least element.
LEMMA Least ==
  ASSUME NEW S \in SUBSET Nat, S # {}
  PROVE  \E n \in S : \A m \in S : n <= m
  <1>1. PICK R : R = OpToRel(<, Nat)
    OBVIOUS
  <1>2. PICK x \in S : \A y \in S : ~ (<<y, x>> \in R)
    BY <1>1, NatLessThanWellFounded, WFMin, Zenon
  <1>3. \A m, n \in Nat : m < n => <<m, n>> \in OpToRel(<, Nat)
    BY DEF OpToRel
  <1>4. \A m, n \in Nat : m < n => <<m, n>> \in R
    BY <1>1, <1>3, Zenon
  <1>5. ASSUME NEW y \in S PROVE x <= y
    <2>1. x \in Nat /\ y \in Nat
      OBVIOUS
    <2>2. ~ (y < x)
      BY <1>2, <1>4, <2>1, Zenon
    <2> QED
      BY <2>1, <2>2
  <1> QED
    BY <1>5

\* Induction: what holds for 0, and with every number for the next one, holds
\* for all numbers.
LEMMA SetInduction ==
  ASSUME NEW S, 0 \in S, \A n \in Nat : n \in S => n + 1 \in S
  PROVE  Nat \subseteq S
  <1> SUFFICES ASSUME Nat \ S # {} PROVE FALSE
    OBVIOUS
  <1>1. PICK n \in Nat \ S : \A m \in Nat \ S : n <= m
    BY Least
  <1>2. n - 1 \in Nat /\ ~ n <= n - 1 /\ n = (n - 1) + 1
    BY <1>1
  <1>3. n - 1 \in S
    BY <1>1, <1>2
  <1> QED
    BY <1>1, <1>2, <1>3

\* The first n + 1 values of a recursion.
Begins(f, V, v0, step, n) ==
    /\ f \in [0 .. n -> V] /\ f[0] = v0
    /\ \A i \in 0 .. n - 1 : f[i + 1] = step[<<f[i], i>>]

\* Recursion: there is a function with a given first value and a given step.
LEMMA Recursion ==
  ASSUME NEW V, NEW v0 \in V, NEW step \in [V \X Nat -> V], NEW k \in Nat
  PROVE  \E f : Begins(f, V, v0, step, k)
  <1>1. PICK S : S = {n \in Nat : \E f : Begins(f, V, v0, step, n)}
    OBVIOUS
  <1>2. 0 \in S
    <2>1. PICK f : f = [i \in 0 .. 0 |-> v0]
      OBVIOUS
    <2>2. Begins(f, V, v0, step, 0)
      BY <2>1 DEF Begins
    <2> QED
      BY <1>1, <2>2
  <1>3. ASSUME NEW n \in Nat, n \in S PROVE n + 1 \in S
    <2>1. PICK f : Begins(f, V, v0, step, n)
      BY <1>1, <1>3
    <2>2. f[n] \in V /\ <<f[n], n>> \in V \X Nat
      BY <2>1 DEF Begins
    <2>3. PICK x \in V : x = step[<<f[n], n>>]
      BY <2>2
    <2>4. PICK g : g = [i \in 0 .. n + 1 |-> IF i = n + 1 THEN x ELSE f[i]]
      OBVIOUS
    <2>5. g \in [0 .. n + 1 -> V] /\ g[0] = v0
      BY <2>1, <2>4 DEF Begins
    <2>6. ASSUME NEW i \in 0 .. n PROVE g[i + 1] = step[<<g[i], i>>]
      <3>1. CASE i = n
        <4>1. g[n + 1] = x /\ g[n] = f[n]
          BY <2>4
        <4> QED
          BY <2>3, <3>1, <4>1, Zenon
      <3>2. CASE i # n
        <4>1. i \in 0 .. n - 1 /\ i + 1 \in 0 .. n + 1 /\ i + 1 # n + 1 /\ i # n + 1
          BY <3>2
        <4>2. g[i + 1] = f[i + 1] /\ g[i] = f[i]
          BY <2>4, <4>1
        <4>3. f[i + 1] = step[<<f[i], i>>]
          BY <2>1, <4>1 DEF Begins
        <4> QED
          BY <4>2, <4>3
      <3> QED
        BY <3>1, <3>2
    <2>7. Begins(g, V, v0, step, n + 1)
      BY <2>5, <2>6 DEF Begins
    <2> QED
      BY <1>1, <2>7
  <1>4. k \in S
    BY <1>2, <1>3, SetInduction
  <1> QED
    BY <1>1, <1>4

\* Induction over anything that has a measure.
LEMMA MeasureInduction ==
  ASSUME NEW X, NEW mu \in [X -> Nat], NEW T,
         \A x \in X : (\A y \in X : mu[y] < mu[x] => y \in T) => x \in T
  PROVE  X \subseteq T
  <1> SUFFICES ASSUME NEW z \in X, z \notin T PROVE FALSE
    OBVIOUS
  <1>1. PICK B : B = {mu[x] : x \in X \ T}
    OBVIOUS
  <1>2. \A m \in B : m \in Nat
    <2>1. \A x \in X : mu[x] \in Nat
      OBVIOUS
    <2> QED
      BY <1>1, <2>1
  <1>3. PICK n \in B : \A m \in B : n <= m
    <2>1. B \in SUBSET Nat
      BY <1>2
    <2>2. B # {}
      <3>1. mu[z] \in B
        BY <1>1
      <3> QED
        BY <3>1
    <2> QED
      BY <2>1, <2>2, Least
  <1>4. PICK x \in X \ T : mu[x] = n
    BY <1>1, <1>3
  <1>5. ASSUME NEW y \in X, mu[y] < mu[x] PROVE y \in T
    <2>1. SUFFICES ASSUME y \notin T PROVE FALSE
      OBVIOUS
    <2>2. mu[y] \in B
      BY <1>1, <2>1
    <2>3. n <= mu[y] /\ mu[y] \in Nat /\ n \in Nat
      BY <1>2, <1>3, <2>2
    <2> QED
      BY <1>4, <1>5, <2>3
  <1> QED
    BY <1>4, <1>5

\* A step function looks only at values of smaller measure.
Respects(step, X, V, mu) ==
    \A g, h \in [X -> V] : \A x \in X :
       (\A y \in X : mu[y] < mu[x] => g[y] = h[y]) => step[g][x] = step[h][x]

\* The equation has a solution.
Solvable(step, X, V) == \E g \in [X -> V] : step[g] = g

\* A function that satisfies the equation as far as a measure of n.
UpTo(g, n, step, X, V, mu) ==
    g \in [X -> V] /\ \A x \in X : mu[x] < n => step[g][x] = g[x]

\* Such functions agree as far.
LEMMA UpToAgree ==
  ASSUME NEW X, NEW V, NEW mu \in [X -> Nat], NEW step, Respects(step, X, V, mu),
         NEW n \in Nat, NEW g, UpTo(g, n, step, X, V, mu), NEW h, UpTo(h, n, step, X, V, mu),
         NEW z \in X, mu[z] < n
  PROVE  g[z] = h[z]
  <1>1. PICK T : T = {x \in X : mu[x] < n => g[x] = h[x]}
    OBVIOUS
  <1>2. ASSUME NEW x \in X, \A y \in X : mu[y] < mu[x] => y \in T
        PROVE  x \in T
    <2>1. SUFFICES ASSUME mu[x] < n PROVE g[x] = h[x]
      BY <1>1
    <2>2. \A y \in X : mu[y] < mu[x] => g[y] = h[y]
      <3>1. ASSUME NEW y \in X, mu[y] < mu[x] PROVE g[y] = h[y]
        <4>1. mu[y] \in Nat /\ mu[x] \in Nat
          OBVIOUS
        <4>2. mu[y] < n
          BY <2>1, <3>1, <4>1
        <4> QED
          BY <1>1, <1>2, <3>1, <4>2
      <3> QED
        BY <3>1
    <2>3. step[g][x] = step[h][x]
      BY <2>2 DEF Respects, UpTo
    <2> QED
      BY <2>1, <2>3 DEF UpTo
  <1>3. X \subseteq T
    BY <1>2, MeasureInduction
  <1> QED
    BY <1>1, <1>3

\* Recursion over anything that has a measure: the equation of a recursive
\* function has a solution if what it refers to is smaller.
LEMMA FixedPoint ==
  ASSUME NEW X, NEW V, V # {}, NEW mu \in [X -> Nat], NEW step \in [[X -> V] -> [X -> V]],
         Respects(step, X, V, mu)
  PROVE  Solvable(step, X, V)
  <1>1. PICK S : S = {n \in Nat : \E g : UpTo(g, n, step, X, V, mu)}
    OBVIOUS
  <1>2. 0 \in S
    <2>1. PICK v \in V : TRUE
      OBVIOUS
    <2>2. PICK g \in [X -> V] : g = [x \in X |-> v]
      OBVIOUS
    <2>3. \A x \in X : ~ (mu[x] < 0)
      OBVIOUS
    <2>4. UpTo(g, 0, step, X, V, mu)
      BY <2>3 DEF UpTo
    <2> QED
      BY <1>1, <2>4
  <1>3. ASSUME NEW n \in Nat, n \in S PROVE n + 1 \in S
    <2>1. PICK g : UpTo(g, n, step, X, V, mu)
      BY <1>1, <1>3
    <2>2. g \in [X -> V] /\ \A x \in X : mu[x] < n => step[g][x] = g[x]
      BY <2>1 DEF UpTo
    <2>3. PICK h \in [X -> V] : h = step[g]
      BY <2>2
    <2>4. ASSUME NEW x \in X, mu[x] < n + 1 PROVE step[h][x] = h[x]
      <3>1. ASSUME NEW y \in X, mu[y] < mu[x] PROVE h[y] = g[y]
        <4>1. mu[y] \in Nat /\ mu[x] \in Nat
          OBVIOUS
        <4>2. mu[y] < n
          BY <2>4, <3>1, <4>1
        <4> QED
          BY <2>2, <2>3, <4>2
      <3>2. step[h][x] = step[g][x]
        BY <2>2, <3>1 DEF Respects
      <3> QED
        BY <2>3, <3>2
    <2>5. UpTo(h, n + 1, step, X, V, mu)
      BY <2>4 DEF UpTo
    <2> QED
      BY <1>1, <2>5
  <1>4. \A n \in Nat : \E g : UpTo(g, n, step, X, V, mu)
    <2>1. Nat \subseteq S
      BY <1>2, <1>3, SetInduction
    <2> QED
      BY <1>1, <2>1
  <1>5. PICK H : H = [x \in X |-> CHOOSE g : UpTo(g, mu[x] + 1, step, X, V, mu)]
    OBVIOUS
  <1>6. ASSUME NEW x \in X PROVE UpTo(H[x], mu[x] + 1, step, X, V, mu)
    <2>1. mu[x] + 1 \in Nat
      OBVIOUS
    <2>2. \E g : UpTo(g, mu[x] + 1, step, X, V, mu)
      BY <1>4, <2>1
    <2>3. H[x] = CHOOSE g : UpTo(g, mu[x] + 1, step, X, V, mu)
      BY <1>5
    <2> QED
      BY <2>2, <2>3, Zenon
  <1>7. \A x \in X : H[x] \in [X -> V] /\ step[H[x]][x] = H[x][x]
    <2>1. \A x \in X : mu[x] < mu[x] + 1
      OBVIOUS
    <2> QED
      BY <1>6, <2>1 DEF UpTo
  <1>8. PICK G : G = [x \in X |-> H[x][x]]
    OBVIOUS
  <1>9. G \in [X -> V] /\ \A x \in X : G[x] = H[x][x]
    BY <1>7, <1>8
  <1>10. ASSUME NEW x \in X PROVE step[G][x] = G[x]
    <2>1. ASSUME NEW y \in X, mu[y] < mu[x] PROVE G[y] = H[x][y]
      <3>1. PICK n \in Nat : n = mu[y] + 1 /\ mu[y] < n
        OBVIOUS
      <3>2. UpTo(H[y], n, step, X, V, mu)
        BY <1>6, <3>1
      <3>3. UpTo(H[x], n, step, X, V, mu)
        <4>1. H[x] \in [X -> V] /\ \A z \in X : mu[z] < mu[x] + 1 => step[H[x]][z] = H[x][z]
          BY <1>6 DEF UpTo
        <4>2. ASSUME NEW z \in X, mu[z] < n PROVE mu[z] < mu[x] + 1
          <5>1. mu[x] \in Nat /\ mu[y] \in Nat /\ mu[z] \in Nat
            OBVIOUS
          <5> QED
            BY <2>1, <3>1, <4>2, <5>1
        <4> QED
          BY <4>1, <4>2 DEF UpTo
      <3>4. H[y][y] = H[x][y]
        BY <3>1, <3>2, <3>3, UpToAgree
      <3> QED
        BY <1>9, <3>4
    <2>2. step[G][x] = step[H[x]][x]
      BY <1>7, <1>9, <2>1 DEF Respects
    <2> QED
      BY <1>7, <1>9, <2>2
  <1>11. step[G] = G
    <2>1. step[G] \in [X -> V]
      BY <1>9
    <2> QED
      BY <1>9, <1>10, <2>1
  <1> QED
    BY <1>9, <1>11 DEF Solvable

--------------------------------------------------------------------------------
(* The loop that keeps some elements of a list. *)

Keeps(f, k, s, S) == IF k = 0 THEN <<>>
                     ELSE IF s[k] \in S THEN Append(f[k - 1], s[k]) ELSE f[k - 1]

Keeping(f, s, S, T) == /\ f \in [0 .. Len(s) -> Seq(T)] /\ f[0] = <<>>
                       /\ \A k \in 1 .. Len(s) :
                             /\ s[k] \in S => f[k] = Append(f[k - 1], s[k])
                             /\ s[k] \notin S => f[k] = f[k - 1]

\* The recursion of Kept has a solution, and Kept is its last value.
LEMMA KeptIs ==
  ASSUME NEW T, NEW s \in Seq(T), NEW S
  PROVE  \E f : Keeping(f, s, S, T) /\ Kept(s, S) = f[Len(s)]
  <1>0. PICK n \in Nat : n = Len(s)
    OBVIOUS
  <1>1. PICK step : step = [p \in Seq(T) \X Nat |->
                              IF p[2] + 1 \in 1 .. n /\ s[p[2] + 1] \in S
                              THEN Append(p[1], s[p[2] + 1]) ELSE p[1]]
    OBVIOUS
  <1>2. step \in [Seq(T) \X Nat -> Seq(T)]
    <2>1. ASSUME NEW v \in Seq(T), NEW i \in Nat, i + 1 \in 1 .. n
          PROVE  Append(v, s[i + 1]) \in Seq(T)
      BY <1>0, <2>1
    <2>2. ASSUME NEW p \in Seq(T) \X Nat
          PROVE  (IF p[2] + 1 \in 1 .. n /\ s[p[2] + 1] \in S
                  THEN Append(p[1], s[p[2] + 1]) ELSE p[1]) \in Seq(T)
      BY <2>1
    <2> QED
      BY <1>1, <2>2
  <1>3. <<>> \in Seq(T)
    OBVIOUS
  <1>4. PICK g : Begins(g, Seq(T), <<>>, step, n)
    BY <1>2, <1>3, Recursion
  <1>5. /\ g \in [0 .. n -> Seq(T)] /\ g[0] = <<>>
        /\ \A i \in 0 .. n - 1 : g[i + 1] = step[<<g[i], i>>]
    BY <1>4 DEF Begins
  <1>6. ASSUME NEW k \in 1 .. n
        PROVE  g[k] = IF s[k] \in S THEN Append(g[k - 1], s[k]) ELSE g[k - 1]
    <2>1. PICK i \in 0 .. n - 1 : i = k - 1 /\ k = i + 1
      BY <1>0
    <2>2. g[i] \in Seq(T) /\ <<g[i], i>> \in Seq(T) \X Nat /\ i + 1 \in 1 .. n
      BY <1>5, <2>1
    <2>3. step[<<g[i], i>>] = IF s[i + 1] \in S THEN Append(g[i], s[i + 1]) ELSE g[i]
      BY <1>1, <2>2
    <2>4. g[i + 1] = step[<<g[i], i>>]
      BY <1>5
    <2> QED
      BY <2>1, <2>3, <2>4
  <1>7. g = [k \in 0 .. n |-> Keeps(g, k, s, S)]
    <2>1. g[0] = Keeps(g, 0, s, S)
      BY <1>5 DEF Keeps
    <2>2. \A k \in 1 .. n : k # 0 /\ g[k] = Keeps(g, k, s, S)
      BY <1>6 DEF Keeps
    <2>3. \A k \in 0 .. n : k = 0 \/ k \in 1 .. n
      BY <1>0
    <2>4. \A k \in 0 .. n : g[k] = Keeps(g, k, s, S)
      BY <2>1, <2>2, <2>3
    <2> QED
      BY <1>5, <2>4
  <1>8. PICK f : f = CHOOSE h : h = [k \in 0 .. n |-> Keeps(h, k, s, S)]
    OBVIOUS
  <1>9. f = [k \in 0 .. n |-> Keeps(f, k, s, S)]
    BY <1>7, <1>8, Zenon
  <1>10. Kept(s, S) = f[n]
    BY <1>0, <1>8 DEF Kept, Keeps
  <1>11. /\ DOMAIN f = 0 .. n /\ f[0] = <<>>
         /\ \A k \in 1 .. n : f[k] = IF s[k] \in S THEN Append(f[k - 1], s[k]) ELSE f[k - 1]
    <2>1. \A k \in 0 .. n : f[k] = Keeps(f, k, s, S)
      BY <1>9
    <2>2. DOMAIN f = 0 .. n
      BY <1>9
    <2>3. 0 \in 0 .. n /\ \A k \in 1 .. n : k \in 0 .. n /\ k # 0
      BY <1>0
    <2> QED
      BY <2>1, <2>2, <2>3 DEF Keeps
  <1>12. \A k \in 0 .. n : f[k] \in Seq(T)
    <2>1. PICK P : P = {k \in Nat : k <= n => f[k] \in Seq(T)}
      OBVIOUS
    <2>2. 0 \in P
      BY <1>3, <1>11, <2>1
    <2>3. ASSUME NEW k \in Nat, k \in P PROVE k + 1 \in P
      <3>1. CASE k + 1 <= n
        <4>1. k + 1 \in 1 .. n /\ (k + 1) - 1 = k /\ f[k] \in Seq(T) /\ s[k + 1] \in T
          BY <1>0, <2>1, <2>3, <3>1
        <4>2. f[k + 1] = IF s[k + 1] \in S THEN Append(f[k], s[k + 1]) ELSE f[k]
          BY <1>11, <4>1
        <4>3. f[k + 1] \in Seq(T)
          BY <4>1, <4>2
        <4> QED
          BY <2>1, <4>3
      <3>2. CASE ~ (k + 1 <= n)
        BY <2>1, <3>2
      <3> QED
        BY <3>1, <3>2
    <2>4. Nat \subseteq P
      BY <2>2, <2>3, SetInduction
    <2> QED
      BY <1>0, <2>1, <2>4
  <1>13. f \in [0 .. n -> Seq(T)]
    <2>1. f = [k \in 0 .. n |-> f[k]]
      BY <1>9
    <2> QED
      BY <1>12, <2>1
  <1>14. Keeping(f, s, S, T)
    BY <1>0, <1>11, <1>13 DEF Keeping
  <1> QED
    BY <1>0, <1>10, <1>14

\* Kept holds the elements of the list that are in the set, and no others.
LEMMA KeptElements ==
  ASSUME NEW T, NEW s \in Seq(T), NEW S
  PROVE  /\ Kept(s, S) \in Seq(T)
         /\ \A k \in 1 .. Len(Kept(s, S)) :
               Kept(s, S)[k] \in S /\ \E i \in 1 .. Len(s) : Kept(s, S)[k] = s[i]
         /\ \A i \in 1 .. Len(s) : s[i] \in S =>
               \E k \in 1 .. Len(Kept(s, S)) : Kept(s, S)[k] = s[i]
  <1>1. PICK f : Keeping(f, s, S, T) /\ Kept(s, S) = f[Len(s)]
    BY KeptIs
  <1>2. PICK n \in Nat : n = Len(s)
    OBVIOUS
  <1>3. PICK P : P = {m \in Nat : m <= n =>
                        /\ \A k \in 1 .. Len(f[m]) : f[m][k] \in S /\ \E i \in 1 .. m : f[m][k] = s[i]
                        /\ \A i \in 1 .. m : s[i] \in S => \E k \in 1 .. Len(f[m]) : f[m][k] = s[i]}
    OBVIOUS
  <1>4. 0 \in P
    <2>1. f[0] = <<>> /\ Len(<<>>) = 0 /\ 1 .. 0 = {}
      BY <1>1 DEF Keeping
    <2> QED
      BY <1>3, <2>1
  <1>5. ASSUME NEW m \in Nat, m \in P PROVE m + 1 \in P
    <2>1. CASE m + 1 <= n
      <3>1. /\ m \in 0 .. Len(s) /\ m + 1 \in 1 .. Len(s) /\ (m + 1) - 1 = m /\ m <= n
            /\ s[m + 1] \in T
        BY <1>2, <2>1
      <3>2. PICK v \in Seq(T) : v = f[m]
        BY <1>1, <3>1 DEF Keeping
      <3>3. /\ \A k \in 1 .. Len(v) : v[k] \in S /\ \E i \in 1 .. m : v[k] = s[i]
            /\ \A i \in 1 .. m : s[i] \in S => \E k \in 1 .. Len(v) : v[k] = s[i]
        BY <1>3, <1>5, <3>1, <3>2
      <3>4. CASE s[m + 1] \in S
        <4>1. PICK x \in T : x = s[m + 1]
          BY <3>1
        <4>2. PICK u : u = Append(v, x)
          OBVIOUS
        <4>3. /\ Len(u) = Len(v) + 1 /\ u[Len(v) + 1] = x
              /\ \A k \in 1 .. Len(v) : u[k] = v[k]
          BY <4>2
        <4>4. f[m + 1] = u
          BY <1>1, <3>1, <3>2, <3>4, <4>1, <4>2 DEF Keeping
        <4>5. \A k \in 1 .. Len(u) : u[k] \in S /\ \E i \in 1 .. m + 1 : u[k] = s[i]
          <5>1. ASSUME NEW k \in 1 .. Len(u), k = Len(v) + 1
                PROVE  u[k] \in S /\ \E i \in 1 .. m + 1 : u[k] = s[i]
            BY <3>4, <4>1, <4>3, <5>1
          <5>2. ASSUME NEW k \in 1 .. Len(u), k # Len(v) + 1
                PROVE  u[k] \in S /\ \E i \in 1 .. m + 1 : u[k] = s[i]
            <6>1. k \in 1 .. Len(v) /\ 1 .. m \subseteq 1 .. m + 1
              BY <4>3, <5>2
            <6>2. PICK i \in 1 .. m : v[k] = s[i] /\ v[k] \in S
              BY <3>3, <6>1
            <6>3. u[k] = v[k] /\ i \in 1 .. m + 1
              BY <4>3, <6>1
            <6> QED
              BY <6>2, <6>3
          <5> QED
            BY <5>1, <5>2
        <4>6. \A i \in 1 .. m + 1 : s[i] \in S => \E k \in 1 .. Len(u) : u[k] = s[i]
          <5>1. ASSUME NEW i \in 1 .. m + 1, s[i] \in S, i = m + 1
                PROVE  \E k \in 1 .. Len(u) : u[k] = s[i]
            <6>1. Len(v) + 1 \in 1 .. Len(u)
              BY <4>3
            <6> QED
              BY <4>1, <4>3, <5>1, <6>1
          <5>2. ASSUME NEW i \in 1 .. m + 1, s[i] \in S, i # m + 1
                PROVE  \E k \in 1 .. Len(u) : u[k] = s[i]
            <6>1. i \in 1 .. m
              BY <5>2
            <6>2. PICK k \in 1 .. Len(v) : v[k] = s[i]
              BY <3>3, <5>2, <6>1
            <6>3. k \in 1 .. Len(u)
              BY <4>3
            <6> QED
              BY <4>3, <6>2, <6>3
          <5> QED
            BY <5>1, <5>2
        <4>7. PICK y : y = f[m + 1]
          OBVIOUS
        <4>8. /\ \A k \in 1 .. Len(y) : y[k] \in S /\ \E i \in 1 .. m + 1 : y[k] = s[i]
              /\ \A i \in 1 .. m + 1 : s[i] \in S => \E k \in 1 .. Len(y) : y[k] = s[i]
          BY <4>4, <4>5, <4>6, <4>7, Zenon
        <4> QED
          BY <1>3, <4>7, <4>8
      <3>5. CASE s[m + 1] \notin S
        <4>1. f[m + 1] = v
          BY <1>1, <3>1, <3>2, <3>5 DEF Keeping
        <4>2. \A k \in 1 .. Len(v) : v[k] \in S /\ \E i \in 1 .. m + 1 : v[k] = s[i]
          <5>1. 1 .. m \subseteq 1 .. m + 1
            OBVIOUS
          <5> QED
            BY <3>3, <5>1
        <4>3. \A i \in 1 .. m + 1 : s[i] \in S => \E k \in 1 .. Len(v) : v[k] = s[i]
          <5>1. \A i \in 1 .. m + 1 : i = m + 1 \/ i \in 1 .. m
            OBVIOUS
          <5> QED
            BY <3>3, <3>5, <5>1
        <4>4. PICK x : x = f[m + 1]
          OBVIOUS
        <4>5. /\ \A k \in 1 .. Len(x) : x[k] \in S /\ \E i \in 1 .. m + 1 : x[k] = s[i]
              /\ \A i \in 1 .. m + 1 : s[i] \in S => \E k \in 1 .. Len(x) : x[k] = s[i]
          BY <4>1, <4>2, <4>3, <4>4, Zenon
        <4> QED
          BY <1>3, <4>4, <4>5
      <3> QED
        BY <3>4, <3>5
    <2>2. CASE ~ (m + 1 <= n)
      BY <1>3, <2>2
    <2> QED
      BY <2>1, <2>2
  <1>6. Nat \subseteq P
    BY <1>4, <1>5, SetInduction
  <1>7. n \in P /\ n <= n
    BY <1>6
  <1>8. f[n] \in Seq(T)
    BY <1>1, <1>2 DEF Keeping
  <1> QED
    BY <1>1, <1>2, <1>3, <1>7, <1>8

\* Two sets that agree on the elements of a list keep the same of them.
LEMMA KeptSame ==
  ASSUME NEW T, NEW s \in Seq(T), NEW S, NEW R, \A i \in 1 .. Len(s) : (s[i] \in S <=> s[i] \in R)
  PROVE  Kept(s, S) = Kept(s, R)
  <1>1. PICK f : Keeping(f, s, S, T) /\ Kept(s, S) = f[Len(s)]
    BY KeptIs
  <1>2. PICK g : Keeping(g, s, R, T) /\ Kept(s, R) = g[Len(s)]
    BY KeptIs
  <1>3. PICK P : P = {m \in Nat : m <= Len(s) => f[m] = g[m]}
    OBVIOUS
  <1>4. 0 \in P
    BY <1>1, <1>2, <1>3 DEF Keeping
  <1>5. ASSUME NEW m \in Nat, m \in P PROVE m + 1 \in P
    <2>1. CASE m + 1 <= Len(s)
      <3>1. m + 1 \in 1 .. Len(s) /\ (m + 1) - 1 = m /\ f[m] = g[m]
        BY <1>3, <1>5, <2>1
      <3>2. f[m + 1] = g[m + 1]
        BY <1>1, <1>2, <3>1 DEF Keeping
      <3> QED
        BY <1>3, <3>2
    <2>2. CASE ~ (m + 1 <= Len(s))
      BY <1>3, <2>2
    <2> QED
      BY <2>1, <2>2
  <1>6. Len(s) \in P
    BY <1>4, <1>5, SetInduction
  <1> QED
    BY <1>1, <1>2, <1>3, <1>6

\* The first m elements of s.
Beginning(t, s, m) == Len(t) = m /\ \A k \in 1 .. m : t[k] = s[k]

\* A set with all elements of the list keeps the list.
LEMMA KeptAll ==
  ASSUME NEW T, NEW s \in Seq(T), NEW S, \A i \in 1 .. Len(s) : s[i] \in S
  PROVE  Kept(s, S) = s
  <1>1. PICK f : Keeping(f, s, S, T) /\ Kept(s, S) = f[Len(s)]
    BY KeptIs
  <1>2. PICK P : P = {m \in Nat : m <= Len(s) => Beginning(f[m], s, m)}
    OBVIOUS
  <1>3. 0 \in P
    <2>1. f[0] = <<>> /\ Len(<<>>) = 0 /\ 1 .. 0 = {}
      BY <1>1 DEF Keeping
    <2> QED
      BY <1>2, <2>1 DEF Beginning
  <1>4. ASSUME NEW m \in Nat, m \in P PROVE m + 1 \in P
    <2>1. CASE m + 1 <= Len(s)
      <3>1. m \in 0 .. Len(s) /\ m + 1 \in 1 .. Len(s) /\ (m + 1) - 1 = m /\ s[m + 1] \in T
        BY <2>1
      <3>2. PICK v \in Seq(T) : v = f[m]
        BY <1>1, <3>1 DEF Keeping
      <3>3. Len(v) = m /\ \A k \in 1 .. m : v[k] = s[k]
        BY <1>2, <1>4, <3>1, <3>2 DEF Beginning
      <3>4. f[m + 1] = Append(v, s[m + 1])
        BY <1>1, <3>1, <3>2 DEF Keeping
      <3>5. PICK x \in T : x = s[m + 1]
        BY <3>1
      <3>6. PICK u : u = Append(v, x)
        OBVIOUS
      <3>7. Len(u) = m + 1 /\ u[m + 1] = x /\ \A k \in 1 .. m : u[k] = v[k]
        BY <3>3, <3>6
      <3>8. \A k \in 1 .. m + 1 : u[k] = s[k]
        <4>1. \A k \in 1 .. m + 1 : k = m + 1 \/ k \in 1 .. m
          OBVIOUS
        <4> QED
          BY <3>3, <3>5, <3>7, <4>1
      <3>9. f[m + 1] = u
        BY <3>4, <3>5, <3>6
      <3>10. PICK j \in Nat : j = m + 1
        OBVIOUS
      <3>11. Beginning(u, s, j) /\ f[j] = u
        BY <3>7, <3>8, <3>9, <3>10 DEF Beginning
      <3>12. j \in P
        BY <1>2, <3>10, <3>11
      <3> QED
        BY <3>10, <3>12
    <2>2. CASE ~ (m + 1 <= Len(s))
      BY <1>2, <2>2
    <2> QED
      BY <2>1, <2>2
  <1>5. Nat \subseteq P
    <2>1. \A m \in Nat : m \in P => m + 1 \in P
      BY <1>4
    <2> QED
      BY <1>3, <2>1, SetInduction, Zenon
  <1>6. PICK t \in Seq(T) : t = f[Len(s)]
    <2>1. Len(s) \in 0 .. Len(s)
      OBVIOUS
    <2>2. f[Len(s)] \in Seq(T)
      BY <1>1, <2>1, Zenon DEF Keeping
    <2> QED
      BY <2>2
  <1>7. Len(t) = Len(s) /\ \A k \in 1 .. Len(s) : t[k] = s[k]
    <2>1. PICK n \in Nat : n = Len(s)
      OBVIOUS
    <2>2. n \in P /\ n <= n /\ t = f[n]
      BY <1>5, <1>6, <2>1
    <2>3. Beginning(t, s, n)
      BY <1>2, <2>1, <2>2
    <2> QED
      BY <2>1, <2>3 DEF Beginning
  <1>8. t = s
    BY <1>7, SeqEqual
  <1> QED
    BY <1>1, <1>6, <1>8
================================================================================
