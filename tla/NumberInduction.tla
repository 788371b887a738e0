-------------------------- MODULE NumberInduction ---------------------------
(***************************************************************************)
(* Induction over the natural numbers, stated with sets: the theorems of   *)
(* the library take a predicate, which can only be a defined operator; a   *)
(* set can be any expression.                                              *)
(***************************************************************************)
EXTENDS Numbers, FiniteSetTheorems, WellFoundedInduction, TLAPS

\* A set of numbers has a least element: the intervals below its elements are
\* finite sets, which strict inclusion orders well.
LEMMA LeastNumber ==
  ASSUME NEW S, S \subseteq Nat, S # {}
  PROVE  \E n \in S : \A m \in S : n <= m
<1> DEFINE Below(n) == 0 .. (n - 1)
           T == {Below(n) : n \in S}
<1>1. T \subseteq FiniteSubsetsOf(Nat) /\ T # {}
  <2>1. \A n \in S : IsFiniteSet(Below(n)) /\ Below(n) \in SUBSET Nat
    BY FS_Interval
  <2> QED
    BY <2>1 DEF FiniteSubsetsOf
<1>2. IsWellFoundedOn(StrictSubsetOrdering(Nat), FiniteSubsetsOf(Nat))
  BY FS_StrictSubsetOrderingWellFounded
<1>3. PICK s \in T : \A t \in T : ~ (<<t, s>> \in StrictSubsetOrdering(Nat))
  <2> HIDE DEF T
  <2> QED
    BY <1>1, <1>2, WFMin
<1>4. PICK n \in S : s = Below(n)
  BY <1>3
<1>5. ASSUME NEW m \in S, m < n
      PROVE  FALSE
  <2>1. m \in Below(n) /\ m \notin Below(m) /\ Below(m) \subseteq Below(n)
    BY <1>5
  <2>2. <<Below(m), Below(n)>> \in StrictSubsetOrdering(Nat)
    BY <2>1 DEF StrictSubsetOrdering
  <2> QED
    BY <1>3, <1>4, <2>2
<1> QED
  BY <1>5

\* A set that holds 0 and with every number the next one holds them all.
LEMMA NumbersByInduction ==
  ASSUME NEW S, 0 \in S, \A n \in Nat : n \in S => n + 1 \in S
  PROVE  \A n \in Nat : n \in S
<1> SUFFICES ASSUME Nat \ S # {}
             PROVE  FALSE
  OBVIOUS
<1>1. PICK n \in Nat \ S : \A m \in Nat \ S : n <= m
  BY LeastNumber
<1>2. n # 0 /\ n - 1 \in Nat /\ n - 1 \notin Nat \ S
  BY <1>1
<1> QED
  BY <1>1, <1>2

\* The sequence in S with this start and these steps.
Follows(f, S, start, step) ==
  f \in [Nat -> S] /\ f[0] = start /\ \A n \in Nat : f[n + 1] = step[n + 1][f[n]]

LEMMA Recursion ==
  ASSUME NEW S, NEW start \in S, NEW step \in [Nat -> [S -> S]]
  PROVE  \E f : Follows(f, S, start, step)
<1> DEFINE Runs(g, n) == /\ g \in [0 .. n -> S] /\ g[0] = start
                         /\ \A k \in 1 .. n : g[k] = step[k][g[k - 1]]
           R(n) == CHOOSE g : Runs(g, n)
           h == [n \in Nat |-> R(n)[n]]
<1>1. \A n \in Nat : \E g : Runs(g, n)
  <2> DEFINE T == {n \in Nat : \E g : Runs(g, n)}
  <2>1. 0 \in T
    <3> DEFINE g == [k \in 0 .. 0 |-> start]
    <3>1. Runs(g, 0)
      OBVIOUS
    <3> QED
      BY <3>1
  <2>2. ASSUME NEW n \in Nat, n \in T
        PROVE  n + 1 \in T
    <3>1. PICK g : Runs(g, n)
      BY <2>2
    <3> DEFINE e == [k \in 0 .. n + 1 |-> IF k = n + 1 THEN step[n + 1][g[n]] ELSE g[k]]
    <3>2. e \in [0 .. n + 1 -> S] /\ e[0] = start
      BY <3>1
    <3>3. ASSUME NEW k \in 1 .. n + 1
          PROVE  e[k] = step[k][e[k - 1]]
      BY <3>1
    <3>4. Runs(e, n + 1)
      <4> HIDE DEF e
      <4> QED
        BY <3>2, <3>3
    <3> HIDE DEF Runs, e
    <3> QED
      BY <3>4
  <2> HIDE DEF T
  <2>3. \A n \in Nat : n \in T
    BY <2>1, <2>2, NumbersByInduction
  <2> QED
    BY <2>3 DEF T
<1>2. \A n \in Nat : Runs(R(n), n)
  <2> HIDE DEF Runs
  <2> QED
    BY <1>1
<1>3. ASSUME NEW n \in Nat, NEW k \in Nat, k <= n
      PROVE  R(n)[k] = R(k)[k]
  <2> DEFINE T == {j \in Nat : j <= k => R(n)[j] = R(k)[j]}
  <2>1. Runs(R(n), n) /\ Runs(R(k), k)
    BY <1>2
  <2> HIDE DEF R
  <2>2. 0 \in T
    BY <2>1
  <2>3. ASSUME NEW j \in Nat, j \in T
        PROVE  j + 1 \in T
    <3>1. ASSUME j + 1 <= k
          PROVE  R(n)[j + 1] = R(k)[j + 1]
      <4>1. j + 1 \in 1 .. n /\ j + 1 \in 1 .. k /\ (j + 1) - 1 = j /\ j <= k
        BY <1>3, <3>1
      <4> QED
        BY <2>1, <2>3, <4>1
    <3> QED
      BY <3>1
  <2> HIDE DEF T
  <2>4. k \in T
    BY <2>2, <2>3, NumbersByInduction
  <2> QED
    BY <2>4 DEF T
<1>4. \A n \in Nat : h[n] = R(n)[n]
  OBVIOUS
<1>5. h = [n \in Nat |-> h[n]]
  OBVIOUS
<1> HIDE DEF R, h
<1>6. h[0] = start
  BY <1>2, <1>4
<1>7. ASSUME NEW n \in Nat
      PROVE  h[n] \in S /\ h[n + 1] = step[n + 1][h[n]]
  <2>1. n + 1 \in Nat /\ n + 1 \in 1 .. n + 1 /\ (n + 1) - 1 = n /\ n <= n + 1 /\ n \in 0 .. n
    OBVIOUS
  <2>2. R(n + 1)[n + 1] = step[n + 1][R(n + 1)[n]] /\ R(n)[n] \in S
    BY <1>2, <2>1
  <2> QED
    BY <1>3, <1>4, <2>1, <2>2
<1>8. h \in [Nat -> S]
  BY <1>5, <1>7
<1> QED
  BY <1>6, <1>7, <1>8 DEF Follows

-----------------------------------------------------------------------------
(* Sums, powers of two and division.                                        *)

\* A sum is that of its first terms and the last one.
LEMMA TotalSteps ==
  ASSUME NEW f
  PROVE  Total(f, 0) = 0 /\ \A n \in Nat : Total(f, n + 1) = Total(f, n) + f[n + 1]
<1> DEFINE Sums(g, n) == g = [i \in 0 .. n |-> IF i = 0 THEN 0 ELSE g[i - 1] + f[i]]
           h == [n \in Nat |-> (CHOOSE g : Sums(g, n))[n]]
<1>1. ASSUME NEW n \in Nat, NEW g, Sums(g, n), NEW i \in 0 .. n
      PROVE  g[i] = IF i = 0 THEN 0 ELSE g[i - 1] + f[i]
  <2> DEFINE k == [j \in 0 .. n |-> IF j = 0 THEN 0 ELSE g[j - 1] + f[j]]
  <2>1. k[i] = IF i = 0 THEN 0 ELSE g[i - 1] + f[i]
    OBVIOUS
  <2>2. g = k
    BY <1>1, Zenon
  <2> QED
    BY <2>1, <2>2, Zenon
<1>2. \A n \in Nat : \E g : Sums(g, n)
  <2> DEFINE S == {n \in Nat : \E g : Sums(g, n)}
  <2>1. 0 \in S
    <3> DEFINE g == [i \in {0} |-> 0]
    <3>1. g = [i \in 0 .. 0 |-> IF i = 0 THEN 0 ELSE g[i - 1] + f[i]]
      OBVIOUS
    <3> QED
      BY <3>1
  <2>2. ASSUME NEW n \in Nat, n \in S
        PROVE  n + 1 \in S
    <3>1. PICK g : Sums(g, n)
      BY <2>2
    <3> DEFINE k == [i \in 0 .. n + 1 |-> IF i = 0 THEN 0 ELSE g[i - 1] + f[i]]
    <3>2. ASSUME NEW i \in 0 .. n
          PROVE  k[i] = g[i]
      <4>1. g[i] = IF i = 0 THEN 0 ELSE g[i - 1] + f[i]
        <5> HIDE DEF Sums
        <5> QED
          BY <1>1, <3>1
      <4> QED
        BY <4>1
    <3>3. ASSUME NEW i \in 0 .. n + 1
          PROVE  k[i] = IF i = 0 THEN 0 ELSE k[i - 1] + f[i]
      <4>1. CASE i = 0
        BY <4>1
      <4>2. CASE i # 0
        <5>1. i - 1 \in 0 .. n /\ k[i] = g[i - 1] + f[i]
          BY <4>2
        <5> HIDE DEF k
        <5> QED
          BY <3>2, <4>2, <5>1
      <4> QED
        BY <4>1, <4>2
    <3>4. k = [i \in 0 .. n + 1 |-> k[i]]
      OBVIOUS
    <3>5. Sums(k, n + 1)
      <4> HIDE DEF k
      <4> QED
        BY <3>3, <3>4
    <3> HIDE DEF Sums, k
    <3> QED
      BY <3>5
  <2> HIDE DEF S
  <2>3. \A n \in Nat : n \in S
    BY <2>1, <2>2, NumbersByInduction
  <2> QED
    BY <2>3 DEF S
<1>3. \A n \in Nat : Sums(CHOOSE g : Sums(g, n), n)
  <2> HIDE DEF Sums
  <2> QED
    BY <1>2
\* Two of these functions agree where both are defined.
<1>4. \A n \in Nat : \A m \in Nat : \A g, k : n <= m /\ Sums(g, n) /\ Sums(k, m) => g[n] = k[n]
  <2> DEFINE S == {n \in Nat : \A q, m \in Nat : \A g, k :
                     n <= q /\ n <= m /\ Sums(g, q) /\ Sums(k, m) => g[n] = k[n]}
  <2> HIDE DEF Sums
  <2>1. 0 \in S
    <3>1. ASSUME NEW q \in Nat, NEW g, Sums(g, q)
          PROVE  g[0] = 0
      BY <1>1, <3>1
    <3> QED
      BY <3>1
  <2>2. ASSUME NEW n \in Nat, n \in S
        PROVE  n + 1 \in S
    <3>1. ASSUME NEW q \in Nat, NEW g, Sums(g, q), n + 1 <= q
          PROVE  g[n + 1] = g[n] + f[n + 1]
      <4>1. n + 1 \in 0 .. q /\ n + 1 # 0 /\ (n + 1) - 1 = n
        BY <3>1
      <4>2. g[n + 1] = IF n + 1 = 0 THEN 0 ELSE g[(n + 1) - 1] + f[n + 1]
        BY <1>1, <3>1, <4>1
      <4> QED
        BY <4>1, <4>2
    <3>2. ASSUME NEW q \in Nat, NEW m \in Nat, NEW g, NEW k,
                 n + 1 <= q, n + 1 <= m, Sums(g, q), Sums(k, m)
          PROVE  g[n + 1] = k[n + 1]
      <4>1. n <= q /\ n <= m
        BY <3>2
      <4>2. g[n] = k[n]
        BY <2>2, <3>2, <4>1
      <4> QED
        BY <3>1, <3>2, <4>2
    <3> QED
      BY <3>2
  <2>3. \A n \in Nat : n \in S
    <3> HIDE DEF S
    <3> QED
      BY <2>1, <2>2, NumbersByInduction
  <2> QED
    BY <2>3
<1>5. h[0] = 0 /\ \A n \in Nat : h[n + 1] = h[n] + f[n + 1]
  <2> DEFINE G(n) == CHOOSE g : Sums(g, n)
  <2>1. \A n \in Nat : Sums(G(n), n) /\ h[n] = G(n)[n]
    BY <1>3
  <2> HIDE DEF Sums, G, h
  <2>2. h[0] = 0
    BY <1>1, <2>1
  <2>3. ASSUME NEW n \in Nat
        PROVE  h[n + 1] = h[n] + f[n + 1]
    <3>1. n + 1 \in Nat /\ n + 1 \in 0 .. n + 1 /\ n + 1 # 0 /\ (n + 1) - 1 = n /\ n <= n + 1
      OBVIOUS
    <3>2. Sums(G(n + 1), n + 1) /\ Sums(G(n), n)
      BY <2>1, <3>1
    <3>3. G(n + 1)[n + 1] = IF n + 1 = 0 THEN 0 ELSE G(n + 1)[(n + 1) - 1] + f[n + 1]
      BY <1>1, <3>1, <3>2
    <3>4. G(n)[n] = G(n + 1)[n]
      BY <1>4, <3>1, <3>2
    <3> QED
      BY <2>1, <3>1, <3>3, <3>4
  <2> QED
    BY <2>2, <2>3
<1>6. h = [n \in Nat |-> IF n = 0 THEN 0 ELSE h[n - 1] + f[n]]
  <2>1. ASSUME NEW n \in Nat
        PROVE  h[n] = IF n = 0 THEN 0 ELSE h[n - 1] + f[n]
    <3>1. CASE n = 0
      <4> HIDE DEF h
      <4> QED BY <1>5, <3>1
    <3>2. CASE n # 0
      <4>1. n - 1 \in Nat /\ (n - 1) + 1 = n
        BY <3>2
      <4> HIDE DEF h
      <4> QED
        BY <1>5, <3>2, <4>1
    <3> QED
      BY <3>1, <3>2
  <2>2. h = [n \in Nat |-> h[n]]
    OBVIOUS
  <2> HIDE DEF h
  <2> QED
    BY <2>1, <2>2
<1> DEFINE sum[n \in Nat] == IF n = 0 THEN 0 ELSE sum[n - 1] + f[n]
<1>7. sum = [n \in Nat |-> IF n = 0 THEN 0 ELSE sum[n - 1] + f[n]]
  <2> SUFFICES \E g : g = [n \in Nat |-> IF n = 0 THEN 0 ELSE g[n - 1] + f[n]]
    OBVIOUS
  <2> HIDE DEF h
  <2> QED
    BY <1>6
<1>8. \A n : Total(f, n) = sum[n]
  BY DEF Total
<1> HIDE DEF sum
<1>9. sum[0] = 0 /\ \A n \in Nat : sum[n + 1] = sum[n] + f[n + 1]
  <2>1. \A n \in Nat : sum[n] = IF n = 0 THEN 0 ELSE sum[n - 1] + f[n]
    <3> DEFINE k == [n \in Nat |-> IF n = 0 THEN 0 ELSE sum[n - 1] + f[n]]
    <3>1. \A n \in Nat : k[n] = IF n = 0 THEN 0 ELSE sum[n - 1] + f[n]
      OBVIOUS
    <3>2. sum = k
      BY <1>7
    <3> HIDE DEF k
    <3> QED
      BY <3>1, <3>2
  <2>2. ASSUME NEW n \in Nat
        PROVE  sum[n + 1] = sum[n] + f[n + 1]
    <3>1. n + 1 \in Nat /\ n + 1 # 0 /\ (n + 1) - 1 = n
      OBVIOUS
    <3> QED
      BY <2>1, <3>1
  <2> QED
    BY <2>1, <2>2
<1> QED
  BY <1>8, <1>9

\* Sums of the same terms.
LEMMA TotalAgrees ==
  ASSUME NEW n \in Nat, NEW f, NEW g, \A i \in 1 .. n : f[i] = g[i]
  PROVE  Total(f, n) = Total(g, n)
<1> DEFINE S == {k \in Nat : k <= n => Total(f, k) = Total(g, k)}
<1>1. 0 \in S
  <2>1. Total(f, 0) = 0 /\ Total(g, 0) = 0
    BY TotalSteps
  <2> QED
    BY <2>1
<1>2. ASSUME NEW k \in Nat, k \in S
      PROVE  k + 1 \in S
  <2>1. ASSUME k + 1 <= n
        PROVE  Total(f, k + 1) = Total(g, k + 1)
    <3>1. k + 1 \in 1 .. n /\ k <= n
      BY <2>1
    <3>2. /\ Total(f, k + 1) = Total(f, k) + f[k + 1]
          /\ Total(g, k + 1) = Total(g, k) + g[k + 1]
      BY TotalSteps
    <3> QED
      BY <1>2, <3>1, <3>2
  <2> QED
    BY <2>1
<1> HIDE DEF S
<1>3. n \in S
  BY <1>1, <1>2, NumbersByInduction
<1> QED
  BY <1>3 DEF S

\* A sum of numbers is a number.
LEMMA TotalIsNumber ==
  ASSUME NEW n \in Nat, NEW f, \A i \in 1 .. n : f[i] \in Nat
  PROVE  Total(f, n) \in Nat
<1> DEFINE S == {k \in Nat : k <= n => Total(f, k) \in Nat}
<1>1. 0 \in S
  BY TotalSteps
<1>2. ASSUME NEW k \in Nat, k \in S
      PROVE  k + 1 \in S
  <2>1. ASSUME k + 1 <= n
        PROVE  Total(f, k + 1) \in Nat
    <3>1. k + 1 \in 1 .. n /\ k <= n
      BY <2>1
    <3>2. Total(f, k + 1) = Total(f, k) + f[k + 1]
      BY TotalSteps
    <3> QED
      BY <1>2, <3>1, <3>2
  <2> QED
    BY <2>1
<1> HIDE DEF S
<1>3. n \in S
  BY <1>1, <1>2, NumbersByInduction
<1> QED
  BY <1>3 DEF S

\* Both clauses of the definition of Pow2.
LEMMA Pow2Steps ==
  Pow2[0] = 1 /\ \A n \in Nat : Pow2[n] \in Nat \ {0} /\ Pow2[n + 1] = 2 * Pow2[n]
<1> DEFINE Powers(g, n) == /\ g \in [0 .. n -> Nat] /\ g[0] = 1
                           /\ \A i \in 1 .. n : g[i] = 2 * g[i - 1]
           P(n) == CHOOSE g : Powers(g, n)
           h == [n \in Nat |-> P(n)[n]]
<1>1. \A n \in Nat : \E g : Powers(g, n)
  <2> DEFINE S == {n \in Nat : \E g : Powers(g, n)}
  <2>1. 0 \in S
    <3> DEFINE g == [i \in 0 .. 0 |-> 1]
    <3>1. Powers(g, 0)
      OBVIOUS
    <3> QED
      BY <3>1
  <2>2. ASSUME NEW n \in Nat, n \in S
        PROVE  n + 1 \in S
    <3>1. PICK g : Powers(g, n)
      BY <2>2
    <3> DEFINE k == [i \in 0 .. n + 1 |-> IF i = n + 1 THEN 2 * g[n] ELSE g[i]]
    <3>2. k \in [0 .. n + 1 -> Nat] /\ k[0] = 1
      BY <3>1
    <3>3. ASSUME NEW i \in 1 .. n + 1
          PROVE  k[i] = 2 * k[i - 1]
      BY <3>1
    <3>4. Powers(k, n + 1)
      <4> HIDE DEF k
      <4> QED
        BY <3>2, <3>3
    <3> HIDE DEF Powers, k
    <3> QED
      BY <3>4
  <2> HIDE DEF S
  <2>3. \A n \in Nat : n \in S
    BY <2>1, <2>2, NumbersByInduction
  <2> QED
    BY <2>3 DEF S
<1>2. \A n \in Nat : Powers(P(n), n)
  <2> HIDE DEF Powers
  <2> QED
    BY <1>1
<1>3. ASSUME NEW n \in Nat, NEW i \in Nat, i <= n
      PROVE  P(n)[i] = P(i)[i]
  <2> DEFINE S == {j \in Nat : j <= i => P(n)[j] = P(i)[j]}
  <2>1. Powers(P(n), n) /\ Powers(P(i), i)
    BY <1>2
  <2> HIDE DEF P
  <2>2. 0 \in S
    BY <2>1
  <2>3. ASSUME NEW j \in Nat, j \in S
        PROVE  j + 1 \in S
    BY <1>3, <2>1, <2>3
  <2> HIDE DEF S
  <2>4. i \in S
    BY <2>2, <2>3, NumbersByInduction
  <2> QED
    BY <2>4 DEF S
<1>4. h[0] = 1 /\ \A n \in Nat : h[n] \in Nat /\ h[n + 1] = 2 * h[n]
  <2>1. \A n \in Nat : h[n] = P(n)[n]
    OBVIOUS
  <2> HIDE DEF P, h
  <2>2. h[0] = 1
    BY <1>2, <2>1
  <2>3. ASSUME NEW n \in Nat
        PROVE  h[n] \in Nat /\ h[n + 1] = 2 * h[n]
    <3>1. n + 1 \in Nat /\ n + 1 \in 1 .. n + 1 /\ (n + 1) - 1 = n /\ n <= n + 1 /\ n \in 0 .. n
      OBVIOUS
    <3>2. P(n + 1)[n + 1] = 2 * P(n + 1)[n] /\ P(n)[n] \in Nat
      BY <1>2, <3>1
    <3> QED
      BY <1>3, <2>1, <3>1, <3>2
  <2> QED
    BY <2>2, <2>3
<1>5. h = [n \in Nat |-> IF n = 0 THEN 1 ELSE 2 * h[n - 1]]
  <2>1. ASSUME NEW n \in Nat
        PROVE  h[n] = IF n = 0 THEN 1 ELSE 2 * h[n - 1]
    <3>1. CASE n = 0
      <4> HIDE DEF h
      <4> QED BY <1>4, <3>1
    <3>2. CASE n # 0
      <4>1. n - 1 \in Nat /\ (n - 1) + 1 = n
        BY <3>2
      <4> HIDE DEF h
      <4> QED
        BY <1>4, <3>2, <4>1
    <3> QED
      BY <3>1, <3>2
  <2> HIDE DEF P
  <2>2. h = [n \in Nat |-> h[n]]
    OBVIOUS
  <2> HIDE DEF h
  <2> QED
    BY <2>1, <2>2
<1>6. Pow2 = [n \in Nat |-> IF n = 0 THEN 1 ELSE 2 * Pow2[n - 1]]
  <2> SUFFICES \E g : g = [n \in Nat |-> IF n = 0 THEN 1 ELSE 2 * g[n - 1]]
    BY DEF Pow2
  <2> HIDE DEF h
  <2> QED
    BY <1>5
<1>7. \A n \in Nat : Pow2[n] = IF n = 0 THEN 1 ELSE 2 * Pow2[n - 1]
  <2> DEFINE k == [n \in Nat |-> IF n = 0 THEN 1 ELSE 2 * Pow2[n - 1]]
  <2>1. \A n \in Nat : k[n] = IF n = 0 THEN 1 ELSE 2 * Pow2[n - 1]
    OBVIOUS
  <2>2. Pow2 = k
    BY <1>6
  <2> HIDE DEF k
  <2> QED
    BY <2>1, <2>2
<1>8. Pow2[0] = 1 /\ \A n \in Nat : Pow2[n + 1] = 2 * Pow2[n]
  <2>1. ASSUME NEW n \in Nat
        PROVE  Pow2[n + 1] = 2 * Pow2[n]
    <3>1. n + 1 \in Nat /\ n + 1 # 0 /\ (n + 1) - 1 = n
      OBVIOUS
    <3> QED
      BY <1>7, <3>1
  <2> QED
    BY <1>7, <2>1
<1>9. \A n \in Nat : n \in {i \in Nat : Pow2[i] \in Nat \ {0}}
  <2> DEFINE S == {i \in Nat : Pow2[i] \in Nat \ {0}}
  <2>1. 0 \in S /\ \A n \in Nat : n \in S => n + 1 \in S
    BY <1>8
  <2> HIDE DEF S
  <2> QED
    BY <2>1, NumbersByInduction DEF S
<1> QED
  BY <1>8, <1>9

\* Products of powers.
LEMMA Pow2Sum ==
  ASSUME NEW m \in Nat, NEW n \in Nat
  PROVE  Pow2[m + n] = Pow2[m] * Pow2[n]
<1> DEFINE S == {k \in Nat : Pow2[m + k] = Pow2[m] * Pow2[k]}
<1>1. 0 \in S
  BY Pow2Steps
<1>2. ASSUME NEW k \in Nat, k \in S
      PROVE  k + 1 \in S
  <2>1. m + k \in Nat /\ m + (k + 1) = (m + k) + 1
    OBVIOUS
  <2>2. /\ Pow2[m + (k + 1)] = 2 * Pow2[m + k] /\ Pow2[k + 1] = 2 * Pow2[k]
        /\ Pow2[m] \in Nat /\ Pow2[k] \in Nat
    BY <2>1, Pow2Steps
  <2>3. Pow2[m + k] = Pow2[m] * Pow2[k]
    BY <1>2
  <2>4. \A a, b \in Nat : 2 * (a * b) = a * (2 * b)
    OBVIOUS
  <2>5. 2 * (Pow2[m] * Pow2[k]) = Pow2[m] * (2 * Pow2[k])
    BY <2>2, <2>4
  <2> QED
    BY <2>2, <2>3, <2>5
<1> HIDE DEF S
<1>3. n \in S
  BY <1>1, <1>2, NumbersByInduction
<1> QED
  BY <1>3 DEF S

\* Quotient and remainder.
LEMMA Divides ==
  ASSUME NEW d \in Nat \ {0}, NEW low \in Nat, low < d, NEW high \in Nat
  PROVE  (low + d * high) \div d = high /\ (low + d * high) % d = low
OBVIOUS

\* The remainder of twice the divisor has one more bit.
LEMMA DividesTwice ==
  ASSUME NEW v \in Nat, NEW d \in Nat \ {0}
  PROVE  v % (2 * d) = (v % d) + d * ((v \div d) % 2)
<1> DEFINE low == v % d
           high == v \div d
           bit == high % 2
           rest == high \div 2
<1>1. low \in Nat /\ low < d /\ high \in Nat /\ v = low + d * high
  OBVIOUS
<1>2. bit \in Nat /\ bit < 2 /\ rest \in Nat /\ high = bit + 2 * rest
  BY <1>1
<1> HIDE DEF low, high, bit, rest
<1>3. v = low + d * (bit + 2 * rest)
  BY <1>1, <1>2
<1>4. low + d * (bit + 2 * rest) = (low + d * bit) + (2 * d) * rest
  BY <1>1, <1>2
<1>5. low + d * bit \in Nat /\ low + d * bit < 2 * d
  <2>1. bit = 0 \/ bit = 1
    BY <1>2
  <2> QED
    BY <1>1, <2>1
<1> DEFINE twice == 2 * d
           sum == low + d * bit
<1>6. twice \in Nat \ {0} /\ sum \in Nat /\ sum < twice /\ v = sum + twice * rest
  BY <1>3, <1>4, <1>5
<1>7. v % twice = sum
  <2> HIDE DEF twice, sum
  <2> QED
    BY <1>2, <1>6, Divides
<1> QED
  BY <1>7 DEF low, high, bit
=============================================================================
