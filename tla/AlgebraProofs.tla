--------------------------- MODULE AlgebraProofs ----------------------------
(***************************************************************************)
(* Four facts about the linear algebra, for every dimension and field.     *)
(*                                                                         *)
(* An elimination leaves a reduced matrix, and every step of it does to the*)
(* right hand side what it does to the matrix: so the right hand side times*)
(* the matrix it started from is the matrix it has come to (Eliminated).   *)
(* When all pivots are found that is the identity, and the right hand side *)
(* is a left inverse.  Each step can be undone too, so that the rows of the*)
(* matrix are combinations of the rows it has come to (Undone), and the    *)
(* left inverse is a right inverse.                                        *)
(*                                                                         *)
(* What is read off an elimination is so: the vectors of an image are as   *)
(* many as those of the pivots' coordinates, since a vector of the image   *)
(* is determined by them and any are taken (ImageCounted); and when one    *)
(* column is free the vector of that column spans the kernel               *)
(* (KernelReadOff).                                                        *)
(*                                                                         *)
(* A batch of inversions inverts every element it is given, or none: what  *)
(* is left of the product is always that of a prefix (DividedTo).          *)
(*                                                                         *)
(* A pair of matrices that expansion writes is a matrix and its inverse,   *)
(* wherever the two outputs lie.                                           *)
(***************************************************************************)
EXTENDS Elimination, BatchInverse, TrineExpand, NumberInduction, SequenceTheorems

-----------------------------------------------------------------------------
(* Sums.                                                                    *)

\* A sum is that of the terms before and the last one.
LEMMA SumSteps ==
  ASSUME NEW n \in Nat, NEW terms, \A k \in 0 .. n - 1 : terms[k] \in Int
  PROVE  /\ Sum(terms, 0) = 0 /\ Sum(terms, n) \in Int
         /\ \A k \in 0 .. n - 1 :
              Sum(terms, k) \in Int /\ Sum(terms, k + 1) = Sum(terms, k) + terms[k]
<1> DEFINE Value(g, k) == IF k = 0 THEN 0 ELSE g[k - 1] + terms[k - 1]
           IsSum(g, m) == g = [k \in 0 .. m |-> Value(g, k)]
           P(m) == CHOOSE g : IsSum(g, m)
<1>1. ASSUME NEW m \in Nat, NEW g, IsSum(g, m)
      PROVE  g[0] = 0 /\ \A k \in 1 .. m : g[k] = g[k - 1] + terms[k - 1]
  <2> DEFINE h == [k \in 0 .. m |-> Value(g, k)]
  <2>1. h[0] = 0 /\ \A k \in 1 .. m : h[k] = g[k - 1] + terms[k - 1]
    OBVIOUS
  <2>2. g = h
    BY <1>1
  <2> HIDE DEF h
  <2> QED
    BY <2>1, <2>2
<1>2. \A m \in Nat : \E g : IsSum(g, m)
  <2> DEFINE S == {m \in Nat : \E g : IsSum(g, m)}
  <2>1. 0 \in S
    <3> DEFINE g == [k \in 0 .. 0 |-> 0]
    <3>1. g = [k \in 0 .. 0 |-> Value(g, k)]
      OBVIOUS
    <3> QED
      BY <3>1
  <2>2. ASSUME NEW m \in Nat, m \in S
        PROVE  m + 1 \in S
    <3>1. PICK g : IsSum(g, m)
      BY <2>2
    <3>2. g[0] = 0 /\ \A k \in 1 .. m : g[k] = g[k - 1] + terms[k - 1]
      <4> HIDE DEF IsSum
      <4> QED
        BY <1>1, <3>1
    <3> DEFINE h == [k \in 0 .. m + 1 |-> IF k = m + 1 THEN g[m] + terms[m] ELSE g[k]]
    <3>3. ASSUME NEW k \in 0 .. m + 1
          PROVE  h[k] = Value(h, k)
      <4>1. CASE k = 0
        BY <3>2, <4>1
      <4>2. CASE k \in 1 .. m
        <5>1. h[k] = g[k] /\ h[k - 1] = g[k - 1]
          BY <4>2
        <5> HIDE DEF h
        <5> QED
          BY <3>2, <4>2, <5>1
      <4>3. CASE k = m + 1
        <5>1. h[m + 1] = g[m] + terms[m] /\ h[m] = g[m] /\ (m + 1) - 1 = m /\ m + 1 # 0
          OBVIOUS
        <5> HIDE DEF h
        <5> QED
          BY <4>3, <5>1
      <4> QED
        BY <4>1, <4>2, <4>3
    <3>4. h = [k \in 0 .. m + 1 |-> h[k]]
      OBVIOUS
    <3> HIDE DEF h, Value
    <3>5. h = [k \in 0 .. m + 1 |-> Value(h, k)]
      BY <3>3, <3>4
    <3> QED
      BY <3>5
  <2> HIDE DEF S
  <2>3. \A m \in Nat : m \in S
    BY <2>1, <2>2, NumbersByInduction
  <2> QED
    BY <2>3 DEF S
<1>3. \A m \in Nat : IsSum(P(m), m)
  <2> HIDE DEF IsSum
  <2> QED
    BY <1>2
<1>4. \A m \in Nat : /\ P(m)[0] = 0
                     /\ \A k \in 1 .. m : P(m)[k] = P(m)[k - 1] + terms[k - 1]
  <2> HIDE DEF IsSum, P
  <2> QED
    BY <1>1, <1>3
<1>5. \A m : Sum(terms, m) = P(m)[m]
  BY DEF Sum
<1> HIDE DEF P
<1>6. ASSUME NEW m \in Nat
      PROVE  \A k \in Nat : k <= m => P(m)[k] = P(k)[k]
  <2> DEFINE S == {k \in Nat : \A i \in Nat : k <= i => P(i)[k] = P(k)[k]}
  <2>1. 0 \in S
    BY <1>4
  <2>2. ASSUME NEW k \in Nat, k \in S
        PROVE  k + 1 \in S
    <3>1. ASSUME NEW i \in Nat, k + 1 <= i
          PROVE  P(i)[k + 1] = P(k + 1)[k + 1]
      <4>1. k + 1 \in 1 .. i /\ k + 1 \in 1 .. k + 1 /\ (k + 1) - 1 = k /\ k <= i /\ k <= k + 1
            /\ k + 1 \in Nat
        BY <3>1
      <4>2. P(i)[k] = P(k)[k] /\ P(k + 1)[k] = P(k)[k]
        BY <2>2, <4>1
      <4>3. P(i)[k + 1] = P(i)[k] + terms[k] /\ P(k + 1)[k + 1] = P(k + 1)[k] + terms[k]
        BY <1>4, <4>1
      <4> QED
        BY <4>2, <4>3
    <3> QED
      BY <3>1
  <2> HIDE DEF S
  <2>3. \A k \in Nat : k \in S
    BY <2>1, <2>2, NumbersByInduction
  <2> QED
    BY <2>3 DEF S
<1>7. ASSUME NEW k \in Nat
      PROVE  P(k + 1)[k + 1] = P(k)[k] + terms[k]
  <2>1. k + 1 \in 1 .. k + 1 /\ (k + 1) - 1 = k /\ k <= k + 1 /\ k + 1 \in Nat
    OBVIOUS
  <2>2. P(k + 1)[k + 1] = P(k + 1)[k] + terms[k]
    BY <1>4, <2>1
  <2> QED
    BY <1>6, <2>1, <2>2
<1>8. \A k \in Nat : k <= n => P(k)[k] \in Int
  <2> DEFINE S == {k \in Nat : k <= n => P(k)[k] \in Int}
  <2>1. 0 \in S
    BY <1>4
  <2>2. ASSUME NEW k \in Nat, k \in S
        PROVE  k + 1 \in S
    <3>1. ASSUME k + 1 <= n
          PROVE  P(k + 1)[k + 1] \in Int
      <4>1. k \in 0 .. n - 1 /\ k <= n
        BY <3>1
      <4> QED
        BY <1>7, <2>2, <4>1
    <3> QED
      BY <3>1
  <2> HIDE DEF S
  <2>3. \A k \in Nat : k \in S
    BY <2>1, <2>2, NumbersByInduction
  <2> QED
    BY <2>3 DEF S
<1>9. Sum(terms, 0) = 0 /\ Sum(terms, n) \in Int
  BY <1>4, <1>5, <1>8
<1>10. ASSUME NEW k \in 0 .. n - 1
       PROVE  Sum(terms, k) \in Int /\ Sum(terms, k + 1) = Sum(terms, k) + terms[k]
  BY <1>5, <1>7, <1>8
<1> QED
  BY <1>9, <1>10

-----------------------------------------------------------------------------
(* Remainders.                                                              *)

\* A remainder is a number below the divisor.
LEMMA Remainder ==
  ASSUME NEW d \in Nat \ {0}, NEW x \in Int
  PROVE  /\ x % d \in 0 .. d - 1 /\ x \div d \in Int /\ x = d * (x \div d) + (x % d)
OBVIOUS

\* What is left of a number that is a multiple and a small number.
LEMMA RemainderIs ==
  ASSUME NEW d \in Nat \ {0}, NEW m \in Int, NEW r \in 0 .. d - 1
  PROVE  (d * m + r) % d = r /\ (d * m + r) \div d = m
<1> DEFINE x == d * m + r
           k == x \div d
           s == x % d
           p == d * (k - m)
<1>1. x \in Int /\ s \in 0 .. d - 1 /\ k \in Int
  OBVIOUS
<1>2. d * k + s = d * m + r
  OBVIOUS
<1> HIDE DEF k, s
<1>3. p = r - s /\ p \in Int
  BY <1>1, <1>2
<1>4. k - m >= 1 => p >= d
  BY <1>1
<1>5. k - m <= -1 => p <= -d
  BY <1>1
<1> HIDE DEF p
<1>6. k - m = 0
  BY <1>1, <1>3, <1>4, <1>5
<1> QED
  BY <1>1, <1>2, <1>6 DEF k, s

\* Numbers of the same remainder differ by a multiple.
LEMMA SameRemainder ==
  ASSUME NEW d \in Nat \ {0}, NEW x \in Int, NEW y \in Int
  PROVE  x % d = y % d <=> \E m \in Int : x = y + d * m
<1>1. ASSUME x % d = y % d
      PROVE  \E m \in Int : x = y + d * m
  <2> DEFINE k == x \div d
             l == y \div d
             s == x % d
  <2>1. k \in Int /\ l \in Int /\ s \in Int /\ x = d * k + s /\ y = d * l + s
    BY <1>1, Remainder
  <2> HIDE DEF k, l, s
  <2>2. k - l \in Int /\ x = y + d * (k - l)
    BY <2>1
  <2> QED
    BY <2>2
<1>2. ASSUME NEW m \in Int, x = y + d * m
      PROVE  x % d = y % d
  <2> DEFINE l == y \div d
             s == y % d
  <2>1. l \in Int /\ s \in 0 .. d - 1 /\ y = d * l + s
    BY Remainder
  <2> HIDE DEF l
  <2>2. x = d * (l + m) + s /\ l + m \in Int
    <3> HIDE DEF s
    <3> QED
      BY <1>2, <2>1
  <2>3. (d * (l + m) + s) % d = s
    BY <2>1, <2>2, RemainderIs
  <2> QED
    BY <2>2, <2>3
<1> QED
  BY <1>1, <1>2

\* A remainder is its own remainder.
LEMMA RemainderTwice ==
  ASSUME NEW d \in Nat \ {0}, NEW x \in Int
  PROVE  x % d \in Int /\ (x % d) % d = x % d
<1>1. x % d \in 0 .. d - 1 /\ x % d \in Int
  BY Remainder
<1>2. (d * 0 + (x % d)) % d = x % d
  BY <1>1, RemainderIs, SMTT(30)
<1> QED
  BY <1>1, <1>2

\* The operands may be reduced first.
LEMMA ReducedFirst ==
  ASSUME NEW d \in Nat \ {0}, NEW a \in Int, NEW b \in Int
  PROVE  /\ (a + b) % d = ((a % d) + (b % d)) % d
         /\ (a - b) % d = ((a % d) - (b % d)) % d
         /\ (a * b) % d = ((a % d) * (b % d)) % d
<1> DEFINE x == a % d
           y == b % d
           m == a \div d
           n == b \div d
<1>1. x \in Int /\ y \in Int /\ m \in Int /\ n \in Int
  BY Remainder
<1>2. a = x + d * m /\ b = y + d * n
  BY Remainder
<1> HIDE DEF x, y, m, n
<1>3. m + n \in Int /\ m - n \in Int
  BY <1>1
<1>4. a + b = (x + y) + d * (m + n) /\ a - b = (x - y) + d * (m - n)
  BY <1>1, <1>2
<1> DEFINE p == x * n + m * y + d * (m * n)
<1>5. p \in Int
  BY <1>1
<1>6. a * b = x * y + d * p
  <2>1. a * b = (x + d * m) * (y + d * n)
    BY <1>1, <1>2
  <2>2. (x + d * m) * (y + d * n) = x * y + d * (x * n + m * y + d * (m * n))
    BY <1>1
  <2> QED
    BY <2>1, <2>2
<1>7. PICK e \in Int : a * b = x * y + d * e
  BY <1>5, <1>6
<1> HIDE DEF p
<1>8. \A f, g \in Int : (\E i \in Int : f = g + d * i) => f % d = g % d
  BY SameRemainder
<1>9. (a + b) % d = (x + y) % d
  <2> DEFINE k == m + n
             u == a + b
             v == x + y
  <2>1. k \in Int /\ u \in Int /\ v \in Int /\ u = v + d * k
    BY <1>1, <1>4
  <2> HIDE DEF k, u, v
  <2>2. u % d = v % d
    BY <2>1, <1>8
  <2> QED
    BY <2>2 DEF u, v
<1>10. (a - b) % d = (x - y) % d
  <2> DEFINE k == m - n
             u == a - b
             v == x - y
  <2>1. k \in Int /\ u \in Int /\ v \in Int /\ u = v + d * k
    BY <1>1, <1>4
  <2> HIDE DEF k, u, v
  <2>2. u % d = v % d
    BY <2>1, <1>8
  <2> QED
    BY <2>2 DEF u, v
<1>11. (a * b) % d = (x * y) % d
  <2> DEFINE u == a * b
             v == x * y
  <2>1. u \in Int /\ v \in Int /\ u = v + d * e
    BY <1>1, <1>7
  <2> HIDE DEF u, v
  <2>2. u % d = v % d
    BY <2>1, <1>8
  <2> QED
    BY <2>2 DEF u, v
<1> QED
  BY <1>9, <1>10, <1>11 DEF x, y

\* A number below the divisor is its own remainder.
LEMMA RemainderOfSmall ==
  ASSUME NEW d \in Nat \ {0}, NEW x \in 0 .. d - 1
  PROVE  x % d = x
<1>1. (d * 0 + x) % d = x
  BY RemainderIs
<1> QED
  BY <1>1

-----------------------------------------------------------------------------
(* Sums of remainders, and what Dot does with a row of a combination.       *)

\* The terms s agree with a combination of t and u, up to multiples of d.
Combines(d, n, a, b, s, t, u) ==
  \A k \in 0 .. n - 1 :
    /\ s[k] \in Int /\ t[k] \in Int /\ u[k] \in Int
    /\ s[k] % d = (a * t[k] + b * u[k]) % d

\* Then their sum is that combination of the sums.
LEMMA SumCombines ==
  ASSUME NEW d \in Nat \ {0}, NEW n \in Nat, NEW a \in Int, NEW b \in Int,
         NEW s, NEW t, NEW u, Combines(d, n, a, b, s, t, u)
  PROVE  Sum(s, n) % d = (a * Sum(t, n) + b * Sum(u, n)) % d
<1> DEFINE Holds(k) == Sum(s, k) % d = (a * Sum(t, k) + b * Sum(u, k)) % d
           S == {k \in Nat : k <= n => Holds(k)}
<1>1. /\ Sum(s, 0) = 0 /\ Sum(t, 0) = 0 /\ Sum(u, 0) = 0
      /\ \A k \in 0 .. n - 1 :
           /\ Sum(s, k) \in Int /\ Sum(s, k + 1) = Sum(s, k) + s[k]
           /\ Sum(t, k) \in Int /\ Sum(t, k + 1) = Sum(t, k) + t[k]
           /\ Sum(u, k) \in Int /\ Sum(u, k + 1) = Sum(u, k) + u[k]
  BY SumSteps DEF Combines
<1>2. 0 \in S
  <2>1. a * 0 + b * 0 = 0
    OBVIOUS
  <2> QED
    BY <1>1, <2>1
<1>3. ASSUME NEW k \in Nat, k \in S
      PROVE  k + 1 \in S
  <2>1. ASSUME k + 1 <= n
        PROVE  Holds(k + 1)
    <3>1. k \in 0 .. n - 1 /\ Holds(k)
      BY <1>3, <2>1
    <3> DEFINE p == Sum(s, k)
               q == Sum(t, k)
               r == Sum(u, k)
    <3>2. p \in Int /\ q \in Int /\ r \in Int /\ s[k] \in Int /\ t[k] \in Int /\ u[k] \in Int
      BY <1>1, <3>1 DEF Combines
    <3>3. p % d = (a * q + b * r) % d /\ s[k] % d = (a * t[k] + b * u[k]) % d
      BY <3>1 DEF Combines
    <3>4. Sum(s, k + 1) = p + s[k] /\ Sum(t, k + 1) = q + t[k] /\ Sum(u, k + 1) = r + u[k]
      BY <1>1, <3>1
    <3> HIDE DEF p, q, r, Holds
    <3> DEFINE x == a * q + b * r
               y == a * t[k] + b * u[k]
    <3>5. x \in Int /\ y \in Int
      BY <3>2
    <3>6. x + y = a * (q + t[k]) + b * (r + u[k])
      BY <3>2
    <3> HIDE DEF x, y
    <3>7. p % d = x % d /\ s[k] % d = y % d
      BY <3>3 DEF x, y
    <3>8. (p + s[k]) % d = ((p % d) + (s[k] % d)) % d
      BY <3>2, ReducedFirst
    <3>9. (x + y) % d = ((x % d) + (y % d)) % d
      BY <3>5, ReducedFirst
    <3> QED
      BY <3>4, <3>6, <3>7, <3>8, <3>9 DEF Holds
  <2> QED
    BY <2>1
<1> HIDE DEF S, Holds
<1>4. \A k \in Nat : k \in S
  BY <1>2, <1>3, NumbersByInduction
<1> QED
  BY <1>4 DEF S, Holds

\* The field has 0 and 1, and its operations stay in it.
LEMMA FieldFacts ==
  /\ Q \in Nat /\ Q > 1 /\ Q \in Nat \ {0} /\ N \in Nat /\ N >= 1 /\ 0 \in Fq /\ 1 \in Fq
  /\ Fq \subseteq Int /\ 0 \in Index
  /\ \A x \in Int : x % Q \in Fq
  /\ \A x, y \in Fq : GF_mul(x, y) \in Fq /\ GF_sub(x, y) \in Fq /\ GF_neg(x) \in Fq
<1>1. Q \in Nat /\ Q > 1 /\ Q \in Nat \ {0} /\ N \in Nat /\ N >= 1
  BY FieldAssumption
<1>2. 0 \in Fq /\ 1 \in Fq /\ Fq \subseteq Int /\ 0 \in Index
  BY <1>1 DEF Fq, Index
<1>3. \A x \in Int : x % Q \in Fq
  BY <1>1, Remainder DEF Fq
<1>4. \A x, y \in Fq : x * y \in Int /\ x - y \in Int
  BY <1>2
<1>5. \A x, y \in Fq : GF_mul(x, y) \in Fq /\ GF_sub(x, y) \in Fq /\ GF_neg(x) \in Fq
  <2>1. \A x, y \in Fq : GF_mul(x, y) \in Fq /\ GF_sub(x, y) \in Fq
    BY <1>3, <1>4 DEF GF_mul, GF_sub
  <2>2. \A x \in Fq : GF_neg(x) \in Fq
    BY <1>1 DEF GF_neg, Fq
  <2> QED
    BY <2>1, <2>2
<1> QED
  BY <1>1, <1>2, <1>3, <1>5

\* The terms of a Dot, and its value.
LEMMA DotTerms ==
  ASSUME NEW a \in [Index -> Int], NEW b \in [Index -> Int]
  PROVE  LET t == [k \in Index |-> a[k] * b[k]]
         IN /\ \A k \in 0 .. N - 1 : t[k] = a[k] * b[k] /\ t[k] \in Int
            /\ Sum(t, N) \in Int /\ Dot(a, b) = Sum(t, N) % Q /\ Dot(a, b) \in Fq
<1> DEFINE t == [k \in Index |-> a[k] * b[k]]
<1>1. \A k \in 0 .. N - 1 : t[k] = a[k] * b[k] /\ t[k] \in Int
  BY DEF Index
<1>2. Sum(t, N) \in Int
  <2> HIDE DEF t
  <2> QED
    BY <1>1, FieldFacts, SumSteps
<1>3. Dot(a, b) = Sum(t, N) % Q
  BY DEF Dot, Accumulated
<1> HIDE DEF t
<1>4. Dot(a, b) \in Fq
  BY <1>2, <1>3, FieldFacts
<1> QED
  BY <1>1, <1>2, <1>3, <1>4 DEF t

\* With every vector, the Dot of c is the combination of the Dots of a and b.
DotsCombine(x, y, c, a, b) ==
  \A v \in [Index -> Int] : Dot(c, v) = (x * Dot(a, v) + y * Dot(b, v)) % Q

\* A Dot with a combination of two vectors, reduced or not.
LEMMA DotCombines ==
  ASSUME NEW x \in Int, NEW y \in Int,
         NEW a \in [Index -> Int], NEW b \in [Index -> Int], NEW c \in [Index -> Int],
         Combines(Q, N, x, y, c, a, b)
  PROVE  DotsCombine(x, y, c, a, b)
<1> SUFFICES ASSUME NEW v \in [Index -> Int]
             PROVE  Dot(c, v) = (x * Dot(a, v) + y * Dot(b, v)) % Q
  BY DEF DotsCombine
<1> DEFINE s == [k \in Index |-> c[k] * v[k]]
           t == [k \in Index |-> a[k] * v[k]]
           u == [k \in Index |-> b[k] * v[k]]
<1>1. /\ \A k \in 0 .. N - 1 : s[k] = c[k] * v[k] /\ s[k] \in Int
      /\ Sum(s, N) \in Int /\ Dot(c, v) = Sum(s, N) % Q /\ Dot(c, v) \in Fq
  BY DotTerms
<1>2. /\ \A k \in 0 .. N - 1 : t[k] = a[k] * v[k] /\ t[k] \in Int
      /\ Sum(t, N) \in Int /\ Dot(a, v) = Sum(t, N) % Q /\ Dot(a, v) \in Fq
  BY DotTerms
<1>3. /\ \A k \in 0 .. N - 1 : u[k] = b[k] * v[k] /\ u[k] \in Int
      /\ Sum(u, N) \in Int /\ Dot(b, v) = Sum(u, N) % Q /\ Dot(b, v) \in Fq
  BY DotTerms
<1>4. Q \in Nat \ {0} /\ N \in Nat /\ Fq \subseteq Int
  BY FieldFacts
<1> HIDE DEF s, t, u
<1>5. ASSUME NEW k \in 0 .. N - 1
      PROVE  s[k] % Q = (x * t[k] + y * u[k]) % Q
  <2>1. k \in Index /\ c[k] \in Int /\ v[k] \in Int /\ a[k] \in Int /\ b[k] \in Int
    BY DEF Index
  <2> DEFINE e == x * a[k] + y * b[k]
  <2>2. e \in Int /\ e * v[k] = x * (a[k] * v[k]) + y * (b[k] * v[k])
    BY <2>1
  <2>3. c[k] % Q = e % Q
    BY DEF Combines
  <2> HIDE DEF e
  <2>4. (c[k] * v[k]) % Q = ((c[k] % Q) * (v[k] % Q)) % Q
    BY <1>4, <2>1, ReducedFirst
  <2>5. (e * v[k]) % Q = ((e % Q) * (v[k] % Q)) % Q
    BY <1>4, <2>1, <2>2, ReducedFirst
  <2> QED
    BY <1>1, <1>2, <1>3, <2>2, <2>3, <2>4, <2>5
<1>6. Sum(s, N) % Q = (x * Sum(t, N) + y * Sum(u, N)) % Q
  <2>1. \A k \in 0 .. N - 1 : s[k] \in Int /\ t[k] \in Int /\ u[k] \in Int
    BY <1>1, <1>2, <1>3
  <2>2. Combines(Q, N, x, y, s, t, u)
    BY <1>5, <2>1 DEF Combines
  <2> QED
    BY <1>4, <2>2, SumCombines
<1> DEFINE p == Sum(t, N)
           q == Sum(u, N)
           f == Dot(a, v)
           g == Dot(b, v)
<1>7. p \in Int /\ q \in Int /\ f \in Int /\ g \in Int /\ f % Q = p % Q /\ g % Q = q % Q
  BY <1>2, <1>3, <1>4, RemainderTwice
<1>8. Dot(c, v) = (x * p + y * q) % Q
  BY <1>1, <1>6
<1> HIDE DEF p, q, f, g
<1>9. (x * p + y * q) % Q = (x * f + y * g) % Q
  <2>1. (x * p) % Q = ((x % Q) * (p % Q)) % Q /\ (x * f) % Q = ((x % Q) * (f % Q)) % Q
    BY <1>4, <1>7, ReducedFirst
  <2>2. (y * q) % Q = ((y % Q) * (q % Q)) % Q /\ (y * g) % Q = ((y % Q) * (g % Q)) % Q
    BY <1>4, <1>7, ReducedFirst
  <2> DEFINE i == x * p
             j == y * q
             k == x * f
             l == y * g
  <2>3. i \in Int /\ j \in Int /\ k \in Int /\ l \in Int
    BY <1>7
  <2>4. i % Q = k % Q /\ j % Q = l % Q
    BY <1>7, <2>1, <2>2
  <2> HIDE DEF i, j, k, l
  <2>5. (i + j) % Q = ((i % Q) + (j % Q)) % Q /\ (k + l) % Q = ((k % Q) + (l % Q)) % Q
    BY <1>4, <2>3, ReducedFirst
  <2>6. (i + j) % Q = (k + l) % Q
    BY <2>4, <2>5
  <2> QED
    BY <2>6 DEF i, j, k, l
<1> QED
  BY <1>8, <1>9 DEF f, g

-----------------------------------------------------------------------------
(* Rows as the elimination changes them.                                   *)

\* Scaling a row multiplies its elements, modulo Q.
LEMMA RowScaled ==
  ASSUME NEW u \in Vectors, NEW f \in Fq, NEW v \in Vectors
  PROVE  /\ [c \in Index |-> GF_mul(u[c], f)] \in Vectors
         /\ Dot([c \in Index |-> GF_mul(u[c], f)], v) = GF_mul(Dot(u, v), f)
<1> DEFINE w == [c \in Index |-> GF_mul(u[c], f)]
<1>1. /\ Q \in Nat \ {0} /\ N \in Nat /\ f \in Int /\ Dot(u, v) \in Fq /\ Dot(u, v) \in Int
      /\ u \in [Index -> Int] /\ v \in [Index -> Int]
  <2>1. u \in [Index -> Int] /\ v \in [Index -> Int]
    BY FieldFacts DEF Vectors
  <2> QED
    BY <2>1, FieldFacts, DotTerms
<1>2. \A k \in Index : u[k] \in Fq /\ u[k] \in Int /\ w[k] \in Fq /\ w[k] = (u[k] * f) % Q
  BY FieldFacts DEF Vectors, GF_mul
<1>3. w \in Vectors /\ w \in [Index -> Int]
  BY <1>2, FieldFacts DEF Vectors
<1> HIDE DEF w
<1>4. Combines(Q, N, f, 0, w, u, u)
  <2>1. ASSUME NEW k \in 0 .. N - 1
        PROVE  /\ w[k] \in Int /\ u[k] \in Int
               /\ w[k] % Q = (f * u[k] + 0 * u[k]) % Q
    <3>1. k \in Index /\ u[k] \in Int /\ w[k] \in Int
      BY <1>2, <1>3 DEF Index
    <3>2. u[k] * f = f * u[k] + 0 * u[k] /\ u[k] * f \in Int
      BY <1>1, <3>1
    <3> QED
      BY <1>1, <1>2, <3>1, <3>2, RemainderTwice
  <2> QED
    BY <2>1 DEF Combines
<1>5. Dot(w, v) = (f * Dot(u, v) + 0 * Dot(u, v)) % Q
  <2>1. DotsCombine(f, 0, w, u, u)
    BY <1>1, <1>3, <1>4, DotCombines
  <2> QED
    BY <1>1, <1>3, <2>1 DEF DotsCombine
<1>6. f * Dot(u, v) + 0 * Dot(u, v) = Dot(u, v) * f
  BY <1>1
<1> QED
  BY <1>3, <1>5, <1>6 DEF w, GF_mul

\* Subtracting a multiple of another row does so element by element.
LEMMA RowReduced ==
  ASSUME NEW u \in Vectors, NEW f \in Fq, NEW w \in Vectors, NEW v \in Vectors
  PROVE  /\ [c \in Index |-> GF_sub(u[c], GF_mul(f, w[c]))] \in Vectors
         /\ Dot([c \in Index |-> GF_sub(u[c], GF_mul(f, w[c]))], v)
              = GF_sub(Dot(u, v), GF_mul(f, Dot(w, v)))
<1> DEFINE s == [c \in Index |-> GF_sub(u[c], GF_mul(f, w[c]))]
           g == 0 - f
<1>1. /\ Q \in Nat \ {0} /\ N \in Nat /\ f \in Int /\ g \in Int
      /\ Dot(u, v) \in Int /\ Dot(w, v) \in Int
      /\ u \in [Index -> Int] /\ v \in [Index -> Int] /\ w \in [Index -> Int]
  <2>1. u \in [Index -> Int] /\ v \in [Index -> Int] /\ w \in [Index -> Int]
    BY FieldFacts DEF Vectors
  <2>2. Dot(u, v) \in Fq /\ Dot(w, v) \in Fq
    BY <2>1, DotTerms
  <2>3. Q \in Nat \ {0} /\ N \in Nat /\ f \in Int /\ Fq \subseteq Int
    BY FieldFacts
  <2>4. g \in Int
    BY <2>3
  <2> HIDE DEF s, g
  <2>5. Dot(u, v) \in Int /\ Dot(w, v) \in Int
    BY <2>2, <2>3
  <2> QED
    BY <2>1, <2>3, <2>4, <2>5
<1>2. ASSUME NEW x \in Int, NEW y \in Int
      PROVE  GF_sub(x, GF_mul(f, y)) = (1 * x + g * y) % Q
  <2> DEFINE p == f * y
  <2>1. p \in Int /\ 1 * x + g * y = x - p
    BY <1>1
  <2> HIDE DEF p
  <2>2. (x - p) % Q = ((x % Q) - (p % Q)) % Q
    BY <1>1, <2>1, ReducedFirst
  <2>3. p % Q \in Int /\ (p % Q) % Q = p % Q
    BY <1>1, <2>1, RemainderTwice
  <2> DEFINE r == p % Q
  <2>4. r \in Int /\ r % Q = p % Q
    BY <2>3
  <2> HIDE DEF r
  <2>5. (x - r) % Q = ((x % Q) - (r % Q)) % Q
    BY <1>1, <2>4, ReducedFirst
  <2>6. GF_sub(x, GF_mul(f, y)) = (x - r) % Q
    BY DEF GF_sub, GF_mul, p, r
  <2> QED
    BY <2>1, <2>2, <2>4, <2>5, <2>6
<1>3. \A k \in Index : /\ u[k] \in Fq /\ u[k] \in Int /\ w[k] \in Fq /\ w[k] \in Int
                       /\ s[k] \in Fq /\ s[k] = GF_sub(u[k], GF_mul(f, w[k]))
  BY FieldFacts DEF Vectors
<1>4. s \in Vectors /\ s \in [Index -> Int]
  BY <1>3, FieldFacts DEF Vectors
<1> HIDE DEF s, g
<1>5. Combines(Q, N, 1, g, s, u, w)
  <2>1. ASSUME NEW k \in 0 .. N - 1
        PROVE  /\ s[k] \in Int /\ u[k] \in Int /\ w[k] \in Int
               /\ s[k] % Q = (1 * u[k] + g * w[k]) % Q
    <3>1. k \in Index /\ u[k] \in Int /\ w[k] \in Int /\ s[k] \in Int
      BY <1>3, <1>4 DEF Index
    <3> DEFINE e == 1 * u[k] + g * w[k]
    <3>2. e \in Int
      BY <1>1, <3>1
    <3>3. s[k] = e % Q
      BY <1>2, <1>3, <3>1
    <3> HIDE DEF e
    <3>4. s[k] % Q = e % Q
      BY <1>1, <3>2, <3>3, RemainderTwice
    <3> QED
      BY <3>1, <3>4 DEF e
  <2> QED
    BY <2>1 DEF Combines
<1>6. Dot(s, v) = (1 * Dot(u, v) + g * Dot(w, v)) % Q
  <2> DEFINE one == 1
  <2>1. one \in Int /\ Combines(Q, N, one, g, s, u, w)
    BY <1>5
  <2> HIDE DEF one
  <2>2. Dot(s, v) = (one * Dot(u, v) + g * Dot(w, v)) % Q
    <3>1. DotsCombine(one, g, s, u, w)
      BY <1>1, <1>4, <2>1, DotCombines
    <3> QED
      BY <1>1, <3>1 DEF DotsCombine
  <2> QED
    BY <2>2 DEF one
<1>7. GF_sub(Dot(u, v), GF_mul(f, Dot(w, v))) = (1 * Dot(u, v) + g * Dot(w, v)) % Q
  BY <1>1, <1>2
<1> QED
  BY <1>4, <1>6, <1>7 DEF s

\* A row of the identity picks an element.
LEMMA UnitRow ==
  ASSUME NEW i \in Index, NEW v \in Vectors
  PROVE  Dot(pmod_mat_identity[i], v) = v[i]
<1> DEFINE e == pmod_mat_identity[i]
           t == [k \in Index |-> e[k] * v[k]]
<1>1. /\ e \in [Index -> Int] /\ v \in [Index -> Int]
      /\ \A k \in Index : e[k] = (IF i = k THEN 1 ELSE 0) /\ v[k] \in Fq
  BY FieldFacts DEF pmod_mat_identity, Vectors
<1>2. /\ \A k \in 0 .. N - 1 : t[k] = e[k] * v[k] /\ t[k] \in Int
      /\ Sum(t, N) \in Int /\ Dot(e, v) = Sum(t, N) % Q
  BY <1>1, DotTerms
<1> HIDE DEF e
<1>3. \A k \in 0 .. N - 1 : t[k] = (IF i = k THEN v[i] ELSE 0)
  <2>1. \A k \in 0 .. N - 1 : k \in Index /\ v[k] \in Int
    BY <1>1, FieldFacts DEF Index
  <2> QED
    BY <1>1, <1>2, <2>1
<1> HIDE DEF t
<1>4. /\ Sum(t, 0) = 0
      /\ \A k \in 0 .. N - 1 : Sum(t, k) \in Int /\ Sum(t, k + 1) = Sum(t, k) + t[k]
  BY <1>2, FieldFacts, SumSteps
<1>5. v[i] \in Int /\ N \in Nat /\ i \in 0 .. N - 1 /\ v[i] \in 0 .. Q - 1 /\ Q \in Nat \ {0}
  BY <1>1, FieldFacts DEF Index, Fq
<1> DEFINE S == {k \in Nat : k <= N => Sum(t, k) = (IF k > i THEN v[i] ELSE 0)}
<1>6. 0 \in S
  BY <1>4, <1>5
<1>7. ASSUME NEW k \in Nat, k \in S
      PROVE  k + 1 \in S
  <2>1. ASSUME k + 1 <= N
        PROVE  Sum(t, k + 1) = (IF k + 1 > i THEN v[i] ELSE 0)
    <3>1. k \in 0 .. N - 1 /\ Sum(t, k) = (IF k > i THEN v[i] ELSE 0)
      BY <1>5, <1>7, <2>1
    <3>2. Sum(t, k + 1) = (IF k > i THEN v[i] ELSE 0) + (IF i = k THEN v[i] ELSE 0)
      BY <1>3, <1>4, <3>1
    <3> QED
      BY <1>5, <3>2
  <2> QED
    BY <2>1
<1> HIDE DEF S
<1>8. \A k \in Nat : k \in S
  BY <1>6, <1>7, NumbersByInduction
<1>9. Sum(t, N) = v[i]
  BY <1>5, <1>8 DEF S
<1>10. v[i] % Q = v[i]
  BY <1>5, RemainderOfSmall
<1> QED
  BY <1>2, <1>9, <1>10 DEF e

-----------------------------------------------------------------------------
(* Matrices, and the three operations of the elimination on rows.          *)

\* Rows, columns and elements of a matrix.
LEMMA MatrixFacts ==
  ASSUME NEW A \in Matrices
  PROVE  /\ \A r \in Index : A[r] \in Vectors
         /\ \A r, c \in Index : A[r][c] \in Fq /\ Column(A, c)[r] = A[r][c]
         /\ \A c \in Index : Column(A, c) \in Vectors
         /\ A = [r \in Index |-> [c \in Index |-> A[r][c]]]
<1>1. \A r \in Index : A[r] \in Vectors /\ A[r] = [c \in Index |-> A[r][c]]
  BY DEF Matrices, Vectors
<1>2. \A r, c \in Index : A[r][c] \in Fq /\ Column(A, c)[r] = A[r][c]
  BY <1>1 DEF Vectors, Column
<1>3. \A c \in Index : Column(A, c) \in Vectors
  BY <1>2 DEF Vectors, Column
<1>4. A = [r \in Index |-> A[r]]
  BY DEF Matrices
<1>5. A = [r \in Index |-> [c \in Index |-> A[r][c]]]
  BY <1>1, <1>4
<1> QED
  BY <1>1, <1>2, <1>3, <1>5

\* The identity is a matrix.
LEMMA IdentityFacts ==
  /\ pmod_mat_identity \in Matrices
  /\ \A r, c \in Index : pmod_mat_identity[r][c] = IF r = c THEN 1 ELSE 0
BY FieldFacts DEF pmod_mat_identity, Matrices, Vectors

\* A product has the products of rows and columns as its elements.
LEMMA MulEntries ==
  ASSUME NEW A \in Matrices, NEW B \in Matrices
  PROVE  pmod_mat_mul(A, B) = [r \in Index |-> [c \in Index |-> Dot(A[r], Column(B, c))]]
<1>1. \A c \in Index : pmod_mat_transpose(B)[c] = Column(B, c)
  BY DEF pmod_mat_transpose
<1> QED
  BY <1>1 DEF pmod_mat_mul

\* Row by row, M is R times G.
RowsCombine(G, R, M) == \A r, c \in Index : Dot(R[r], Column(G, c)) = M[r][c]

\* Two rows change places.
LEMMA SwapRows ==
  ASSUME NEW M \in Matrices, NEW r1 \in Index, NEW r2 \in Index
  PROVE  /\ swap_rows(M, r1, r2) \in Matrices
         /\ \A r \in Index :
              swap_rows(M, r1, r2)[r] = M[IF r = r2 THEN r1 ELSE IF r = r1 THEN r2 ELSE r]
<1>1. M \in [Index -> Vectors] /\ M[r1] \in Vectors /\ M[r2] \in Vectors
  BY DEF Matrices
<1>2. swap_rows(M, r1, r2) \in [Index -> Vectors]
  BY <1>1 DEF swap_rows
<1>3. \A r \in Index :
        swap_rows(M, r1, r2)[r] = M[IF r = r2 THEN r1 ELSE IF r = r1 THEN r2 ELSE r]
  BY <1>1 DEF swap_rows
<1> QED
  BY <1>2, <1>3 DEF Matrices

\* One row is multiplied.
LEMMA ScaleRow ==
  ASSUME NEW M \in Matrices, NEW row \in Index, NEW f \in Fq
  PROVE  /\ scale_row(M, row, f) \in Matrices
         /\ scale_row(M, row, f)[row] = [c \in Index |-> GF_mul(M[row][c], f)]
         /\ \A r \in Index : r # row => scale_row(M, row, f)[r] = M[r]
         /\ \A c \in Index : scale_row(M, row, f)[row][c] = GF_mul(M[row][c], f)
<1> DEFINE v == [c \in Index |-> GF_mul(M[row][c], f)]
<1>1. M \in [Index -> Vectors] /\ M[row] \in Vectors
  BY DEF Matrices
<1>2. v \in Vectors
  BY <1>1, FieldFacts DEF Vectors
<1>3. scale_row(M, row, f) = [M EXCEPT ![row] = v]
  BY DEF scale_row
<1>4. \A c \in Index : v[c] = GF_mul(M[row][c], f)
  OBVIOUS
<1> HIDE DEF v
<1>5. /\ [M EXCEPT ![row] = v] \in [Index -> Vectors] /\ [M EXCEPT ![row] = v][row] = v
      /\ \A r \in Index : r # row => [M EXCEPT ![row] = v][r] = M[r]
  BY <1>1, <1>2
<1> QED
  BY <1>3, <1>4, <1>5 DEF Matrices, v

\* Every other row loses its multiple of the pivot's row.
LEMMA OthersCleared ==
  ASSUME NEW M \in Matrices, NEW row \in Index, NEW f \in Vectors
  PROVE  /\ ClearOthers(M, row, f) \in Matrices
         /\ ClearOthers(M, row, f)[row] = M[row]
         /\ \A r \in Index \ {row} :
              ClearOthers(M, row, f)[r]
                = [c \in Index |-> GF_sub(M[r][c], GF_mul(f[r], M[row][c]))]
         /\ \A r \in Index \ {row}, c \in Index :
              ClearOthers(M, row, f)[r][c] = GF_sub(M[r][c], GF_mul(f[r], M[row][c]))
<1> DEFINE v(r) == [c \in Index |-> GF_sub(M[r][c], GF_mul(f[r], M[row][c]))]
<1>1. \A r, c \in Index : M[r][c] \in Fq /\ f[r] \in Fq /\ M[r] \in Vectors
  BY MatrixFacts DEF Vectors
<1>2. \A r \in Index : v(r) \in Vectors
  BY <1>1, FieldFacts DEF Vectors
<1>3. \A r, c \in Index : v(r)[c] = GF_sub(M[r][c], GF_mul(f[r], M[row][c]))
  OBVIOUS
<1>4. ClearOthers(M, row, f) = [r \in Index |-> IF r = row THEN M[r] ELSE v(r)]
  BY DEF ClearOthers
<1> HIDE DEF v
<1>5. ClearOthers(M, row, f) \in Matrices
  BY <1>1, <1>2, <1>4 DEF Matrices
<1>6. ClearOthers(M, row, f)[row] = M[row] /\ \A r \in Index \ {row} : ClearOthers(M, row, f)[r] = v(r)
  BY <1>4
<1> QED
  BY <1>3, <1>5, <1>6 DEF v

\* Done to both sides, each keeps the one a multiple of the other.
LEMMA OperationsKeepRows ==
  ASSUME NEW G \in Matrices, NEW R \in Matrices, NEW M \in Matrices, RowsCombine(G, R, M)
  PROVE  /\ \A r1, r2 \in Index : RowsCombine(G, swap_rows(R, r1, r2), swap_rows(M, r1, r2))
         /\ \A row \in Index, f \in Fq : RowsCombine(G, scale_row(R, row, f), scale_row(M, row, f))
         /\ \A row \in Index, f \in Vectors :
              RowsCombine(G, ClearOthers(R, row, f), ClearOthers(M, row, f))
<1>1. ASSUME NEW r1 \in Index, NEW r2 \in Index
      PROVE  RowsCombine(G, swap_rows(R, r1, r2), swap_rows(M, r1, r2))
  <2> DEFINE e(r) == IF r = r2 THEN r1 ELSE IF r = r1 THEN r2 ELSE r
  <2>1. \A r \in Index : swap_rows(R, r1, r2)[r] = R[e(r)]
    BY SwapRows
  <2>2. \A r \in Index : swap_rows(M, r1, r2)[r] = M[e(r)]
    BY SwapRows
  <2>3. \A r \in Index : e(r) \in Index
    OBVIOUS
  <2> HIDE DEF e
  <2> QED
    BY <2>1, <2>2, <2>3 DEF RowsCombine
<1>2. ASSUME NEW row \in Index, NEW f \in Fq
      PROVE  RowsCombine(G, scale_row(R, row, f), scale_row(M, row, f))
  <2>1. /\ scale_row(R, row, f)[row] = [i \in Index |-> GF_mul(R[row][i], f)]
        /\ \A r \in Index : r # row => scale_row(R, row, f)[r] = R[r]
    BY ScaleRow
  <2>2. /\ \A r \in Index : r # row => scale_row(M, row, f)[r] = M[r]
        /\ \A c \in Index : scale_row(M, row, f)[row][c] = GF_mul(M[row][c], f)
    BY ScaleRow, ZenonT(40)
  <2>3. ASSUME NEW r \in Index, NEW c \in Index
        PROVE  Dot(scale_row(R, row, f)[r], Column(G, c)) = scale_row(M, row, f)[r][c]
    <3>1. CASE r # row
      BY <2>1, <2>2, <3>1 DEF RowsCombine
    <3>2. CASE r = row
      <4>1. R[row] \in Vectors /\ Column(G, c) \in Vectors
        BY MatrixFacts
      <4>2. Dot([i \in Index |-> GF_mul(R[row][i], f)], Column(G, c))
              = GF_mul(Dot(R[row], Column(G, c)), f)
        BY <4>1, RowScaled
      <4> QED
        BY <2>1, <2>2, <3>2, <4>2 DEF RowsCombine
    <3> QED
      BY <3>1, <3>2
  <2> QED
    BY <2>3 DEF RowsCombine
<1>3. ASSUME NEW row \in Index, NEW f \in Vectors
      PROVE  RowsCombine(G, ClearOthers(R, row, f), ClearOthers(M, row, f))
  <2>1. /\ ClearOthers(R, row, f)[row] = R[row]
        /\ \A r \in Index \ {row} :
             ClearOthers(R, row, f)[r]
               = [i \in Index |-> GF_sub(R[r][i], GF_mul(f[r], R[row][i]))]
    BY OthersCleared
  <2>2. /\ ClearOthers(M, row, f)[row] = M[row]
        /\ \A r \in Index \ {row}, c \in Index :
             ClearOthers(M, row, f)[r][c] = GF_sub(M[r][c], GF_mul(f[r], M[row][c]))
    BY OthersCleared
  <2>3. ASSUME NEW r \in Index, NEW c \in Index
        PROVE  Dot(ClearOthers(R, row, f)[r], Column(G, c)) = ClearOthers(M, row, f)[r][c]
    <3>1. CASE r = row
      BY <2>1, <2>2, <3>1 DEF RowsCombine
    <3>2. CASE r # row
      <4>1. R[r] \in Vectors /\ R[row] \in Vectors /\ Column(G, c) \in Vectors /\ f[r] \in Fq
        BY MatrixFacts DEF Vectors
      <4>2. Dot([i \in Index |-> GF_sub(R[r][i], GF_mul(f[r], R[row][i]))], Column(G, c))
              = GF_sub(Dot(R[r], Column(G, c)), GF_mul(f[r], Dot(R[row], Column(G, c))))
        BY <4>1, RowReduced
      <4> QED
        BY <2>1, <2>2, <3>2, <4>2 DEF RowsCombine
    <3> QED
      BY <3>1, <3>2
  <2> QED
    BY <2>3 DEF RowsCombine
<1> QED
  BY <1>1, <1>2, <1>3

-----------------------------------------------------------------------------
(* The loop of GF_inv.                                                      *)

\* A pass of the loop halves the exponent and stays in the field.
LEMMA SquaredFacts ==
  ASSUME NEW s \in Powers
  PROVE  /\ Squared(s) \in Powers
         /\ s.exponent \in Nat /\ s.t \in Fq /\ s.val \in Fq
         /\ s.exponent # 0 => Squared(s).exponent < s.exponent
<1>1. s.exponent \in Nat /\ s.t \in Fq /\ s.val \in Fq
  BY DEF Powers
<1>2. GF_mul(s.t, s.val) \in Fq /\ GF_mul(s.val, s.val) \in Fq
  BY <1>1, FieldFacts
<1>3. s.exponent \div 2 \in Nat /\ (s.exponent # 0 => s.exponent \div 2 < s.exponent)
  BY <1>1
<1> QED
  BY <1>1, <1>2, <1>3 DEF Squared, Powers

\* The recursion has a function, since the exponent falls, and its values are
\* elements of the field.
LEMMA PowerSteps ==
  \A s \in Powers : Power[s] = IF s.exponent = 0 THEN s.t ELSE Power[Squared(s)]
<1> DEFINE Body(g, s) == IF s.exponent = 0 THEN s.t ELSE g[Squared(s)]
           Upto(m) == {s \in Powers : s.exponent <= m}
           IsPower(g, m) == \A s \in Upto(m) : g[s] = Body(g, s)
           P(m) == CHOOSE g : IsPower(g, m)
<1>1. \A m \in Nat : \E g : IsPower(g, m)
  <2> DEFINE S == {m \in Nat : \E g : IsPower(g, m)}
  <2>1. 0 \in S
    <3> DEFINE g == [s \in Powers |-> s.t]
    <3>1. \A s \in Upto(0) : g[s] = Body(g, s)
      BY SquaredFacts
    <3> QED
      BY <3>1
  <2>2. ASSUME NEW m \in Nat, m \in S
        PROVE  m + 1 \in S
    <3>1. PICK g : IsPower(g, m)
      BY <2>2
    <3> DEFINE h == [s \in Powers |-> IF s.exponent <= m THEN g[s] ELSE g[Squared(s)]]
    <3>2. ASSUME NEW s \in Upto(m + 1)
          PROVE  h[s] = Body(h, s)
      <4>1. s \in Powers /\ s.exponent \in Nat /\ s.exponent <= m + 1
        BY SquaredFacts
      <4>2. h[s] = IF s.exponent <= m THEN g[s] ELSE g[Squared(s)]
        BY <4>1
      <4>3. CASE s.exponent = 0
        <5>1. s \in Upto(m) /\ s.exponent <= m
          BY <4>1, <4>3
        <5> HIDE DEF Upto, h
        <5> QED
          BY <3>1, <4>2, <4>3, <5>1
      <4>4. CASE s.exponent # 0
        <5>1. Squared(s) \in Powers /\ Squared(s).exponent \in Nat
              /\ Squared(s).exponent < s.exponent /\ Squared(s).exponent <= m
          <6>1. Squared(s) \in Powers /\ Squared(s).exponent < s.exponent
            BY <4>1, <4>4, SquaredFacts
          <6>2. Squared(s).exponent \in Nat
            BY <6>1 DEF Powers
          <6> QED
            BY <4>1, <6>1, <6>2
        <5>2. h[Squared(s)] = g[Squared(s)]
          BY <5>1
        <5>3. CASE s.exponent <= m
          <6>1. g[s] = g[Squared(s)]
            BY <3>1, <4>1, <4>4, <5>3
          <6> HIDE DEF h
          <6> QED
            BY <4>2, <4>4, <5>2, <5>3, <6>1
        <5>4. CASE ~(s.exponent <= m)
          <6> HIDE DEF h
          <6> QED
            BY <4>2, <4>4, <5>2, <5>4
        <5> QED
          BY <5>3, <5>4
      <4> QED
        BY <4>3, <4>4
    <3> HIDE DEF h, Upto, Body
    <3> QED
      BY <3>2
  <2> HIDE DEF S
  <2>3. \A m \in Nat : m \in S
    BY <2>1, <2>2, NumbersByInduction
  <2> QED
    BY <2>3 DEF S
<1>2. \A m \in Nat : IsPower(P(m), m)
  <2> HIDE DEF IsPower
  <2> QED
    BY <1>1
<1> HIDE DEF P
<1>3. ASSUME NEW m \in Nat, NEW s \in Powers, s.exponent <= m
      PROVE  P(m)[s] = Body(P(m), s)
  BY <1>2, <1>3
<1> HIDE DEF IsPower, Upto
<1> DEFINE S == {k \in Nat : \A s \in Powers : s.exponent <= k =>
                  \A m \in Nat : s.exponent <= m => P(m)[s] = P(s.exponent)[s]}
<1>4. 0 \in S
  <2>1. ASSUME NEW s \in Powers, s.exponent <= 0, NEW m \in Nat, s.exponent <= m
        PROVE  P(m)[s] = P(s.exponent)[s]
    <3>1. s.exponent \in Nat /\ s.exponent <= s.exponent /\ s.exponent = 0
      BY <2>1, SquaredFacts
    <3>2. P(m)[s] = s.t /\ P(s.exponent)[s] = s.t
      BY <1>3, <2>1, <3>1
    <3> QED
      BY <3>2
  <2> QED
    BY <2>1
<1>5. ASSUME NEW k \in Nat, k \in S
      PROVE  k + 1 \in S
  <2>1. ASSUME NEW s \in Powers, s.exponent <= k + 1, NEW m \in Nat, s.exponent <= m
        PROVE  P(m)[s] = P(s.exponent)[s]
    <3>1. s.exponent \in Nat /\ s.exponent <= s.exponent
      BY <2>1, SquaredFacts
    <3>2. CASE s.exponent = 0
      <4>1. P(m)[s] = s.t /\ P(s.exponent)[s] = s.t
        BY <1>3, <2>1, <3>1, <3>2
      <4> QED
        BY <4>1
    <3>3. CASE s.exponent # 0
      <4> DEFINE u == Squared(s)
      <4>1. u \in Powers /\ u.exponent < s.exponent
        BY <3>3, SquaredFacts
      <4> HIDE DEF u
      <4>2. u.exponent \in Nat
        BY <4>1, SquaredFacts
      <4>3. u.exponent <= k /\ u.exponent <= m /\ u.exponent <= s.exponent
        BY <2>1, <3>1, <4>1, <4>2
      <4>4. P(m)[u] = P(u.exponent)[u] /\ P(s.exponent)[u] = P(u.exponent)[u]
        BY <1>5, <3>1, <4>1, <4>3
      <4>5. P(m)[s] = P(m)[u] /\ P(s.exponent)[s] = P(s.exponent)[u]
        BY <1>3, <2>1, <3>1, <3>3 DEF u
      <4> QED
        BY <4>4, <4>5
    <3> QED
      BY <3>2, <3>3
  <2> QED
    BY <2>1
<1> HIDE DEF S
<1>6. \A k \in Nat : k \in S
  BY <1>4, <1>5, NumbersByInduction
<1>7. ASSUME NEW s \in Powers, NEW m \in Nat, s.exponent <= m
      PROVE  P(m)[s] = P(s.exponent)[s]
  <2>1. s.exponent \in Nat /\ s.exponent \in S /\ s.exponent <= s.exponent
    BY <1>6, SquaredFacts
  <2> QED
    BY <1>7, <2>1 DEF S
<1> DEFINE F == [s \in Powers |-> P(s.exponent)[s]]
<1>8. ASSUME NEW s \in Powers
      PROVE  F[s] = Body(F, s)
  <2>1. s.exponent \in Nat /\ s.exponent <= s.exponent
    BY SquaredFacts
  <2>2. F[s] = P(s.exponent)[s] /\ P(s.exponent)[s] = Body(P(s.exponent), s)
    BY <1>3, <2>1
  <2>3. CASE s.exponent = 0
    BY <2>2, <2>3
  <2>4. CASE s.exponent # 0
    <3> DEFINE u == Squared(s)
    <3>1. u \in Powers /\ u.exponent < s.exponent
      BY <2>4, SquaredFacts
    <3> HIDE DEF u
    <3>2. u.exponent \in Nat
      BY <3>1, SquaredFacts
    <3>3. u.exponent <= s.exponent
      BY <2>1, <3>1, <3>2
    <3>4. F[u] = P(u.exponent)[u]
      BY <3>1
    <3>5. P(s.exponent)[u] = P(u.exponent)[u]
      BY <1>7, <2>1, <3>1, <3>3
    <3> HIDE DEF F
    <3> QED
      BY <2>2, <2>4, <3>4, <3>5 DEF u
  <2> QED
    BY <2>3, <2>4
<1>9. F = [s \in Powers |-> Body(F, s)]
  <2>1. F = [s \in Powers |-> F[s]]
    OBVIOUS
  <2> HIDE DEF F, Body
  <2> QED
    BY <1>8, <2>1
<1> DEFINE Solves(g) == g = [s \in Powers |-> Body(g, s)]
<1>10. Solves(Power)
  <2>1. \E g : Solves(g)
    <3> HIDE DEF F
    <3> QED
      BY <1>9
  <2>2. Power = CHOOSE g : Solves(g)
    BY DEF Power
  <2> HIDE DEF Solves
  <2> QED
    BY <2>1, <2>2
<1> DEFINE h == [s \in Powers |-> Body(Power, s)]
<1>11. Power = h /\ \A s \in Powers : h[s] = Body(Power, s)
  BY <1>10
<1> HIDE DEF h
<1> QED
  BY <1>11

\* So GF_inv is an element of the field.
LEMMA InverseInField ==
  ASSUME NEW x \in Fq \ {0}
  PROVE  GF_inv(x) \in Fq
<1> DEFINE S == {k \in Nat : \A s \in Powers : s.exponent <= k => Power[s] \in Fq}
<1>1. 0 \in S
  <2>1. ASSUME NEW s \in Powers, s.exponent <= 0
        PROVE  Power[s] \in Fq
    <3>1. s.exponent = 0 /\ s.t \in Fq
      BY <2>1, SquaredFacts
    <3> QED
      BY <3>1, PowerSteps
  <2> QED
    BY <2>1
<1>2. ASSUME NEW k \in Nat, k \in S
      PROVE  k + 1 \in S
  <2>1. ASSUME NEW s \in Powers, s.exponent <= k + 1
        PROVE  Power[s] \in Fq
    <3> DEFINE u == Squared(s)
    <3>1. /\ u \in Powers /\ s.exponent \in Nat /\ s.t \in Fq
          /\ s.exponent # 0 => u.exponent < s.exponent
      BY SquaredFacts
    <3>2. Power[s] = IF s.exponent = 0 THEN s.t ELSE Power[u]
      BY PowerSteps
    <3> HIDE DEF u
    <3>3. u.exponent \in Nat
      BY <3>1, SquaredFacts
    <3>4. s.exponent # 0 => u.exponent <= k
      BY <2>1, <3>1, <3>3
    <3> QED
      BY <1>2, <3>1, <3>2, <3>4
  <2> QED
    BY <2>1
<1> HIDE DEF S
<1>3. \A k \in Nat : k \in S
  BY <1>1, <1>2, NumbersByInduction
<1> DEFINE s == [exponent |-> Q - 2, t |-> 1, val |-> x]
<1>4. s \in Powers /\ s.exponent = Q - 2 /\ Q - 2 \in Nat /\ Q - 2 <= Q - 2
  <2>1. Q - 2 \in Nat /\ 1 \in Fq
    BY FieldFacts
  <2> QED
    BY <2>1 DEF Powers
<1> HIDE DEF s
<1>5. Power[s] \in Fq
  BY <1>3, <1>4 DEF S
<1> QED
  BY <1>5 DEF GF_inv, s

-----------------------------------------------------------------------------
(* One column of the elimination.                                          *)

\* What the search for a pivot finds.
LEMMA LeastIsLeast ==
  ASSUME NEW S, S \subseteq Nat, S # {}
  PROVE  Least(S) \in S /\ \A x \in S : Least(S) <= x
<1>1. \E n \in S : \A m \in S : n <= m
  BY LeastNumber
<1> QED
  BY <1>1 DEF Least

States == [A : Matrices, rhs : Matrices, pivots : Seq(Index)]

\* Both sides after a pivot was found in row p and its inverse is i.
LeftAfter(M, row, p, i) == scale_row(swap_rows(M, row, p), row, i)

\* A column has no pivot, or its row is swapped up, scaled and cleared away.
LEMMA ColumnCases ==
  ASSUME NEW s \in States, NEW c \in Index
  PROVE  \/ /\ EliminateColumn(s, c) = s
            /\ \A r \in Len(s.pivots) .. N - 1 : s.A[r][c] = 0
         \/ \E p \in Index, i \in Fq :
              LET row == Len(s.pivots)
                  left == LeftAfter(s.A, row, p, i)
                  f == Column(left, c)
              IN /\ row \in Index /\ row <= p /\ s.A[p][c] # 0 /\ GF_mul(s.A[p][c], i) = 1
                 /\ EliminateColumn(s, c)
                      = [A |-> ClearOthers(left, row, f),
                         rhs |-> ClearOthers(LeftAfter(s.rhs, row, p, i), row, f),
                         pivots |-> Append(s.pivots, c)]
<1> DEFINE row == Len(s.pivots)
           candidates == {r \in row .. N - 1 : s.A[r][c] # 0}
<1>1. s.A \in Matrices /\ row \in Nat
  BY DEF States
<1>2. CASE candidates = {}
  <2>1. EliminateColumn(s, c) = s
    BY <1>2 DEF EliminateColumn
  <2>2. \A r \in row .. N - 1 : s.A[r][c] = 0
    BY <1>2
  <2> QED
    BY <2>1, <2>2
<1>3. CASE candidates # {}
  <2> DEFINE p == Least(candidates)
             i == GF_inv(s.A[p][c])
  <2>1. candidates \subseteq Nat
    BY <1>1
  <2>2. p \in candidates
    <3> HIDE DEF candidates
    <3> QED
      BY <1>3, <2>1, LeastIsLeast
  <2>3. p \in Index /\ row \in Index /\ row <= p /\ s.A[p][c] # 0
    <3>1. \A q \in candidates : q \in Index /\ row \in Index /\ row <= q /\ s.A[q][c] # 0
      <4>1. row \in Nat /\ N \in Nat
        BY <1>1, FieldFacts
      <4> HIDE DEF row
      <4> QED
        BY <4>1 DEF Index
    <3> HIDE DEF p, candidates, row
    <3> QED
      BY <2>2, <3>1
  <2>4. s.A[p][c] \in Fq
    BY <1>1, <2>3, MatrixFacts
  <2>5. i \in Fq /\ GF_mul(s.A[p][c], i) = 1
    BY <2>3, <2>4, InverseInField, InverseAssumption
  <2>6. EliminateColumn(s, c)
          = LET left == LeftAfter(s.A, row, p, i)
                f == Column(left, c)
            IN [A |-> ClearOthers(left, row, f),
                rhs |-> ClearOthers(LeftAfter(s.rhs, row, p, i), row, f),
                pivots |-> Append(s.pivots, c)]
    BY <1>3 DEF EliminateColumn, RhsAfter, LeftAfter
  <2> HIDE DEF p, i, row
  <2> QED
    BY <2>3, <2>5, <2>6 DEF row
<1> QED
  BY <1>2, <1>3

\* What one side is after the pivot's row was swapped and scaled, and cleared.
LEMMA AfterPivot ==
  ASSUME NEW M \in Matrices, NEW row \in Index, NEW p \in Index, NEW i \in Fq
  PROVE  /\ LeftAfter(M, row, p, i) \in Matrices
         /\ \A c \in Index : LeftAfter(M, row, p, i)[row][c] = GF_mul(M[p][c], i)
         /\ \A r \in Index \ {row} :
              LeftAfter(M, row, p, i)[r] = M[IF r = p THEN row ELSE r]
<1> DEFINE W == swap_rows(M, row, p)
<1>1. W \in Matrices
  BY SwapRows
<1>2. \A r \in Index : W[r] = M[IF r = p THEN row ELSE IF r = row THEN p ELSE r]
  BY SwapRows
<1>3. W[row] = M[p] /\ \A r \in Index \ {row} : W[r] = M[IF r = p THEN row ELSE r]
  BY <1>2
<1> HIDE DEF W
<1>4. /\ scale_row(W, row, i) \in Matrices
      /\ \A r \in Index : r # row => scale_row(W, row, i)[r] = W[r]
      /\ \A c \in Index : scale_row(W, row, i)[row][c] = GF_mul(W[row][c], i)
  BY <1>1, ScaleRow, ZenonT(40)
<1>5. LeftAfter(M, row, p, i) = scale_row(W, row, i)
  BY DEF LeftAfter, W
<1> QED
  BY <1>3, <1>4, <1>5

\* Clearing an element subtracts it from itself.
LEMMA FieldZero ==
  ASSUME NEW x \in Fq
  PROVE  /\ GF_mul(x, 0) = 0 /\ GF_mul(0, x) = 0 /\ GF_sub(x, 0) = x /\ GF_sub(x, x) = 0
         /\ GF_mul(x, 1) = x /\ GF_mul(1, x) = x
<1>1. x \in Int /\ x \in 0 .. Q - 1 /\ Q \in Nat \ {0} /\ 0 \in 0 .. Q - 1
  BY FieldFacts DEF Fq
<1>2. x % Q = x /\ 0 % Q = 0
  BY <1>1, RemainderOfSmall
<1>3. x * 0 = 0 /\ 0 * x = 0 /\ x - 0 = x /\ x - x = 0 /\ x * 1 = x /\ 1 * x = x
  BY <1>1
<1> QED
  BY <1>2, <1>3 DEF GF_mul, GF_sub

\* The order of two factors does not matter.
LEMMA ProductsCommute ==
  ASSUME NEW x \in Fq, NEW y \in Fq
  PROVE  GF_mul(x, y) = GF_mul(y, x)
<1>1. x * y = y * x
  BY FieldFacts
<1> QED
  BY <1>1 DEF GF_mul

\* Nor does that of two products.
LEMMA ProductsAssociate ==
  ASSUME NEW x \in Fq, NEW y \in Fq, NEW z \in Fq
  PROVE  GF_mul(GF_mul(x, y), z) = GF_mul(x, GF_mul(y, z))
<1>1. x \in Int /\ y \in Int /\ z \in Int /\ Q \in Nat \ {0}
  BY FieldFacts
<1> DEFINE a == x * y
           b == y * z
<1>2. a \in Int /\ b \in Int /\ a * z = x * b
  BY <1>1
<1> HIDE DEF a, b
<1>3. (a * z) % Q = ((a % Q) * (z % Q)) % Q /\ (x * b) % Q = ((x % Q) * (b % Q)) % Q
  BY <1>1, <1>2, ReducedFirst
<1>4. a % Q \in Int /\ b % Q \in Int /\ (a % Q) % Q = a % Q /\ (b % Q) % Q = b % Q
  BY <1>1, <1>2, RemainderTwice
<1>5. /\ ((a % Q) * z) % Q = (((a % Q) % Q) * (z % Q)) % Q
      /\ (x * (b % Q)) % Q = ((x % Q) * ((b % Q) % Q)) % Q
  BY <1>1, <1>4, ReducedFirst
<1>6. ((a % Q) * z) % Q = (x * (b % Q)) % Q
  BY <1>2, <1>3, <1>4, <1>5
<1> QED
  BY <1>6 DEF GF_mul, a, b

\* The columns before c are reduced.
Reduced(s, c) ==
  /\ Len(s.pivots) <= c
  /\ \A i \in DOMAIN s.pivots : s.pivots[i] < c
  /\ \A i, j \in DOMAIN s.pivots : i < j => s.pivots[i] < s.pivots[j]
  /\ \A i \in DOMAIN s.pivots, r \in Index :
       s.A[r][s.pivots[i]] = IF r = i - 1 THEN 1 ELSE 0
  /\ \A r \in Len(s.pivots) .. N - 1, k \in 0 .. c - 1 : s.A[r][k] = 0

\* The inductive invariant of the elimination: rhs times G is A, and the
\* columns passed are reduced.
Eliminated(G, s, c) ==
  s \in States /\ RowsCombine(G, s.rhs, s.A) /\ Reduced(s, c)

\* Before the first column.
LEMMA StartsEliminated ==
  ASSUME NEW G \in Matrices
  PROVE  Eliminated(G, Started(G), 0)
<1>1. Started(G) \in States
  BY IdentityFacts DEF Started, States
<1>2. RowsCombine(G, pmod_mat_identity, G)
  <2>1. ASSUME NEW r \in Index, NEW c \in Index
        PROVE  Dot(pmod_mat_identity[r], Column(G, c)) = G[r][c]
    <3>1. Column(G, c) \in Vectors /\ Column(G, c)[r] = G[r][c]
      BY MatrixFacts
    <3> QED
      BY <3>1, UnitRow
  <2> QED
    BY <2>1 DEF RowsCombine
<1>3. Reduced(Started(G), 0)
  BY DEF Reduced, Started
<1> QED
  BY <1>1, <1>2, <1>3 DEF Eliminated, Started

\* One column more.
LEMMA ColumnEliminates ==
  ASSUME NEW G \in Matrices, NEW s, NEW c \in Index, Eliminated(G, s, c)
  PROVE  Eliminated(G, EliminateColumn(s, c), c + 1)
<1> DEFINE row == Len(s.pivots)
<1>1. /\ s \in States /\ s.A \in Matrices /\ s.rhs \in Matrices /\ s.pivots \in Seq(Index)
      /\ row \in Nat /\ c \in Nat /\ N \in Nat /\ c <= N - 1
      /\ RowsCombine(G, s.rhs, s.A) /\ Reduced(s, c)
  BY FieldFacts DEF Eliminated, States, Index
<1>5. /\ row <= c /\ DOMAIN s.pivots = 1 .. row
      /\ \A j \in 1 .. row : s.pivots[j] \in Index /\ s.pivots[j] \in Int /\ s.pivots[j] < c
      /\ \A j, k \in 1 .. row : j < k => s.pivots[j] < s.pivots[k]
      /\ \A j \in 1 .. row, r \in Index : s.A[r][s.pivots[j]] = IF r = j - 1 THEN 1 ELSE 0
      /\ \A r \in row .. N - 1, k \in 0 .. c - 1 : s.A[r][k] = 0
  <2>1. DOMAIN s.pivots = 1 .. row /\ \A j \in 1 .. row : s.pivots[j] \in Index
    BY <1>1
  <2>2. \A j \in Index : j \in Int
    BY DEF Index
  <2> QED
    BY <1>1, <2>1, <2>2 DEF Reduced
<1>2. CASE /\ EliminateColumn(s, c) = s
           /\ \A r \in row .. N - 1 : s.A[r][c] = 0
  <2>1. Reduced(s, c + 1)
    <3>1. ASSUME NEW r \in row .. N - 1, NEW k \in 0 .. c
          PROVE  s.A[r][k] = 0
      BY <1>1, <1>2 DEF Reduced
    <3>2. \A i \in DOMAIN s.pivots : s.pivots[i] \in Nat
      BY <1>1 DEF Index
    <3> QED
      BY <1>1, <3>1, <3>2 DEF Reduced
  <2> QED
    BY <1>1, <1>2, <2>1 DEF Eliminated
<1>3. ASSUME NEW p \in Index, NEW i \in Fq,
             row \in Index, row <= p, s.A[p][c] # 0, GF_mul(s.A[p][c], i) = 1,
             LET left == LeftAfter(s.A, row, p, i)
                 f == Column(left, c)
             IN EliminateColumn(s, c)
                  = [A |-> ClearOthers(left, row, f),
                     rhs |-> ClearOthers(LeftAfter(s.rhs, row, p, i), row, f),
                     pivots |-> Append(s.pivots, c)]
      PROVE  Eliminated(G, EliminateColumn(s, c), c + 1)
  <2> DEFINE left == LeftAfter(s.A, row, p, i)
             right == LeftAfter(s.rhs, row, p, i)
             f == Column(left, c)
             A == ClearOthers(left, row, f)
             R == ClearOthers(right, row, f)
             pivots == Append(s.pivots, c)
             t == EliminateColumn(s, c)
  <2>1. t = [A |-> A, rhs |-> R, pivots |-> pivots]
    BY <1>3
  <2>2. left \in Matrices /\ right \in Matrices
    BY <1>1, <1>3, AfterPivot
  <2>3. RowsCombine(G, right, left)
    <3>1. swap_rows(s.A, row, p) \in Matrices /\ swap_rows(s.rhs, row, p) \in Matrices
      BY <1>1, <1>3, SwapRows
    <3>2. RowsCombine(G, swap_rows(s.rhs, row, p), swap_rows(s.A, row, p))
      BY <1>1, <1>3, OperationsKeepRows
    <3> QED
      BY <1>3, <3>1, <3>2, OperationsKeepRows DEF LeftAfter
  <2>4. f \in Vectors /\ \A r \in Index : f[r] = left[r][c]
    BY <2>2, MatrixFacts
  <2>5. /\ \A k \in Index : left[row][k] = GF_mul(s.A[p][k], i)
        /\ \A r \in Index \ {row} : left[r] = s.A[IF r = p THEN row ELSE r]
    <3> HIDE DEF row
    <3> DEFINE M == s.A
    <3>1. M \in Matrices /\ row \in Index
      BY <1>1, <1>3
    <3> HIDE DEF M
    <3>2. /\ LeftAfter(M, row, p, i) \in Matrices
          /\ \A k \in Index : LeftAfter(M, row, p, i)[row][k] = GF_mul(M[p][k], i)
          /\ \A r \in Index \ {row} :
               LeftAfter(M, row, p, i)[r] = M[IF r = p THEN row ELSE r]
      BY <3>1, AfterPivot
    <3> QED
      BY <3>2 DEF M
  <2> HIDE DEF left, right, f
  <2>6. /\ A \in Matrices /\ A[row] = left[row]
        /\ \A r \in Index \ {row}, k \in Index :
             A[r][k] = GF_sub(left[r][k], GF_mul(f[r], left[row][k]))
    <3> HIDE DEF row
    <3>1. A \in Matrices /\ A[row] = left[row]
      BY <1>3, <2>2, <2>4, OthersCleared
    <3>2. \A r \in Index \ {row}, k \in Index :
             A[r][k] = GF_sub(left[r][k], GF_mul(f[r], left[row][k]))
      BY <1>3, <2>2, <2>4, OthersCleared
    <3> QED
      BY <3>1, <3>2
  <2>7. R \in Matrices
    BY <1>3, <2>2, <2>4, OthersCleared
  <2>8. RowsCombine(G, R, A)
    BY <1>3, <2>2, <2>3, <2>4, OperationsKeepRows
  <2> HIDE DEF A, R
  <2>9. /\ pivots \in Seq(Index) /\ Len(pivots) = row + 1 /\ DOMAIN pivots = 1 .. row + 1
        /\ DOMAIN s.pivots = 1 .. row
        /\ pivots[row + 1] = c /\ \A j \in 1 .. row : pivots[j] = s.pivots[j] /\ s.pivots[j] \in Index
    BY <1>1
  <2>10. \A r, k \in Index : left[r][k] \in Fq /\ s.A[r][k] \in Fq
    BY <1>1, <2>2, MatrixFacts
  <2>11. \A r \in Index : A[r][c] = IF r = row THEN 1 ELSE 0
    <3>1. left[row][c] = 1
      BY <1>3, <2>5
    <3>2. ASSUME NEW r \in Index \ {row}
          PROVE  A[r][c] = 0
      <4>1. A[r][c] = GF_sub(left[r][c], GF_mul(left[r][c], 1))
        BY <2>4, <2>6, <3>1
      <4>2. left[r][c] \in Fq
        BY <2>10
      <4> QED
        BY <4>1, <4>2, FieldZero
    <3> QED
      BY <2>6, <3>1, <3>2
  \* A column in which the rows from row on are 0 is not touched.
  <2>12. ASSUME NEW k \in Index, \A r \in row .. N - 1 : s.A[r][k] = 0
         PROVE  \A r \in Index : A[r][k] = s.A[r][k]
    <3>1. s.A[p][k] = 0 /\ s.A[row][k] = 0
      BY <1>1, <1>3, <2>12 DEF Index
    <3>2. left[row][k] = 0
      BY <1>3, <2>5, <3>1, FieldZero
    <3>3. ASSUME NEW r \in Index \ {row}
          PROVE  A[r][k] = s.A[r][k]
      <4>1. A[r][k] = GF_sub(left[r][k], GF_mul(f[r], 0))
        BY <2>6, <3>2
      <4>2. left[r][k] \in Fq /\ f[r] \in Fq
        BY <2>4, <2>10 DEF Vectors
      <4>3. left[r][k] = s.A[r][k]
        BY <2>5, <3>1
      <4> QED
        BY <4>1, <4>2, <4>3, FieldZero
    <3> QED
      BY <2>6, <3>1, <3>2, <3>3
  <2>13. ASSUME NEW j \in 1 .. row
         PROVE  /\ s.pivots[j] \in Index
                /\ \A r \in Index : A[r][s.pivots[j]] = IF r = j - 1 THEN 1 ELSE 0
    <3>1. \A r \in Index : s.A[r][s.pivots[j]] = IF r = j - 1 THEN 1 ELSE 0
      BY <1>5
    <3>2. \A r \in row .. N - 1 : s.A[r][s.pivots[j]] = 0
      BY <1>1, <3>1, SMTT(30) DEF Index
    <3> QED
      BY <2>9, <2>12, <3>1, <3>2
  <2>14. ASSUME NEW r \in row + 1 .. N - 1, NEW k \in 0 .. c
         PROVE  A[r][k] = 0
    <3>1. r \in Index /\ r # row /\ k \in Index
      BY <1>1 DEF Index
    <3>2. CASE k = c
      BY <2>11, <3>1, <3>2
    <3>3. CASE k # c
      <4>1. k \in 0 .. c - 1 /\ r \in row .. N - 1
        BY <1>1, <3>3
      <4>2. \A q \in row .. N - 1 : s.A[q][k] = 0
        BY <1>5, <4>1
      <4> QED
        BY <2>12, <3>1, <4>1, <4>2
    <3> QED
      BY <3>2, <3>3
  <2>15. Reduced(t, c + 1)
    <3> HIDE DEF pivots, t, row
    <3>1. t.A = A /\ t.pivots = pivots
      BY <2>1
    <3>2. row + 1 <= c + 1
      BY <1>1, <1>5
    <3>3. \A j \in 1 .. row + 1 : j \in 1 .. row \/ j = row + 1
      BY <1>1
    <3>4. \A j \in 1 .. row + 1 : pivots[j] < c + 1
      BY <1>1, <1>5, <2>9, <3>3
    <3>5. ASSUME NEW j \in 1 .. row + 1, NEW k \in 1 .. row + 1, j < k
          PROVE  pivots[j] < pivots[k]
      <4>1. CASE k = row + 1
        BY <1>1, <1>5, <2>9, <3>3, <3>5, <4>1
      <4>2. CASE k # row + 1
        <5>1. k \in 1 .. row /\ j \in 1 .. row
          BY <1>1, <3>5, <4>2
        <5>2. s.pivots[j] < s.pivots[k]
          BY <1>5, <3>5, <5>1
        <5> QED
          BY <2>9, <5>1, <5>2
      <4> QED
        BY <4>1, <4>2
    <3>6. ASSUME NEW j \in 1 .. row + 1, NEW r \in Index
          PROVE  A[r][pivots[j]] = IF r = j - 1 THEN 1 ELSE 0
      <4>1. CASE j = row + 1
        <5>1. j - 1 = row /\ pivots[j] = c
          BY <1>1, <2>9, <4>1
        <5> QED
          BY <2>11, <5>1
      <4>2. CASE j # row + 1
        <5>1. j \in 1 .. row
          BY <1>1, <4>2
        <5> QED
          BY <2>9, <2>13, <5>1
      <4> QED
        BY <4>1, <4>2
    <3>7. \A r \in row + 1 .. N - 1, k \in 0 .. (c + 1) - 1 : A[r][k] = 0
      BY <1>1, <2>14
    <3> QED
      BY <2>9, <3>1, <3>2, <3>4, <3>5, <3>6, <3>7 DEF Reduced
  <2>16. t \in States
    BY <2>1, <2>6, <2>7, <2>9 DEF States
  <2> HIDE DEF t
  <2>17. Eliminated(G, t, c + 1)
    BY <2>1, <2>8, <2>15, <2>16 DEF Eliminated
  <2> QED
    BY <2>17 DEF t
<1>4. \/ /\ EliminateColumn(s, c) = s
         /\ \A r \in row .. N - 1 : s.A[r][c] = 0
      \/ \E p \in Index, i \in Fq :
           LET left == LeftAfter(s.A, row, p, i)
               f == Column(left, c)
           IN /\ row \in Index /\ row <= p /\ s.A[p][c] # 0 /\ GF_mul(s.A[p][c], i) = 1
              /\ EliminateColumn(s, c)
                   = [A |-> ClearOthers(left, row, f),
                      rhs |-> ClearOthers(LeftAfter(s.rhs, row, p, i), row, f),
                      pivots |-> Append(s.pivots, c)]
  BY <1>1, ColumnCases
<1> HIDE DEF row
<1> QED
  BY <1>2, <1>3, <1>4

-----------------------------------------------------------------------------
(* The operations can be undone: what holds of the rows after them, and of *)
(* every combination of such rows, holds of the rows before.               *)

Combination(x, u, y, v) == [k \in Index |-> (x * u[k] + y * v[k]) % Q]

\* Sets of pairs of vectors, the halves of the rows of a matrix and its
\* right-hand side, that hold their combinations.
Spans ==
  {W \in SUBSET (Vectors \X Vectors) :
     \A p, q \in W : \A x, y \in Fq :
       <<Combination(x, p[1], y, q[1]), Combination(x, p[2], y, q[2])>> \in W}

HoldsRows(W, M, R) == \A r \in Index : <<M[r], R[r]>> \in W

\* A row that a multiple was subtracted from is a combination of what is left
\* and the row subtracted; a scaled one is a multiple of itself.
LEMMA CombinationUndoes ==
  ASSUME NEW f \in Fq, NEW u \in Vectors
  PROVE  /\ \A i \in Fq : GF_mul(f, i) = 1 =>
              Combination(f, [k \in Index |-> GF_mul(u[k], i)], 0,
                          [k \in Index |-> GF_mul(u[k], i)]) = u
         /\ \A w \in Vectors :
              Combination(1, [k \in Index |-> GF_sub(u[k], GF_mul(f, w[k]))], f, w) = u
<1>1. u = [k \in Index |-> u[k]] /\ \A k \in Index : u[k] \in Fq
  BY DEF Vectors
<1>2. /\ Q \in Nat \ {0} /\ f \in Int /\ Fq \subseteq Int
      /\ \A x, y \in Fq : GF_mul(x, y) \in Fq
  BY FieldFacts
<1>3. ASSUME NEW i \in Fq, GF_mul(f, i) = 1
      PROVE  Combination(f, [k \in Index |-> GF_mul(u[k], i)], 0,
                         [k \in Index |-> GF_mul(u[k], i)]) = u
  <2> DEFINE s == [k \in Index |-> GF_mul(u[k], i)]
  <2>1. ASSUME NEW k \in Index
        PROVE  (f * s[k] + 0 * s[k]) % Q = u[k]
    <3>1. s[k] = GF_mul(u[k], i) /\ u[k] \in Fq /\ s[k] \in Fq /\ s[k] \in Int
      BY <1>1, <1>2
    <3> HIDE DEF s
    <3>2. f * s[k] + 0 * s[k] = f * s[k]
      BY <1>2, <3>1
    <3>3. (f * s[k]) % Q = GF_mul(f, GF_mul(u[k], i))
      BY <3>1 DEF GF_mul
    <3>4. GF_mul(u[k], i) = GF_mul(i, u[k])
      BY <3>1, ProductsCommute
    <3>5. GF_mul(f, GF_mul(i, u[k])) = GF_mul(GF_mul(f, i), u[k])
      BY <3>1, ProductsAssociate
    <3>6. GF_mul(1, u[k]) = u[k]
      BY <3>1, FieldZero
    <3> QED
      BY <1>3, <3>2, <3>3, <3>4, <3>5, <3>6
  <2> HIDE DEF s
  <2>2. Combination(f, s, 0, s) = u
    BY <1>1, <2>1 DEF Combination
  <2> QED
    BY <2>2 DEF s
<1>4. ASSUME NEW w \in Vectors
      PROVE  Combination(1, [k \in Index |-> GF_sub(u[k], GF_mul(f, w[k]))], f, w) = u
  <2> DEFINE s == [k \in Index |-> GF_sub(u[k], GF_mul(f, w[k]))]
  <2>1. ASSUME NEW k \in Index
        PROVE  (1 * s[k] + f * w[k]) % Q = u[k]
    <3> DEFINE p == f * w[k]
               g == p % Q
               d == u[k] - g
    <3>1. u[k] \in Fq /\ u[k] \in Int /\ w[k] \in Int /\ s[k] = GF_sub(u[k], GF_mul(f, w[k]))
      BY <1>1, <1>2 DEF Vectors
    <3>2. p \in Int
      BY <1>2, <3>1
    <3>3. s[k] = d % Q
      BY <3>1 DEF GF_sub, GF_mul
    <3> HIDE DEF p, s
    <3>4. g \in Int /\ g % Q = p % Q
      BY <1>2, <3>2, RemainderTwice
    <3> HIDE DEF g
    <3>5. d \in Int /\ u[k] = d + g
      BY <3>1, <3>4
    <3> HIDE DEF d
    <3>6. s[k] \in Int /\ s[k] % Q = d % Q
      BY <1>2, <3>3, <3>5, RemainderTwice
    <3>7. (s[k] + p) % Q = ((s[k] % Q) + (p % Q)) % Q /\ (d + g) % Q = ((d % Q) + (g % Q)) % Q
      BY <1>2, <3>2, <3>4, <3>5, <3>6, ReducedFirst
    <3>8. u[k] % Q = u[k]
      BY <1>2, <3>1, RemainderOfSmall DEF Fq
    <3>9. 1 * s[k] + p = s[k] + p
      BY <3>2, <3>6
    <3> QED
      BY <3>4, <3>5, <3>6, <3>7, <3>8, <3>9 DEF p
  <2> HIDE DEF s
  <2>2. Combination(1, s, f, w) = u
    BY <1>1, <2>1 DEF Combination
  <2> QED
    BY <2>2 DEF s
<1> QED
  BY <1>3, <1>4

\* A span of the rows after an operation holds the rows before it.
LEMMA OperationsUndone ==
  ASSUME NEW M \in Matrices, NEW R \in Matrices, NEW W \in Spans
  PROVE  /\ \A r1, r2 \in Index :
              HoldsRows(W, swap_rows(M, r1, r2), swap_rows(R, r1, r2)) => HoldsRows(W, M, R)
         /\ \A row \in Index, f, i \in Fq :
              GF_mul(f, i) = 1 /\ HoldsRows(W, scale_row(M, row, i), scale_row(R, row, i))
                => HoldsRows(W, M, R)
         /\ \A row \in Index, f \in Vectors :
              HoldsRows(W, ClearOthers(M, row, f), ClearOthers(R, row, f)) => HoldsRows(W, M, R)
<1>1. ASSUME NEW r1 \in Index, NEW r2 \in Index,
             HoldsRows(W, swap_rows(M, r1, r2), swap_rows(R, r1, r2))
      PROVE  HoldsRows(W, M, R)
  <2> DEFINE e(r) == IF r = r2 THEN r1 ELSE IF r = r1 THEN r2 ELSE r
  <2>1. \A r \in Index : swap_rows(M, r1, r2)[r] = M[e(r)]
    BY SwapRows
  <2>2. \A r \in Index : swap_rows(R, r1, r2)[r] = R[e(r)]
    BY SwapRows
  <2>3. \A r \in Index : e(r) \in Index /\ e(e(r)) = r
    OBVIOUS
  <2> HIDE DEF e
  <2> QED
    BY <1>1, <2>1, <2>2, <2>3 DEF HoldsRows
<1>2. ASSUME NEW p \in W, NEW q \in W, NEW x \in Fq, NEW y \in Fq
      PROVE  <<Combination(x, p[1], y, q[1]), Combination(x, p[2], y, q[2])>> \in W
  BY DEF Spans
<1>3. ASSUME NEW row \in Index, NEW f \in Fq, NEW i \in Fq, GF_mul(f, i) = 1,
             HoldsRows(W, scale_row(M, row, i), scale_row(R, row, i))
      PROVE  HoldsRows(W, M, R)
  <2> DEFINE m == [k \in Index |-> GF_mul(M[row][k], i)]
             n == [k \in Index |-> GF_mul(R[row][k], i)]
  <2>1. scale_row(M, row, i)[row] = m /\ \A r \in Index : r # row => scale_row(M, row, i)[r] = M[r]
    BY ScaleRow
  <2>2. scale_row(R, row, i)[row] = n /\ \A r \in Index : r # row => scale_row(R, row, i)[r] = R[r]
    BY ScaleRow
  <2>3. Combination(f, m, 0, m) = M[row]
    <3>1. M[row] \in Vectors
      BY MatrixFacts
    <3> QED
      BY <1>3, <3>1, CombinationUndoes
  <2>4. Combination(f, n, 0, n) = R[row]
    <3>1. R[row] \in Vectors
      BY MatrixFacts
    <3> QED
      BY <1>3, <3>1, CombinationUndoes
  <2> HIDE DEF m, n
  <2>5. <<m, n>> \in W /\ \A r \in Index \ {row} : <<M[r], R[r]>> \in W
    BY <1>3, <2>1, <2>2 DEF HoldsRows
  <2>6. <<Combination(f, m, 0, m), Combination(f, n, 0, n)>> \in W
    <3> DEFINE p == <<m, n>>
    <3>1. p \in W /\ p[1] = m /\ p[2] = n /\ 0 \in Fq
      BY <2>5, FieldFacts
    <3> HIDE DEF p
    <3>2. <<Combination(f, p[1], 0, p[1]), Combination(f, p[2], 0, p[2])>> \in W
      BY <1>2, <3>1
    <3> QED
      BY <3>1, <3>2
  <2> QED
    BY <2>3, <2>4, <2>5, <2>6 DEF HoldsRows
<1>4. ASSUME NEW row \in Index, NEW f \in Vectors,
             HoldsRows(W, ClearOthers(M, row, f), ClearOthers(R, row, f))
      PROVE  HoldsRows(W, M, R)
  <2>1. ClearOthers(M, row, f)[row] = M[row] /\ ClearOthers(R, row, f)[row] = R[row]
    BY OthersCleared
  <2>2. ASSUME NEW r \in Index \ {row}
        PROVE  <<M[r], R[r]>> \in W
    <3> DEFINE m == [k \in Index |-> GF_sub(M[r][k], GF_mul(f[r], M[row][k]))]
               n == [k \in Index |-> GF_sub(R[r][k], GF_mul(f[r], R[row][k]))]
    <3>1. ClearOthers(M, row, f)[r] = m
      BY OthersCleared
    <3>2. ClearOthers(R, row, f)[r] = n
      BY OthersCleared
    <3>3. /\ M[r] \in Vectors /\ M[row] \in Vectors /\ R[r] \in Vectors /\ R[row] \in Vectors
          /\ f[r] \in Fq
      BY MatrixFacts DEF Vectors
    <3>4. Combination(1, m, f[r], M[row]) = M[r]
      BY <3>3, CombinationUndoes
    <3>5. Combination(1, n, f[r], R[row]) = R[r]
      BY <3>3, CombinationUndoes
    <3> HIDE DEF m, n
    <3> DEFINE p == <<m, n>>
               q == <<M[row], R[row]>>
    <3>6. p \in W /\ p[1] = m /\ p[2] = n
      BY <1>4, <3>1, <3>2 DEF HoldsRows
    <3>7. q \in W /\ q[1] = M[row] /\ q[2] = R[row]
      BY <1>4, <2>1 DEF HoldsRows
    <3>8. 1 \in Fq
      BY FieldFacts
    <3> HIDE DEF p, q
    <3>9. <<Combination(1, p[1], f[r], q[1]), Combination(1, p[2], f[r], q[2])>> \in W
      BY <1>2, <3>3, <3>6, <3>7, <3>8
    <3> QED
      BY <3>4, <3>5, <3>6, <3>7, <3>9
  <2>3. <<M[row], R[row]>> \in W
    BY <1>4, <2>1 DEF HoldsRows
  <2> QED
    BY <2>2, <2>3 DEF HoldsRows
<1> QED
  BY <1>1, <1>3, <1>4

\* A span of the rows after one column holds the rows before it.
LEMMA ColumnUndone ==
  ASSUME NEW s \in States, NEW c \in Index, NEW W \in Spans,
         HoldsRows(W, EliminateColumn(s, c).A, EliminateColumn(s, c).rhs)
  PROVE  HoldsRows(W, s.A, s.rhs)
<1> DEFINE row == Len(s.pivots)
<1>1. s.A \in Matrices /\ s.rhs \in Matrices
  BY DEF States
<1>2. ASSUME NEW p \in Index, NEW i \in Fq,
             row \in Index, row <= p, s.A[p][c] # 0, GF_mul(s.A[p][c], i) = 1,
             LET left == LeftAfter(s.A, row, p, i)
                 f == Column(left, c)
             IN EliminateColumn(s, c)
                  = [A |-> ClearOthers(left, row, f),
                     rhs |-> ClearOthers(LeftAfter(s.rhs, row, p, i), row, f),
                     pivots |-> Append(s.pivots, c)]
      PROVE  HoldsRows(W, s.A, s.rhs)
  <2> DEFINE left == LeftAfter(s.A, row, p, i)
             right == LeftAfter(s.rhs, row, p, i)
             f == Column(left, c)
  <2>1. left \in Matrices /\ right \in Matrices
    BY <1>1, <1>2, AfterPivot
  <2>2. f \in Vectors
    BY <2>1, MatrixFacts
  <2>3. HoldsRows(W, ClearOthers(left, row, f), ClearOthers(right, row, f))
    BY <1>2
  <2>4. HoldsRows(W, left, right)
    <3> HIDE DEF left, right, f
    <3> QED
      BY <1>2, <2>1, <2>2, <2>3, OperationsUndone
  <2>5. swap_rows(s.A, row, p) \in Matrices /\ swap_rows(s.rhs, row, p) \in Matrices
    BY <1>1, <1>2, SwapRows
  <2>6. s.A[p][c] \in Fq
    BY <1>1, <1>2, MatrixFacts
  <2>7. HoldsRows(W, swap_rows(s.A, row, p), swap_rows(s.rhs, row, p))
    BY <1>2, <2>4, <2>5, <2>6, OperationsUndone DEF LeftAfter
  <2> QED
    BY <1>1, <1>2, <2>7, OperationsUndone
<1>3. \/ EliminateColumn(s, c) = s
      \/ \E p \in Index, i \in Fq :
           LET left == LeftAfter(s.A, row, p, i)
               f == Column(left, c)
           IN /\ row \in Index /\ row <= p /\ s.A[p][c] # 0 /\ GF_mul(s.A[p][c], i) = 1
              /\ EliminateColumn(s, c)
                   = [A |-> ClearOthers(left, row, f),
                      rhs |-> ClearOthers(LeftAfter(s.rhs, row, p, i), row, f),
                      pivots |-> Append(s.pivots, c)]
  BY ColumnCases
<1> HIDE DEF row
<1> QED
  BY <1>2, <1>3

-----------------------------------------------------------------------------
(* The whole elimination, and the inverse it leaves on the right.          *)

\* What the loop keeps, and what its last column gives.
Undone(G, s) ==
  \A W \in Spans : HoldsRows(W, s.A, s.rhs) => HoldsRows(W, G, pmod_mat_identity)

\* The elimination that is called as a function ends as the one of steps does.
LEMMA RrefEliminates ==
  ASSUME NEW G \in Matrices
  PROVE  Eliminated(G, pmod_mat_rref(G), N) /\ Undone(G, pmod_mat_rref(G))
<1> DEFINE Column_(g, c) == IF c = 0 THEN Started(G) ELSE EliminateColumn(g[c - 1], c - 1)
           Loop(g, m) == g = [c \in 0 .. m |-> Column_(g, c)]
<1>1. N \in Nat /\ \A c \in Nat : c < N => c \in Index
  BY FieldFacts DEF Index
<1>2. \E g : Loop(g, N)
  <2> DEFINE S == {m \in Nat : \E g : Loop(g, m)}
  <2>1. 0 \in S
    <3> DEFINE g == [c \in 0 .. 0 |-> Started(G)]
    <3>1. g = [c \in 0 .. 0 |-> Column_(g, c)]
      OBVIOUS
    <3> QED
      BY <3>1
  <2>2. ASSUME NEW m \in Nat, m \in S
        PROVE  m + 1 \in S
    <3>1. PICK g : Loop(g, m)
      BY <2>2
    <3>2. \A c \in 0 .. m : g[c] = Column_(g, c)
      <4> DEFINE h == [c \in 0 .. m |-> Column_(g, c)]
      <4>1. g = h /\ \A c \in 0 .. m : h[c] = Column_(g, c)
        BY <3>1
      <4> HIDE DEF h, Column_
      <4> QED
        BY <4>1
    <3> DEFINE h == [c \in 0 .. m + 1 |-> IF c = m + 1 THEN EliminateColumn(g[m], m) ELSE g[c]]
    <3>3. ASSUME NEW c \in 0 .. m + 1
          PROVE  h[c] = Column_(h, c)
      <4>1. CASE c = 0
        BY <3>2, <4>1
      <4>2. CASE c \in 1 .. m
        <5>1. h[c] = g[c] /\ h[c - 1] = g[c - 1]
          BY <4>2
        <5> HIDE DEF h
        <5> QED
          BY <3>2, <4>2, <5>1
      <4>3. CASE c = m + 1
        <5>1. /\ h[m + 1] = EliminateColumn(g[m], m) /\ h[m] = g[m]
              /\ (m + 1) - 1 = m /\ m + 1 # 0
          OBVIOUS
        <5> HIDE DEF h
        <5> QED
          BY <4>3, <5>1
      <4> QED
        BY <4>1, <4>2, <4>3
    <3>4. h = [c \in 0 .. m + 1 |-> h[c]]
      OBVIOUS
    <3> HIDE DEF h, Column_
    <3>5. h = [c \in 0 .. m + 1 |-> Column_(h, c)]
      BY <3>3, <3>4
    <3> QED
      BY <3>5
  <2> HIDE DEF S
  <2>3. \A m \in Nat : m \in S
    BY <2>1, <2>2, NumbersByInduction
  <2> QED
    BY <1>1, <2>3 DEF S
<1> DEFINE after == CHOOSE g : Loop(g, N)
<1>3. Loop(after, N)
  <2> HIDE DEF Loop
  <2> QED
    BY <1>2
<1>4. pmod_mat_rref(G) = after[N]
  BY DEF pmod_mat_rref
<1> HIDE DEF after
<1>5. \A c \in 0 .. N : after[c] = Column_(after, c)
  <2> DEFINE h == [c \in 0 .. N |-> Column_(after, c)]
  <2>1. after = h /\ \A c \in 0 .. N : h[c] = Column_(after, c)
    BY <1>3
  <2> HIDE DEF h, Column_
  <2> QED
    BY <2>1
<1>6. after[0] = Started(G) /\ \A c \in Index : after[c + 1] = EliminateColumn(after[c], c)
  <2>1. \A c \in Index : c + 1 \in 0 .. N /\ c + 1 # 0 /\ (c + 1) - 1 = c
    BY <1>1 DEF Index
  <2> QED
    BY <1>1, <1>5, <2>1
<1> DEFINE S == {c \in Nat : c <= N => Eliminated(G, after[c], c) /\ Undone(G, after[c])}
<1>7. 0 \in S
  <2>1. Started(G).A = G /\ Started(G).rhs = pmod_mat_identity
    BY DEF Started
  <2>2. Undone(G, Started(G))
    BY <2>1 DEF Undone
  <2> QED
    BY <1>6, <2>2, StartsEliminated
<1>8. ASSUME NEW c \in Nat, c \in S
      PROVE  c + 1 \in S
  <2>1. ASSUME c + 1 <= N
        PROVE  Eliminated(G, after[c + 1], c + 1) /\ Undone(G, after[c + 1])
    <3> DEFINE s == after[c]
    <3>1. c \in Index /\ Eliminated(G, s, c) /\ Undone(G, s)
      BY <1>1, <1>8, <2>1
    <3>2. after[c + 1] = EliminateColumn(s, c)
      BY <1>6, <3>1
    <3> HIDE DEF s
    <3>3. Eliminated(G, EliminateColumn(s, c), c + 1)
      BY <3>1, ColumnEliminates
    <3>4. s \in States
      BY <3>1 DEF Eliminated
    <3>5. Undone(G, EliminateColumn(s, c))
      BY <3>1, <3>4, ColumnUndone DEF Undone
    <3> QED
      BY <3>2, <3>3, <3>5
  <2> QED
    BY <2>1
<1> HIDE DEF S
<1>9. \A c \in Nat : c \in S
  BY <1>7, <1>8, NumbersByInduction
<1> QED
  BY <1>1, <1>4, <1>9 DEF S

\* As many rising columns as there are columns are all of them.
LEMMA RisingIsAll ==
  ASSUME NEW p \in Seq(Index), Len(p) = N,
         \A i, j \in DOMAIN p : i < j => p[i] < p[j]
  PROVE  \A i \in 1 .. N : p[i] = i - 1
<1>1. N \in Nat /\ DOMAIN p = 1 .. N /\ \A i \in 1 .. N : p[i] \in 0 .. N - 1
  <2>1. N \in Nat
    BY FieldFacts
  <2>2. DOMAIN p = 1 .. N /\ \A i \in 1 .. N : p[i] \in Index
    OBVIOUS
  <2> QED
    BY <2>1, <2>2 DEF Index
<1> DEFINE S == {k \in Nat : k < N => p[k + 1] >= k}
           T == {k \in Nat : k < N => p[N - k] <= N - k - 1}
<1>2. 0 \in S
  BY <1>1
<1>3. ASSUME NEW k \in Nat, k \in S
      PROVE  k + 1 \in S
  <2>1. ASSUME k + 1 < N
        PROVE  p[(k + 1) + 1] >= k + 1
    <3>1. k + 1 \in 1 .. N /\ (k + 1) + 1 \in 1 .. N /\ k + 1 < (k + 1) + 1 /\ p[k + 1] >= k
      BY <1>1, <1>3, <2>1
    <3>2. p[k + 1] < p[(k + 1) + 1]
      BY <1>1, <3>1
    <3> QED
      BY <1>1, <3>1, <3>2
  <2> QED
    BY <2>1
<1>4. 0 \in T
  BY <1>1
<1>5. ASSUME NEW k \in Nat, k \in T
      PROVE  k + 1 \in T
  <2>1. ASSUME k + 1 < N
        PROVE  p[N - (k + 1)] <= N - (k + 1) - 1
    <3>1. N - k \in 1 .. N /\ N - (k + 1) \in 1 .. N /\ N - (k + 1) < N - k /\ p[N - k] <= N - k - 1
      BY <1>1, <1>5, <2>1
    <3>2. p[N - (k + 1)] < p[N - k]
      BY <1>1, <3>1
    <3> QED
      BY <1>1, <3>1, <3>2
  <2> QED
    BY <2>1
<1> HIDE DEF S, T
<1>6. \A k \in Nat : k \in S
  BY <1>2, <1>3, NumbersByInduction
<1>7. \A k \in Nat : k \in T
  BY <1>4, <1>5, NumbersByInduction
<1>8. ASSUME NEW i \in 1 .. N
      PROVE  p[i] = i - 1
  <2>1. i - 1 \in Nat /\ i - 1 < N /\ (i - 1) + 1 = i /\ N - i \in Nat /\ N - i < N /\ N - (N - i) = i
    BY <1>1
  <2>2. p[i] >= i - 1
    <3>1. i - 1 \in S
      BY <1>6, <2>1
    <3> QED
      BY <2>1, <3>1 DEF S
  <2>3. p[i] <= i - 1
    <3>1. N - i \in T
      BY <1>7, <2>1
    <3> QED
      BY <2>1, <3>1 DEF T
  <2>4. p[i] \in Int /\ i \in Int
    BY <1>1
  <2> QED
    BY <2>2, <2>3, <2>4
<1> QED
  BY <1>8

\* With a pivot in every column the matrix is the identity, and what is on the
\* right is the inverse from both sides.
LEMMA FullRankInverts ==
  ASSUME NEW G \in Matrices, NEW s, NEW c \in Nat,
         Eliminated(G, s, c), Undone(G, s), c <= N, Len(s.pivots) = N
  PROVE  /\ s.A = pmod_mat_identity /\ s.rhs \in Matrices
         /\ pmod_mat_mul(s.rhs, G) = pmod_mat_identity
         /\ pmod_mat_mul(G, s.rhs) = pmod_mat_identity
<1>1. /\ s.A \in Matrices /\ s.rhs \in Matrices /\ s.pivots \in Seq(Index)
      /\ N \in Nat /\ DOMAIN s.pivots = 1 .. N
      /\ RowsCombine(G, s.rhs, s.A) /\ Reduced(s, c)
  BY FieldFacts DEF Eliminated, States
<1>2. \A i \in 1 .. N : s.pivots[i] = i - 1
  BY <1>1, RisingIsAll DEF Reduced
<1>3. s.A = pmod_mat_identity
  <2>1. ASSUME NEW r \in Index, NEW k \in Index
        PROVE  s.A[r][k] = IF r = k THEN 1 ELSE 0
    <3>1. k + 1 \in 1 .. N /\ (k + 1) - 1 = k
      BY <1>1 DEF Index
    <3>2. s.pivots[k + 1] = k
      BY <1>2, <3>1
    <3> QED
      BY <1>1, <3>1, <3>2 DEF Reduced
  <2>2. s.A = [r \in Index |-> [k \in Index |-> s.A[r][k]]]
    BY <1>1, MatrixFacts
  <2> QED
    BY <2>1, <2>2 DEF pmod_mat_identity
<1>4. pmod_mat_mul(s.rhs, G) = pmod_mat_identity
  <2>1. \A r, k \in Index : Dot(s.rhs[r], Column(G, k)) = pmod_mat_identity[r][k]
    BY <1>1, <1>3 DEF RowsCombine
  <2>2. pmod_mat_identity = [r \in Index |-> [k \in Index |-> pmod_mat_identity[r][k]]]
    BY IdentityFacts, MatrixFacts
  <2>3. pmod_mat_mul(s.rhs, G) = [r \in Index |-> [k \in Index |-> Dot(s.rhs[r], Column(G, k))]]
    BY <1>1, MulEntries
  <2> QED
    BY <2>1, <2>2, <2>3
<1>5. pmod_mat_mul(G, s.rhs) = pmod_mat_identity
  <2> DEFINE Times(u, v) == \A k \in Index : v[k] = Dot(u, Column(s.rhs, k))
             W == {p \in Vectors \X Vectors : Times(p[1], p[2])}
  <2>1. \A k \in Index : Column(s.rhs, k) \in Vectors
    BY <1>1, MatrixFacts
  <2>2. ASSUME NEW p \in W, NEW q \in W, NEW x \in Fq, NEW y \in Fq
        PROVE  <<Combination(x, p[1], y, q[1]), Combination(x, p[2], y, q[2])>> \in W
    <3> DEFINE u == Combination(x, p[1], y, q[1])
               v == Combination(x, p[2], y, q[2])
    <3>1. p[1] \in Vectors /\ p[2] \in Vectors /\ q[1] \in Vectors /\ q[2] \in Vectors
      OBVIOUS
    <3>2. \A a, b \in Vectors : /\ Combination(x, a, y, b) \in Vectors
                                /\ Combines(Q, N, x, y, Combination(x, a, y, b), a, b)
      <4>1. ASSUME NEW a \in Vectors, NEW b \in Vectors, NEW k \in Index
            PROVE  /\ a[k] \in Int /\ b[k] \in Int /\ x * a[k] + y * b[k] \in Int
                   /\ Combination(x, a, y, b)[k] = (x * a[k] + y * b[k]) % Q
                   /\ Combination(x, a, y, b)[k] \in Fq /\ Combination(x, a, y, b)[k] \in Int
                   /\ Combination(x, a, y, b)[k] % Q = (x * a[k] + y * b[k]) % Q
        <5>1. a[k] \in Int /\ b[k] \in Int /\ x \in Int /\ y \in Int /\ Q \in Nat \ {0}
          BY FieldFacts DEF Vectors
        <5> DEFINE e == x * a[k] + y * b[k]
        <5>2. e \in Int /\ Combination(x, a, y, b)[k] = e % Q
          BY <5>1 DEF Combination
        <5> HIDE DEF e
        <5>3. e % Q \in Fq /\ e % Q \in Int /\ (e % Q) % Q = e % Q
          BY <5>1, <5>2, FieldFacts, RemainderTwice
        <5> QED
          BY <5>1, <5>2, <5>3 DEF e
      <4>2. ASSUME NEW a \in Vectors, NEW b \in Vectors
            PROVE  Combination(x, a, y, b) \in Vectors
        <5>1. \A k \in Index : (x * a[k] + y * b[k]) % Q \in Fq
          BY <4>1 DEF Combination
        <5> QED
          BY <5>1 DEF Combination, Vectors
      <4>3. ASSUME NEW a \in Vectors, NEW b \in Vectors
            PROVE  Combines(Q, N, x, y, Combination(x, a, y, b), a, b)
        BY <4>1 DEF Combines, Index
      <4> QED
        BY <4>2, <4>3
    <3>3. u \in Vectors /\ v \in Vectors /\ Combines(Q, N, x, y, u, p[1], q[1])
      BY <3>1, <3>2
    <3>4. \A k \in Index : v[k] = (x * p[2][k] + y * q[2][k]) % Q
      BY DEF Combination
    <3>5. \A a \in Vectors : a \in [Index -> Int]
      BY FieldFacts DEF Vectors
    <3>6. \A k \in Index : /\ p[2][k] = Dot(p[1], Column(s.rhs, k))
                           /\ q[2][k] = Dot(q[1], Column(s.rhs, k))
      OBVIOUS
    <3> HIDE DEF u, v, W
    <3>7. ASSUME NEW k \in Index
          PROVE  v[k] = Dot(u, Column(s.rhs, k))
      <4> DEFINE w == Column(s.rhs, k)
                 a == p[1]
                 b == q[1]
      <4>1. w \in [Index -> Int] /\ a \in [Index -> Int] /\ b \in [Index -> Int] /\ u \in [Index -> Int]
        BY <2>1, <3>1, <3>3, <3>5
      <4>2. x \in Int /\ y \in Int /\ Combines(Q, N, x, y, u, a, b)
        BY <3>3, FieldFacts
      <4> HIDE DEF w, a, b
      <4>3. Dot(u, w) = (x * Dot(a, w) + y * Dot(b, w)) % Q
        <5>1. DotsCombine(x, y, u, a, b)
          BY <4>1, <4>2, DotCombines
        <5> QED
          BY <4>1, <5>1 DEF DotsCombine
      <4> QED
        BY <3>4, <3>6, <4>3 DEF w, a, b
    <3>8. Times(u, v)
      BY <3>7
    <3> QED
      BY <3>3, <3>8 DEF u, v, W
  <2>3. W \in Spans
    <3> HIDE DEF Times
    <3>1. W \subseteq Vectors \X Vectors
      OBVIOUS
    <3> HIDE DEF W
    <3> QED
      BY <2>2, <3>1 DEF Spans
  <2>4. ASSUME NEW r \in Index
        PROVE  <<pmod_mat_identity[r], s.rhs[r]>> \in W
    <3>1. pmod_mat_identity[r] \in Vectors /\ s.rhs[r] \in Vectors
      BY <1>1, IdentityFacts, MatrixFacts
    <3>2. \A k \in Index : s.rhs[r][k] = Dot(pmod_mat_identity[r], Column(s.rhs, k))
      BY <1>1, <2>1, MatrixFacts, UnitRow
    <3> QED
      BY <3>1, <3>2
  <2>5. HoldsRows(W, G, pmod_mat_identity)
    <3> HIDE DEF W
    <3>1. HoldsRows(W, s.A, s.rhs)
      BY <1>3, <2>4 DEF HoldsRows
    <3> QED
      BY <2>3, <3>1 DEF Undone
  <2>6. \A r, k \in Index : pmod_mat_identity[r][k] = Dot(G[r], Column(s.rhs, k))
    BY <2>5 DEF HoldsRows
  <2>7. pmod_mat_identity = [r \in Index |-> [k \in Index |-> pmod_mat_identity[r][k]]]
    BY IdentityFacts, MatrixFacts
  <2> QED
    BY <1>1, <2>6, <2>7, MulEntries
<1> QED
  BY <1>1, <1>3, <1>4, <1>5

\* pmod_mat_inv: it is the inverse from both sides, or there is none.
LEMMA InverseIsTwoSided ==
  ASSUME NEW G \in Matrices, pmod_mat_is_invertible(G)
  PROVE  /\ pmod_mat_inv(G) \in Matrices /\ pmod_mat_inv(G) # None
         /\ pmod_mat_mul(pmod_mat_inv(G), G) = pmod_mat_identity
         /\ pmod_mat_mul(G, pmod_mat_inv(G)) = pmod_mat_identity
<1> DEFINE s == pmod_mat_rref(G)
<1>1. Eliminated(G, s, N) /\ Undone(G, s) /\ N \in Nat /\ N <= N
  BY RrefEliminates, FieldFacts
<1>2. Len(s.pivots) = N /\ pmod_mat_inv(G) = s.rhs
  BY DEF pmod_mat_is_invertible, pmod_mat_rank, pmod_mat_inv, InverseOf
<1> HIDE DEF s
<1>3. /\ s.rhs \in Matrices
      /\ pmod_mat_mul(s.rhs, G) = pmod_mat_identity
      /\ pmod_mat_mul(G, s.rhs) = pmod_mat_identity
  BY <1>1, <1>2, FullRankInverts
<1>4. s.rhs # None
  <2>1. DOMAIN s.rhs = Index /\ 0 \in Index
    BY <1>3, FieldFacts DEF Matrices
  <2> QED
    BY <2>1 DEF None
<1> QED
  BY <1>2, <1>3, <1>4

-----------------------------------------------------------------------------
(* The elimination of any matrix.                                          *)

ElimInv ==
  /\ given \in Matrices /\ col \in Nat /\ col <= N
  /\ Eliminated(given, info, col) /\ Undone(given, info)

\* It is invariant.
LEMMA ElimInvariant == ElimSpec => []ElimInv
<1>1. ElimInit => ElimInv
  <2> SUFFICES ASSUME ElimInit
               PROVE  ElimInv
    OBVIOUS
  <2>1. given \in Matrices /\ info = Started(given) /\ col = 0
    BY GivenMatricesAssumption DEF ElimInit
  <2>2. info.A = given /\ info.rhs = pmod_mat_identity
    BY <2>1 DEF Started
  <2>3. N \in Nat
    BY FieldFacts
  <2> QED
    BY <2>1, <2>2, <2>3, StartsEliminated DEF ElimInv, Undone
<1>2. ElimInv /\ [ElimStep]_elimVars => ElimInv'
  <2> SUFFICES ASSUME ElimInv, [ElimStep]_elimVars
               PROVE  ElimInv'
    OBVIOUS
  <2>1. CASE ElimStep
    <3>1. /\ info' = EliminateColumn(info, col) /\ col' = col + 1 /\ given' = given
          /\ given \in Matrices /\ col \in Index /\ col + 1 \in Nat /\ col + 1 <= N
      BY <2>1, FieldFacts DEF ElimStep, ElimInv, Index
    <3>2. Eliminated(given, info, col) /\ Undone(given, info) /\ info \in States
      BY DEF ElimInv, Eliminated
    <3>3. Eliminated(given, EliminateColumn(info, col), col + 1)
      BY <3>1, <3>2, ColumnEliminates
    <3>4. Undone(given, EliminateColumn(info, col))
      BY <3>1, <3>2, ColumnUndone DEF Undone
    <3>5. Eliminated(given', info', col') /\ Undone(given', info')
      BY <3>1, <3>3, <3>4
    <3> QED
      BY <3>1, <3>5 DEF ElimInv
  <2>2. CASE UNCHANGED elimVars
    BY <2>2 DEF ElimInv, elimVars
  <2> QED
    BY <2>1, <2>2
<1> QED
  BY <1>1, <1>2, PTL DEF ElimSpec

\* ReducedByRowOperations, for every matrix over every field: what was done to
\* the matrix was done to the right-hand side, and the columns passed are
\* reduced (pmod_mat_rref_core_vartime of matrixelim.c).
THEOREM EliminationReduces == ElimSpec => []ReducedByRowOperations
<1>1. ElimInv => ReducedByRowOperations
  <2> SUFFICES ASSUME ElimInv
               PROVE  ReducedByRowOperations
    OBVIOUS
  <2>1. /\ given \in Matrices /\ col \in Nat /\ col <= N /\ N \in Nat
        /\ info \in States /\ info.A \in Matrices /\ info.rhs \in Matrices
        /\ info.pivots \in Seq(Index)
        /\ RowsCombine(given, info.rhs, info.A) /\ Reduced(info, col)
    BY FieldFacts DEF ElimInv, Eliminated, States
  <2>2. pmod_mat_mul(info.rhs, given) = info.A
    <3>1. info.A = [r \in Index |-> [c \in Index |-> info.A[r][c]]]
      BY <2>1, MatrixFacts
    <3>2. pmod_mat_mul(info.rhs, given)
            = [r \in Index |-> [c \in Index |-> Dot(info.rhs[r], Column(given, c))]]
      BY <2>1, MulEntries
    <3>3. \A r, c \in Index : Dot(info.rhs[r], Column(given, c)) = info.A[r][c]
      BY <2>1 DEF RowsCombine
    <3> QED
      BY <3>1, <3>2, <3>3
  <2>3. ASSUME NEW i \in DOMAIN info.pivots
        PROVE  Column(info.A, info.pivots[i]) = Column(pmod_mat_identity, i - 1)
    <3>1. \A r \in Index : info.A[r][info.pivots[i]] = IF r = i - 1 THEN 1 ELSE 0
      BY <2>1 DEF Reduced
    <3>2. i - 1 \in Index
      BY <2>1 DEF Reduced, Index
    <3>3. \A r \in Index : pmod_mat_identity[r][i - 1] = IF r = i - 1 THEN 1 ELSE 0
      BY <3>2, IdentityFacts
    <3> QED
      BY <3>1, <3>3 DEF Column
  <2> QED
    BY <2>1, <2>2, <2>3 DEF ReducedByRowOperations, Reduced
<1> QED
  BY <1>1, ElimInvariant, PTL

-----------------------------------------------------------------------------
(* GF_batch_inv.                                                           *)

\* A field has no divisors of zero.
LEMMA ProductsNotZero ==
  ASSUME NEW x \in Fq \ {0}, NEW y \in Fq \ {0}
  PROVE  GF_mul(x, y) \in Fq \ {0}
<1> DEFINE i == GF_inv(y)
<1>1. i \in Fq /\ GF_mul(y, i) = 1
  BY InverseInField, InverseAssumption
<1> HIDE DEF i
<1>2. GF_mul(GF_mul(x, y), i) = GF_mul(x, 1)
  BY <1>1, ProductsAssociate
<1>3. GF_mul(x, 1) = x /\ GF_mul(0, i) = 0
  BY <1>1, FieldZero
<1>4. GF_mul(x, y) \in Fq
  BY FieldFacts
<1> QED
  BY <1>2, <1>3, <1>4

\* The product of the first i elements, as far as it was computed.
PrefixBefore(i) == IF i = 1 THEN 1 ELSE prefix[i - 1]

PrefixInv ==
  /\ in \in Seq(Fq) /\ prefix \in Seq(Fq \ {0}) /\ Len(prefix) <= Len(in)
  /\ acc \in Fq /\ batchResult \in {-1, 0, 1}
  /\ \A i \in 1 .. Len(prefix) : in[i] # 0 /\ prefix[i] = GF_mul(PrefixBefore(i), in[i])

\* The elements after m are inverted, and acc is the inverse of the product of
\* the others.
DividedTo(m) ==
  /\ m \in 1 .. Len(in) /\ GF_mul(acc, prefix[m]) = 1
  /\ \A i \in 1 .. m : inverses[i] = Unwritten
  /\ \A i \in m + 1 .. Len(in) : inverses[i] \in Fq /\ GF_mul(in[i], inverses[i]) = 1

BatchInv ==
  /\ PrefixInv
  /\ inverses \in [1 .. Len(in) -> Fq \cup {Unwritten}]
  /\ batchResult = -1 => \E i \in 1 .. Len(in) : in[i] = 0
  /\ acc = 0 => \A i \in 1 .. Len(in) : inverses[i] = Unwritten
  /\ acc = 0 /\ batchResult = 0 => in = <<>>
  /\ acc # 0 => Len(prefix) = Len(in) /\ Len(in) > 0
  /\ acc # 0 /\ batchResult = 1 => \E m \in 1 .. Len(in) : DividedTo(m)
  /\ acc # 0 /\ batchResult = 0 => \A i \in 1 .. Len(in) : GF_mul(in[i], inverses[i]) = 1

\* It is invariant.
LEMMA BatchInvariant == BatchSpec => []BatchInv
<1> USE GivenListsAssumption
<1>0. /\ Q \in Nat /\ Q > 1 /\ 0 \in Fq /\ 1 \in Fq \ {0} /\ Fq \subseteq Int /\ Unwritten \notin Fq
      /\ Fq \subseteq Nat
  <2>1. Unwritten \notin Fq /\ Fq \subseteq Nat
    BY DEF Unwritten, Fq
  <2> QED
    BY <2>1, FieldFacts
<1>1. BatchInit => BatchInv
  <2> SUFFICES ASSUME BatchInit
               PROVE  BatchInv
    OBVIOUS
  <2>1. /\ in \in Seq(Fq) /\ prefix = <<>> /\ acc = 0 /\ batchResult = 1
        /\ inverses = [i \in 1 .. Len(in) |-> Unwritten]
    BY DEF BatchInit
  <2>2. PrefixInv
    BY <1>0, <2>1 DEF PrefixInv
  <2> QED
    BY <2>1, <2>2 DEF BatchInv
<1>2. BatchInv /\ [BatchNext]_batchVars => BatchInv'
  <2> SUFFICES ASSUME BatchInv, [BatchNext]_batchVars
               PROVE  BatchInv'
    OBVIOUS
  <2> DEFINE n == Len(in)
  <2>0. /\ in \in Seq(Fq) /\ prefix \in Seq(Fq \ {0}) /\ n \in Nat /\ Len(prefix) \in Nat
        /\ Len(prefix) <= n /\ DOMAIN in = 1 .. n /\ DOMAIN prefix = 1 .. Len(prefix)
        /\ \A i \in 1 .. n : in[i] \in Fq
        /\ \A i \in 1 .. Len(prefix) : prefix[i] \in Fq \ {0}
    BY DEF BatchInv, PrefixInv
  <2>1. CASE Empty
    BY <2>1 DEF Empty, BatchInv, PrefixInv, PrefixBefore
  <2>2. CASE Multiply
    <3>1. /\ batchResult = 1 /\ acc = 0 /\ Len(prefix) < n
          /\ in' = in /\ acc' = acc /\ inverses' = inverses
      BY <2>2 DEF Multiply, Multiplying
    <3> DEFINE i == Len(prefix) + 1
    <3>2. i \in 1 .. n /\ Element = in[i] /\ in[i] \in Fq
      BY <2>0, <3>1 DEF Element
    <3>3. CASE Element = 0
      <4>1. batchResult' = -1 /\ prefix' = prefix
        BY <2>2, <3>3 DEF Multiply
      <4>2. PrefixInv'
        BY <3>1, <4>1 DEF BatchInv, PrefixInv, PrefixBefore
      <4>3. in'[i] = 0 /\ i \in 1 .. Len(in')
        BY <3>1, <3>2, <3>3
      <4> HIDE DEF i
      <4> QED
        BY <3>1, <4>1, <4>2, <4>3 DEF BatchInv
    <3>4. CASE Element # 0
      <4> DEFINE x == GF_mul(Product, Element)
      <4>1. prefix' = Append(prefix, x) /\ batchResult' = batchResult
        BY <2>2, <3>4 DEF Multiply
      <4>2. Product \in Fq \ {0} /\ Product = PrefixBefore(i)
        <5>1. CASE prefix = <<>>
          BY <1>0, <5>1 DEF Product, PrefixBefore
        <5>2. CASE prefix # <<>>
          <6>1. Len(prefix) \in 1 .. Len(prefix) /\ i # 1 /\ i - 1 = Len(prefix)
            BY <2>0, <5>2
          <6> QED
            BY <2>0, <5>2, <6>1 DEF Product, PrefixBefore
        <5> QED
          BY <5>1, <5>2
      <4>3. x \in Fq \ {0}
        BY <3>2, <3>4, <4>2, ProductsNotZero
      <4> HIDE DEF x
      <4>4. /\ prefix' \in Seq(Fq \ {0}) /\ Len(prefix') = i /\ prefix'[i] = x
            /\ \A j \in 1 .. Len(prefix) : prefix'[j] = prefix[j]
        BY <2>0, <4>1, <4>3
      <4>5. ASSUME NEW j \in 1 .. i
            PROVE  in[j] # 0 /\ prefix'[j] = GF_mul(PrefixBefore(j)', in[j])
        <5>1. j = 1 \/ j - 1 \in 1 .. Len(prefix)
          BY <2>0
        <5>2. PrefixBefore(j)' = PrefixBefore(j)
          BY <4>4, <5>1 DEF PrefixBefore
        <5>3. CASE j = i
          BY <3>2, <3>4, <4>2, <4>4, <5>2, <5>3 DEF x
        <5>4. CASE j # i
          <6>1. j \in 1 .. Len(prefix)
            BY <2>0, <5>4
          <6> QED
            BY <4>4, <5>2, <6>1 DEF BatchInv, PrefixInv
        <5> QED
          BY <5>3, <5>4
      <4>6. PrefixInv'
        <5>1. i <= n /\ acc \in Fq
          BY <2>0, <3>1 DEF BatchInv, PrefixInv
        <5>2. \A j \in 1 .. i : in'[j] # 0 /\ prefix'[j] = GF_mul(PrefixBefore(j)', in'[j])
          BY <3>1, <4>5
        <5> QED
          BY <2>0, <3>1, <4>1, <4>4, <5>1, <5>2 DEF PrefixInv
      <4> QED
        BY <3>1, <4>1, <4>6 DEF BatchInv
    <3> QED
      BY <3>3, <3>4
  <2>3. CASE Invert
    <3>1. /\ batchResult = 1 /\ acc = 0 /\ in # <<>> /\ Len(prefix) = n
          /\ in' = in /\ prefix' = prefix /\ inverses' = inverses
      BY <2>3 DEF Invert
    <3>2. n \in 1 .. n /\ n > 0 /\ prefix[n] \in Fq \ {0}
      BY <2>0, <3>1
    <3>3. acc' = GF_inv(prefix[n]) /\ batchResult' = batchResult
      BY <2>3, <3>2 DEF Invert
    <3>4. acc' \in Fq /\ GF_mul(prefix[n], acc') = 1
      BY <3>2, <3>3, InverseInField, InverseAssumption
    <3>5. GF_mul(acc', prefix[n]) = 1
      BY <3>2, <3>4, ProductsCommute
    <3>6. acc' # 0
      BY <3>2, <3>5, FieldZero
    <3>7. DividedTo(n)'
      <4>1. \A j \in 1 .. n : inverses[j] = Unwritten
        BY <3>1 DEF BatchInv
      <4> QED
        BY <2>0, <3>1, <3>2, <3>5, <4>1 DEF DividedTo
    <3>8. PrefixInv'
      BY <3>1, <3>3, <3>4 DEF BatchInv, PrefixInv, PrefixBefore
    <3> QED
      BY <3>1, <3>2, <3>3, <3>6, <3>7, <3>8 DEF BatchInv
  <2>4. CASE Divide
    <3>1. batchResult = 1 /\ acc # 0 /\ in' = in /\ prefix' = prefix /\ acc \in Fq
      BY <2>4 DEF Divide, Dividing, BatchInv, PrefixInv
    <3>2. n > 0 /\ Len(prefix) = n
      BY <3>1 DEF BatchInv
    <3>3. PICK m \in 1 .. n : DividedTo(m)
      BY <3>1 DEF BatchInv
    <3>4. Last = m
      <4>1. \A i \in 1 .. n : inverses[i] = Unwritten <=> i <= m
        <5>1. \A i \in 1 .. n : i <= m => i \in 1 .. m
          BY <2>0
        <5>2. \A i \in 1 .. n : ~(i <= m) => i \in m + 1 .. n
          BY <2>0
        <5> QED
          BY <1>0, <3>3, <5>1, <5>2 DEF DividedTo
      <4>2. Left = 1 .. m
        BY <2>0, <4>1 DEF Left
      <4>3. m \in Left /\ \A j \in Left : j <= m
        BY <3>3, <4>2
      <4>4. \A i \in Left : (\A j \in Left : j <= i) => i = m
        BY <3>3, <4>2, <4>3
      <4> QED
        BY <4>3, <4>4 DEF Last
    <3>5. /\ m \in 1 .. n /\ in[m] \in Fq /\ in[m] # 0 /\ prefix[m] \in Fq
          /\ prefix[m] = GF_mul(PrefixBefore(m), in[m]) /\ GF_mul(acc, prefix[m]) = 1
      BY <2>0, <3>2, <3>3 DEF BatchInv, PrefixInv, DividedTo
    <3>6. inverses \in [1 .. n -> Fq \cup {Unwritten}]
      BY DEF BatchInv
    <3>7. CASE m > 1
      <4> DEFINE p == prefix[m - 1]
                 y == GF_mul(acc, p)
                 z == GF_mul(acc, in[m])
      <4>1. inverses' = [inverses EXCEPT ![m] = y] /\ acc' = z /\ batchResult' = batchResult
        BY <2>4, <3>4, <3>7 DEF Divide, NextAcc
      <4>2. m - 1 \in 1 .. n /\ p \in Fq /\ PrefixBefore(m) = p
        BY <2>0, <3>2, <3>7 DEF PrefixBefore
      <4> HIDE DEF p
      <4>3. y \in Fq /\ z \in Fq
        BY <3>1, <3>5, <4>2, FieldFacts
      <4>4. GF_mul(in[m], y) = 1
        <5>1. GF_mul(in[m], y) = GF_mul(y, in[m])
          BY <3>5, <4>3, ProductsCommute
        <5>2. GF_mul(y, in[m]) = GF_mul(acc, GF_mul(p, in[m]))
          BY <3>1, <3>5, <4>2, ProductsAssociate
        <5> QED
          BY <3>5, <4>2, <5>1, <5>2
      <4>5. GF_mul(z, p) = 1
        <5>1. GF_mul(z, p) = GF_mul(acc, GF_mul(in[m], p))
          BY <3>1, <3>5, <4>2, ProductsAssociate
        <5>2. GF_mul(in[m], p) = GF_mul(p, in[m])
          BY <3>5, <4>2, ProductsCommute
        <5> QED
          BY <3>5, <4>2, <5>1, <5>2
      <4>6. z # 0
        BY <4>2, <4>5, FieldZero
      <4> HIDE DEF y, z
      <4>7. /\ inverses' \in [1 .. n -> Fq \cup {Unwritten}] /\ inverses'[m] = y
            /\ \A i \in 1 .. n : i # m => inverses'[i] = inverses[i]
        BY <3>5, <3>6, <4>1, <4>3
      <4>8. \A i \in 1 .. m - 1 : inverses'[i] = Unwritten
        <5>1. \A i \in 1 .. m - 1 : i \in 1 .. n /\ i # m /\ i \in 1 .. m
          BY <2>0
        <5> QED
          BY <3>3, <4>7, <5>1 DEF DividedTo
      <4>9. \A i \in (m - 1) + 1 .. n : inverses'[i] \in Fq /\ GF_mul(in[i], inverses'[i]) = 1
        <5>1. \A i \in (m - 1) + 1 .. n : i = m \/ (i \in 1 .. n /\ i # m /\ i \in m + 1 .. n)
          BY <2>0
        <5> QED
          BY <3>3, <4>3, <4>4, <4>7, <5>1 DEF DividedTo
      <4>10. DividedTo(m - 1)'
        BY <3>1, <4>1, <4>2, <4>5, <4>8, <4>9 DEF DividedTo, p
      <4>11. PrefixInv'
        BY <3>1, <4>1, <4>3 DEF BatchInv, PrefixInv, PrefixBefore
      <4> QED
        BY <3>1, <3>2, <4>1, <4>2, <4>6, <4>7, <4>10, <4>11 DEF BatchInv
    <3>8. CASE ~(m > 1)
      <4>1. m = 1
        BY <3>5, <3>8
      <4>2. inverses' = [inverses EXCEPT ![1] = acc] /\ acc' = acc /\ batchResult' = 0
        BY <2>4, <3>4, <4>1 DEF Divide
      <4>3. GF_mul(in[1], acc) = 1
        <5>1. prefix[1] = GF_mul(1, in[1]) /\ in[1] \in Fq
          BY <3>5, <4>1 DEF PrefixBefore
        <5>2. GF_mul(1, in[1]) = in[1] /\ GF_mul(acc, in[1]) = GF_mul(in[1], acc)
          BY <3>1, <5>1, FieldZero, ProductsCommute
        <5> QED
          BY <3>5, <4>1, <5>1, <5>2
      <4>4. /\ inverses' \in [1 .. n -> Fq \cup {Unwritten}] /\ inverses'[1] = acc
            /\ \A i \in 1 .. n : i # 1 => inverses'[i] = inverses[i]
        BY <3>1, <3>5, <3>6, <4>1, <4>2
      <4>5. \A i \in 1 .. n : GF_mul(in[i], inverses'[i]) = 1
        <5>1. \A i \in 1 .. n : i = 1 \/ (i # 1 /\ i \in m + 1 .. n)
          BY <2>0, <4>1
        <5> QED
          BY <3>3, <4>3, <4>4, <5>1 DEF DividedTo
      <4>6. PrefixInv'
        BY <3>1, <4>2 DEF BatchInv, PrefixInv, PrefixBefore
      <4> QED
        BY <3>1, <3>2, <4>2, <4>4, <4>5, <4>6 DEF BatchInv
    <3> QED
      BY <3>7, <3>8
  <2>5. CASE UNCHANGED batchVars
    BY <2>5 DEF batchVars, BatchInv, PrefixInv, PrefixBefore, DividedTo
  <2> QED
    BY <2>1, <2>2, <2>3, <2>4, <2>5 DEF BatchNext
<1> QED
  BY <1>1, <1>2, PTL DEF BatchSpec

\* InvertsAllOrNothing, for lists of any length: GF_batch_inv of field.c
\* succeeds exactly without a 0, and then every element times its inverse is 1;
\* a list with a 0 leaves the buffer alone.
THEOREM BatchInvertsAllOrNothing == BatchSpec => []InvertsAllOrNothing
<1>1. BatchInv => InvertsAllOrNothing
  <2> SUFFICES ASSUME BatchInv
               PROVE  InvertsAllOrNothing
    OBVIOUS
  <2>1. /\ DOMAIN in = 1 .. Len(in) /\ DOMAIN inverses = 1 .. Len(in) /\ Len(in) \in Nat
        /\ batchResult \in {-1, 0, 1}
    BY DEF BatchInv, PrefixInv
  <2>2. ASSUME batchResult = 0, NEW i \in 1 .. Len(in)
        PROVE  GF_mul(in[i], inverses[i]) = 1
    <3>1. in # <<>>
      BY <2>1, <2>2
    <3> QED
      BY <2>2, <3>1 DEF BatchInv
  <2>3. ASSUME NEW i \in 1 .. Len(in), in[i] = 0
        PROVE  batchResult # 0 /\ \A j \in 1 .. Len(in) : inverses[j] = Unwritten
    <3>1. acc = 0
      <4>1. acc # 0 => in[i] # 0
        BY <2>3 DEF BatchInv, PrefixInv
      <4> QED
        BY <2>3, <4>1
    <3>2. in # <<>>
      BY <2>1, <2>3
    <3> QED
      BY <3>1, <3>2 DEF BatchInv
  <2>4. batchResult = -1 => \E i \in 1 .. Len(in) : in[i] = 0
    BY DEF BatchInv
  <2> HIDE DEF BatchInv
  <2> QED
    BY <2>1, <2>2, <2>3, <2>4 DEF InvertsAllOrNothing
<1> QED
  BY <1>1, BatchInvariant, PTL

-----------------------------------------------------------------------------
(* The expansion of a pair of matrices.                                    *)

\* A row and a column can be read off the place of their element.
LEMMA Positions ==
  ASSUME NEW r \in Index, NEW c \in Index
  PROVE  /\ r * N + c \in 0 .. Elements - 1 /\ Elements \in Nat
         /\ (r * N + c) \div N = r /\ (r * N + c) % N = c
<1>1. /\ N \in Nat \ {0} /\ r \in Nat /\ c \in Nat /\ c \in 0 .. N - 1 /\ r <= N - 1 /\ c <= N - 1
      /\ r \in Int
  <2>1. N \in Nat \ {0}
    BY FieldFacts
  <2> QED
    BY <2>1 DEF Index
<1>2. (N * r + c) % N = c /\ (N * r + c) \div N = r
  BY <1>1, RemainderIs
<1> DEFINE p == r * N
           top == (N - 1) * N
<1>3. p = N * r /\ p \in Nat /\ p <= top /\ top + N = N * N /\ N * N \in Nat /\ top \in Int
  <2>1. \A a, b, d \in Nat : a <= b => a * d <= b * d
    OBVIOUS
  <2>2. N - 1 \in Nat
    BY <1>1
  <2>3. p <= top
    BY <1>1, <2>1, <2>2
  <2>4. p = N * r /\ p \in Nat /\ N * N \in Nat /\ top \in Int
    BY <1>1, <2>2
  <2>5. top + N = N * N
    BY <1>1
  <2> QED
    BY <2>3, <2>4, <2>5
<1> HIDE DEF p, top
<1>4. p + c \in 0 .. Elements - 1 /\ Elements \in Nat
  BY <1>1, <1>3 DEF Elements
<1> QED
  BY <1>2, <1>3, <1>4 DEF p

\* Where the element of row r and column c is, in a matrix at p.
At(p, r, c) == p + r * N + c

\* A matrix that is copied is found where it was copied to.
LEMMA CopiedInside ==
  ASSUME NEW memory, NEW pointer \in Nat, NEW M, NEW r \in Index, NEW c \in Index,
         At(pointer, r, c) \in Memory
  PROVE  CopiedMatrix(memory, pointer, M)[At(pointer, r, c)] = M[r][c]
<1> DEFINE o == r * N
           i == o + c
           a == At(pointer, r, c)
<1>1. i \in 0 .. Elements - 1 /\ Elements \in Nat /\ i \div N = r /\ i % N = c
  BY Positions
<1>2. o \in Int /\ c \in Int /\ pointer # NULL
  BY FieldFacts DEF Index, NULL
<1>3. a = pointer + o + c
  BY DEF At
<1> HIDE DEF o, a
<1>4. a - pointer = i
  BY <1>2, <1>3
<1>5. a \in pointer .. pointer + Elements - 1
  BY <1>1, <1>2, <1>3
<1>6. a \in Memory
  BY DEF a
<1> HIDE DEF i
<1>7. CopiedMatrix(memory, pointer, M)[a] = M[(a - pointer) \div N][(a - pointer) % N]
  BY <1>2, <1>5, <1>6 DEF CopiedMatrix
<1> QED
  BY <1>1, <1>4, <1>7 DEF a

\* The rest of the memory is as before.
LEMMA CopiedOutside ==
  ASSUME NEW memory, NEW pointer, NEW M, NEW a \in Memory,
         ~ (pointer # NULL /\ a \in pointer .. pointer + Elements - 1)
  PROVE  CopiedMatrix(memory, pointer, M)[a] = memory[a]
BY DEF CopiedMatrix

CallerUntouched == \A a \in Memory : caller[a] = UntouchedCell

\* Where the outputs of a pair may lie.
Placed ==
  /\ call.matrix \in {NULL, FirstMatrix}
  /\ call.inverse \in {NULL} \cup 0 .. Cells + 1 - Elements
  /\ ~ ranges_overlap(call.matrix, call.inverse, Elements)

\* What a pair that was written leaves.
Matched ==
  /\ call.matrix # NULL => Held(call.matrix) = Drawn
  /\ call.inverse # NULL =>
       pmod_mat_mul(Drawn, Held(call.inverse)) = pmod_mat_identity
  /\ pmod_mat_is_invertible(Drawn)
  /\ \A a \in Memory \ Outputs : caller[a] = UntouchedCell

ExpandInv ==
  /\ expanding \in {"idle", "domain", "squeeze", "stream", "elements", "outputs"}
  /\ samples \in Seq(Fq) /\ DOMAIN caller = Memory
  /\ expanding \in {"idle", "domain", "stream", "outputs"} => ~ expandHeld
  /\ call.op # "base_form" /\ (expanding # "idle" \/ result = -1) => CallerUntouched
  /\ call.op = "pair" /\ expanding # "idle" => Placed
  /\ expanding = "outputs" =>
       call.op = "pair" /\ Len(samples) = Elements /\ pmod_mat_is_invertible(Drawn)
  /\ expanding = "idle" /\ call.op = "pair" /\ result = 0 => Matched

\* Field elements in row-major order make a matrix.
LEMMA DrawnIsMatrix ==
  ASSUME samples \in Seq(Fq), Len(samples) = Elements
  PROVE  Drawn \in Matrices
<1>1. ASSUME NEW r \in Index, NEW c \in Index
      PROVE  samples[r * N + c + 1] \in Fq
  <2> DEFINE i == r * N + c
  <2>1. i \in 0 .. Elements - 1 /\ Elements \in Nat
    BY Positions
  <2> HIDE DEF i
  <2>2. i + 1 \in 1 .. Len(samples)
    BY <2>1
  <2>3. samples[i + 1] \in Fq
    BY <2>2
  <2> QED
    BY <2>3 DEF i
<1> QED
  BY <1>1 DEF Drawn, Matrices, Vectors

\* Written where they do not overlap, both matrices are found again.
LEMMA WritingMatches ==
  ASSUME ExpandInv, WriteOutputs
  PROVE  result' = 0 /\ Matched'
<1> DEFINE inverse == pmod_mat_inv(Drawn)
           first == CopiedMatrix(caller, call.matrix, Drawn)
           written == CopiedMatrix(first, call.inverse, inverse)
<1>1. /\ call.op = "pair" /\ Len(samples) = Elements /\ samples \in Seq(Fq)
      /\ pmod_mat_is_invertible(Drawn) /\ CallerUntouched /\ Placed
      /\ call' = call /\ samples' = samples
  BY DEF ExpandInv, WriteOutputs
<1>2. Drawn \in Matrices
  BY <1>1, DrawnIsMatrix
<1>3. /\ inverse \in Matrices /\ inverse # None
      /\ pmod_mat_mul(Drawn, inverse) = pmod_mat_identity
  BY <1>1, <1>2, InverseIsTwoSided
<1>4. result' = 0 /\ caller' = written
  BY <1>3 DEF WriteOutputs, ExpandReturn
<1>5. Drawn' = Drawn
  BY <1>1 DEF Drawn
<1> DEFINE m == call.matrix
           i == call.inverse
<1>6. /\ m \in Nat \cup {NULL} /\ i \in Nat \cup {NULL}
      /\ m # NULL => m = FirstMatrix /\ m + Elements - 1 <= Cells
      /\ i # NULL => i + Elements - 1 <= Cells
      /\ Elements \in Nat /\ Cells \in Nat
      /\ m # NULL /\ i # NULL => m >= i + Elements \/ i >= m + Elements
  <2>1. Elements \in Nat
    BY FieldFacts DEF Elements
  <2> QED
    BY <1>1, <2>1, MemoryAssumption DEF Placed, NULL, ranges_overlap
<1> HIDE DEF inverse, first, written, m, i
<1>7. ASSUME NEW p \in Nat, p + Elements - 1 <= Cells, NEW r \in Index, NEW c \in Index
      PROVE  /\ At(p, r, c) \in Memory
             /\ At(p, r, c) \in p .. p + Elements - 1
  <2> DEFINE o == r * N
  <2>1. o + c \in 0 .. Elements - 1
    BY Positions
  <2>2. o \in Int /\ c \in Int
    BY FieldFacts DEF Index
  <2> HIDE DEF o
  <2>3. p + o + c \in Memory /\ p + o + c \in p .. p + Elements - 1
    BY <1>6, <1>7, <2>1, <2>2 DEF Memory
  <2> QED
    BY <2>3 DEF o, At
<1>8. ASSUME NEW r \in Index, NEW c \in Index
      PROVE  /\ m # NULL /\ At(m, r, c) \in Memory => first[At(m, r, c)] = Drawn[r][c]
             /\ i # NULL /\ At(i, r, c) \in Memory => written[At(i, r, c)] = inverse[r][c]
  <2>1. ASSUME m # NULL, At(m, r, c) \in Memory
        PROVE  first[At(m, r, c)] = Drawn[r][c]
    <3>1. m \in Nat
      BY <1>6, <2>1
    <3>2. CopiedMatrix(caller, m, Drawn)[At(m, r, c)] = Drawn[r][c]
      BY <2>1, <3>1, CopiedInside
    <3>3. first = CopiedMatrix(caller, m, Drawn)
      BY DEF first, m
    <3> QED
      BY <3>2, <3>3
  <2>2. ASSUME i # NULL, At(i, r, c) \in Memory
        PROVE  written[At(i, r, c)] = inverse[r][c]
    <3>1. i \in Nat
      BY <1>6, <2>2
    <3>2. CopiedMatrix(first, i, inverse)[At(i, r, c)] = inverse[r][c]
      BY <2>2, <3>1, CopiedInside
    <3>3. written = CopiedMatrix(first, i, inverse)
      BY DEF written, i
    <3> QED
      BY <3>2, <3>3
  <2> QED
    BY <2>1, <2>2
<1>9. ASSUME NEW a \in Memory
      PROVE  /\ ~ (m # NULL /\ a \in m .. m + Elements - 1) => first[a] = caller[a]
             /\ ~ (i # NULL /\ a \in i .. i + Elements - 1) => written[a] = first[a]
  <2>1. first = CopiedMatrix(caller, m, Drawn) /\ written = CopiedMatrix(first, i, inverse)
    BY DEF first, written, m, i
  <2> QED
    BY <2>1, CopiedOutside
<1>10. ASSUME m # NULL
       PROVE  [r \in Index |-> [c \in Index |-> written[At(m, r, c)]]] = Drawn
  <2>1. ASSUME NEW r \in Index, NEW c \in Index
        PROVE  written[At(m, r, c)] = Drawn[r][c]
    <3> DEFINE a == At(m, r, c)
    <3>1. a \in Memory /\ a \in m .. m + Elements - 1
      BY <1>6, <1>7, <1>10
    <3>2. first[a] = Drawn[r][c]
      BY <1>8, <1>10, <3>1
    <3> HIDE DEF a
    <3>3. ~ (i # NULL /\ a \in i .. i + Elements - 1)
      BY <1>6, <1>10, <3>1
    <3>4. written[a] = first[a]
      BY <1>9, <3>1, <3>3
    <3> QED
      BY <3>2, <3>4 DEF a
  <2>2. Drawn = [r \in Index |-> [c \in Index |-> Drawn[r][c]]]
    BY <1>2, MatrixFacts
  <2> QED
    BY <2>1, <2>2
<1>11. ASSUME i # NULL
       PROVE  [r \in Index |-> [c \in Index |-> written[At(i, r, c)]]] = inverse
  <2>1. ASSUME NEW r \in Index, NEW c \in Index
        PROVE  written[At(i, r, c)] = inverse[r][c]
    BY <1>6, <1>7, <1>8, <1>11
  <2>2. inverse = [r \in Index |-> [c \in Index |-> inverse[r][c]]]
    BY <1>3, MatrixFacts
  <2> QED
    BY <2>1, <2>2
<1>12. ASSUME NEW a \in Memory, a \notin Outputs
       PROVE  written[a] = UntouchedCell
  <2>1. m # NULL => a \notin m .. m + Elements - 1
    BY <1>12 DEF Outputs, m
  <2>2. i # NULL => a \notin i .. i + Elements - 1
    BY <1>12 DEF Outputs, i
  <2> QED
    BY <1>1, <1>8, <1>9, <2>1, <2>2 DEF CallerUntouched
<1>13. call.matrix # NULL => Held(call.matrix)' = Drawn
  BY <1>1, <1>4, <1>10 DEF Held, m, At
<1>14. call.inverse # NULL => Held(call.inverse)' = inverse
  BY <1>1, <1>4, <1>11 DEF Held, i, At
<1>15. Outputs' = Outputs
  BY <1>1 DEF Outputs
<1>16. \A a \in Memory \ Outputs : caller'[a] = UntouchedCell
  BY <1>4, <1>12
<1> QED
  BY <1>1, <1>3, <1>4, <1>5, <1>13, <1>14, <1>15, <1>16 DEF Matched

\* It is invariant.
LEMMA ExpandInvariant == ExpandSpec => []ExpandInv
<1>1. ExpandInit => ExpandInv
  BY DEF ExpandInit, ExpandInv, CallerUntouched
<1>2. ExpandInv /\ [ExpandNext]_expandVars => ExpandInv'
  <2> SUFFICES ASSUME ExpandInv, [ExpandNext]_expandVars
               PROVE  ExpandInv'
    OBVIOUS
  <2>1. ASSUME NEW op \in {"public_seed", "base_form", "pair"}, NEW m, NEW i, NEW refused,
               Begin(op, m, i, refused),
               op = "pair" /\ ~ refused =>
                 /\ m \in {NULL, FirstMatrix} /\ i \in {NULL} \cup 0 .. Cells + 1 - Elements
                 /\ ~ ranges_overlap(m, i, Elements)
        PROVE  ExpandInv'
    <3>1. /\ call'.op = op /\ call'.matrix = m /\ call'.inverse = i
          /\ caller' = [a \in Memory |-> UntouchedCell] /\ samples' = <<>>
          /\ expandHeld' = expandHeld /\ ~ expandHeld
      BY <2>1 DEF Begin, ExpandInv
    <3>2. CallerUntouched' /\ DOMAIN caller' = Memory
      BY <3>1 DEF CallerUntouched
    <3>3. CASE refused
      <4>1. expanding' = "idle" /\ result' = -1
        BY <2>1, <3>3 DEF Begin
      <4> QED
        BY <3>1, <3>2, <4>1 DEF ExpandInv
    <3>4. CASE ~ refused
      <4>1. expanding' = "domain"
        BY <2>1, <3>4 DEF Begin
      <4>2. op = "pair" => Placed'
        BY <2>1, <3>1, <3>4 DEF Placed
      <4> QED
        BY <3>1, <3>2, <4>1, <4>2 DEF ExpandInv
    <3> QED
      BY <3>3, <3>4
  <2>2. CASE trine_expand_public_seed
    BY <2>1, <2>2 DEF trine_expand_public_seed
  <2>3. CASE trine_expand_base_form
    BY <2>1, <2>3 DEF trine_expand_base_form
  <2>4. CASE trine_expand_secret_matrix_pair
    BY <2>1, <2>4 DEF trine_expand_secret_matrix_pair
  <2>5. CASE InitDomain
    BY <2>5 DEF InitDomain, ExpandInv, CallerUntouched, Placed
  <2>6. CASE Squeeze
    <3>1. CASE call.op = "public_seed"
      BY <2>6, <3>1 DEF Squeeze, ExpandReturn, ExpandInv
    <3>2. CASE call.op # "public_seed"
      BY <2>6, <3>2 DEF Squeeze, ExpandInv, CallerUntouched, Placed
    <3> QED
      BY <3>1, <3>2
  <2>7. CASE InitStream
    BY <2>7 DEF InitStream, ExpandInv, CallerUntouched, Placed
  <2>8. ASSUME NEW sample \in FieldSamples, rnd_GF(sample)
        PROVE  ExpandInv'
    <3>1. /\ expanding = "elements" /\ expanding' = expanding /\ call' = call
          /\ samples' = Append(samples, sample) /\ sample < Q
          /\ caller' = IF call.op = "base_form"
                       THEN [caller EXCEPT ![call.matrix + Len(samples)] = sample] ELSE caller
      BY <2>8 DEF rnd_GF, Drawing
    <3>2. sample \in Fq
      BY <3>1, FieldFacts DEF FieldSamples, Fq
    <3>3. samples' \in Seq(Fq) /\ DOMAIN caller' = Memory
      BY <3>1, <3>2 DEF ExpandInv
    <3> QED
      BY <3>1, <3>3 DEF ExpandInv, CallerUntouched, Placed
  <2>9. ASSUME NEW sample \in FieldSamples, rnd_GF_refuses(sample)
        PROVE  ExpandInv'
    BY <2>9 DEF rnd_GF_refuses, expandVars, ExpandInv, CallerUntouched, Placed, Matched, Held,
               Drawn, Outputs
  <2>10. CASE BaseFormDrawn
    BY <2>10 DEF BaseFormDrawn, ExpandReturn, ExpandInv
  <2>11. CASE TestMatrix
    <3>1. /\ expanding = "elements" /\ call.op = "pair" /\ Len(samples) = Elements
          /\ call' = call /\ caller' = caller /\ result' = result
      BY <2>11 DEF TestMatrix, Wanted
    <3>2. CASE pmod_mat_is_invertible(Drawn)
      <4>1. expanding' = "outputs" /\ ~ expandHeld' /\ samples' = samples
        BY <2>11, <3>2 DEF TestMatrix
      <4>2. Drawn' = Drawn
        BY <4>1 DEF Drawn
      <4> QED
        BY <3>1, <3>2, <4>1, <4>2 DEF ExpandInv, CallerUntouched, Placed
    <3>3. CASE ~ pmod_mat_is_invertible(Drawn)
      <4>1. expanding' = expanding /\ expandHeld' = expandHeld /\ samples' = <<>>
        BY <2>11, <3>3 DEF TestMatrix, Again
      <4> QED
        BY <3>1, <4>1 DEF ExpandInv, CallerUntouched, Placed
    <3> QED
      BY <3>2, <3>3
  <2>12. CASE WriteOutputs
    <3>1. result' = 0 /\ Matched'
      BY <2>12, WritingMatches
    <3>2. /\ expanding' = "idle" /\ ~ expandHeld' /\ call' = call /\ samples' = samples
          /\ DOMAIN caller' = Memory
      BY <2>12 DEF WriteOutputs, ExpandReturn, CopiedMatrix, ExpandInv
    <3> QED
      BY <3>1, <3>2 DEF ExpandInv
  <2>13. CASE XofFails
    BY <2>13 DEF XofFails, ExpandReturn, ExpandInv, CallerUntouched
  <2>14. CASE UNCHANGED expandVars
    BY <2>14 DEF expandVars, ExpandInv, CallerUntouched, Placed, Matched, Held, Drawn, Outputs
  <2> QED
    BY <2>2, <2>3, <2>4, <2>5, <2>6, <2>7, <2>8, <2>9, <2>10, <2>11, <2>12, <2>13, <2>14
    DEF ExpandNext
<1> QED
  BY <1>1, <1>2, PTL DEF ExpandSpec

\* PairMatches, for any dimension and wherever the outputs lie: a call that
\* returns 0 leaves an invertible matrix and its inverse, or the one of them it
\* was asked for, and one that fails leaves the memory alone (trine_expand.c and
\* rnd_inv_matrix of util.c).
THEOREM ExpandedPairMatches == ExpandSpec => []PairMatches
<1>1. ExpandInv => PairMatches
  BY DEF ExpandInv, PairMatches, Matched, CallerUntouched
<1> QED
  BY <1>1, ExpandInvariant, PTL

-----------------------------------------------------------------------------
(* Linear functions.                                                       *)

\* Two elements of the field, combined.
Mixed(x, a, y, b) == (x * a + y * b) % Q

\* Combinations of vectors are vectors.
LEMMA CombinationFacts ==
  ASSUME NEW x \in Fq, NEW y \in Fq, NEW u \in Vectors, NEW v \in Vectors
  PROVE  /\ Combination(x, u, y, v) \in Vectors
         /\ \A k \in Index : Combination(x, u, y, v)[k] = Mixed(x, u[k], y, v[k])
<1>1. \A k \in Index : u[k] \in Int /\ v[k] \in Int
  BY FieldFacts DEF Vectors
<1>2. x \in Int /\ y \in Int
  BY FieldFacts
<1>3. \A k \in Index : x * u[k] + y * v[k] \in Int
  BY <1>1, <1>2
<1>4. \A k \in Index : Mixed(x, u[k], y, v[k]) \in Fq
  BY <1>3, FieldFacts DEF Mixed
<1> QED
  BY <1>4 DEF Combination, Mixed, Vectors

Linear ==
  {f \in [Vectors -> Fq] :
     \A x, y \in Fq, u, v \in Vectors :
       f[Combination(x, u, y, v)] = Mixed(x, f[u], y, f[v])}

\* Multiplying an element and reducing.
LEMMA ReducedProduct ==
  ASSUME NEW x \in Fq, NEW y \in Fq
  PROVE  GF_mul(x, y) = (x * y) % Q /\ (1 * x) % Q = x /\ x % Q = x
<1>1. x \in 0 .. Q - 1 /\ Q \in Nat \ {0}
  BY FieldFacts DEF Fq
<1>2. x % Q = x
  BY <1>1, RemainderOfSmall
<1> QED
  BY <1>1, <1>2 DEF GF_mul

\* Zero is a vector, and a linear function is 0 there.
LEMMA LinearAtZero ==
  /\ Zero \in Vectors /\ \A k \in Index : Zero[k] = 0
  /\ \A f \in Linear : f[Zero] = 0
<1>1. Zero \in Vectors /\ \A k \in Index : Zero[k] = 0
  BY FieldFacts DEF Zero, Vectors
<1>2. ASSUME NEW f \in Linear
      PROVE  f[Zero] = 0
  <2>1. Combination(0, Zero, 0, Zero) = Zero
    <3>1. \A k \in Index : Mixed(0, Zero[k], 0, Zero[k]) = 0
      BY <1>1, FieldFacts, ReducedProduct DEF Mixed
    <3> QED
      BY <3>1 DEF Combination, Mixed, Zero
  <2>2. f[Zero] \in Fq /\ f[Zero] = Mixed(0, f[Zero], 0, f[Zero])
    BY <1>1, <2>1, FieldFacts DEF Linear
  <2>3. f[Zero] \in Int /\ 0 % Q = 0
    BY <2>2, FieldFacts, ReducedProduct
  <2>4. 0 * f[Zero] + 0 * f[Zero] = 0
    BY <2>3
  <2> QED
    BY <2>2, <2>3, <2>4 DEF Mixed
<1> QED
  BY <1>1, <1>2

\* A linear function is the product with its values at the unit vectors: by
\* induction on the number of elements that are not replaced by 0.
LEMMA LinearIsDot ==
  ASSUME NEW f \in Linear, NEW v \in Vectors
  PROVE  f[v] = Dot(v, [k \in Index |-> f[pmod_mat_identity[k]]])
<1> DEFINE head(n) == [k \in Index |-> IF k < n THEN v[k] ELSE 0]
           e(k) == pmod_mat_identity[k]
           terms == [k \in Index |-> v[k] * f[e(k)]]
<1>1. \A k \in Index : v[k] \in Fq /\ e(k) \in Vectors /\ f[e(k)] \in Fq
  BY IdentityFacts DEF Vectors, Matrices, Linear
<1>2. \A k \in 0 .. N - 1 : terms[k] = v[k] * f[e(k)] /\ terms[k] \in Int
  <2> SUFFICES ASSUME NEW k \in 0 .. N - 1
               PROVE  terms[k] = v[k] * f[e(k)] /\ terms[k] \in Int
    OBVIOUS
  <2>1. k \in Index
    BY DEF Index
  <2>2. terms[k] = v[k] * f[e(k)]
    BY <2>1
  <2>3. v[k] \in Int /\ f[e(k)] \in Int
    <3> HIDE DEF e
    <3> QED
      BY <1>1, <2>1, FieldFacts
  <2> HIDE DEF terms, e
  <2> QED
    BY <2>2, <2>3
<1>3. \A n \in Nat : head(n) \in Vectors
  BY <1>1, FieldFacts DEF Vectors
<1> HIDE DEF terms
<1>4. /\ Sum(terms, 0) = 0
      /\ \A k \in 0 .. N - 1 : Sum(terms, k) \in Int /\ Sum(terms, k + 1) = Sum(terms, k) + terms[k]
  BY <1>2, FieldFacts, SumSteps
<1> DEFINE S == {n \in Nat : n <= N => f[head(n)] = Sum(terms, n) % Q}
<1>5. 0 \in S
  <2>1. head(0) = Zero
    BY DEF Zero, Index
  <2>2. 0 % Q = 0
    BY FieldFacts, ReducedProduct
  <2> QED
    BY <1>4, <2>1, <2>2, LinearAtZero
<1>6. ASSUME NEW n \in Nat, n \in S
      PROVE  n + 1 \in S
  <2> SUFFICES ASSUME n + 1 <= N
               PROVE  f[head(n + 1)] = Sum(terms, n + 1) % Q
    OBVIOUS
  <2>1. n \in Index /\ n \in 0 .. N - 1 /\ N \in Nat /\ n <= N
    BY FieldFacts DEF Index
  <2>2. head(n + 1) = Combination(1, head(n), v[n], e(n))
    <3>1. ASSUME NEW k \in Index
          PROVE  head(n + 1)[k] = Mixed(1, head(n)[k], v[n], e(n)[k])
      <4>1. k \in Int /\ v[k] \in Fq /\ v[k] \in Int /\ v[n] \in Fq /\ v[n] \in Int
        <5>1. v[k] \in Fq /\ v[n] \in Fq
          BY <1>1, <2>1
        <5>2. Fq \subseteq Int
          BY FieldFacts
        <5>3. k \in Int
          BY <2>1 DEF Index
        <5> QED
          BY <5>1, <5>2, <5>3
      <4>2. v[k] % Q = v[k] /\ v[n] % Q = v[n] /\ 0 % Q = 0
        BY <4>1, FieldFacts, ReducedProduct
      <4>3. e(n)[k] = IF n = k THEN 1 ELSE 0
        BY <2>1, IdentityFacts
      <4>4. CASE k < n
        BY <4>1, <4>2, <4>3, <4>4 DEF Mixed
      <4>5. CASE k = n
        BY <4>1, <4>2, <4>3, <4>5 DEF Mixed
      <4>6. CASE k > n
        BY <4>1, <4>2, <4>3, <4>6 DEF Mixed
      <4> QED
        BY <2>1, <4>1, <4>4, <4>5, <4>6
    <3> QED
      BY <3>1 DEF Combination, Mixed
  <2>3. f[head(n + 1)] = Mixed(1, f[head(n)], v[n], f[e(n)])
    <3>1. head(n) \in Vectors /\ e(n) \in Vectors /\ v[n] \in Fq /\ 1 \in Fq
      BY <1>1, <1>3, <2>1, FieldFacts
    <3> HIDE DEF head, e
    <3> QED
      BY <2>2, <3>1 DEF Linear
  <2>4. f[head(n)] = Sum(terms, n) % Q
    BY <1>6, <2>1
  <2> DEFINE s == Sum(terms, n)
             t == terms[n]
  <2>5. s \in Int /\ t \in Int /\ t = v[n] * f[e(n)] /\ Sum(terms, n + 1) = s + t
    BY <1>2, <1>4, <2>1
  <2> HIDE DEF s, t
  <2>6. s % Q \in Int /\ (s % Q) % Q = s % Q /\ Q \in Nat \ {0}
    BY <2>5, FieldFacts, RemainderTwice
  <2>7. ((s % Q) + t) % Q = (s + t) % Q
    <3> DEFINE r == s % Q
    <3>1. (s + t) % Q = (r + (t % Q)) % Q
      BY <2>5, <2>6, ReducedFirst
    <3>2. r \in Int /\ r % Q = r
      BY <2>6
    <3> HIDE DEF r
    <3>3. (r + t) % Q = ((r % Q) + (t % Q)) % Q
      BY <2>5, <2>6, <3>2, ReducedFirst
    <3> QED
      BY <3>1, <3>2, <3>3 DEF r
  <2>8. 1 * f[head(n)] + v[n] * f[e(n)] = (s % Q) + t
    BY <2>4, <2>5, <2>6 DEF s
  <2> QED
    BY <2>3, <2>5, <2>7, <2>8 DEF Mixed
<1>7. N \in S
  <2> HIDE DEF S
  <2> QED
    BY <1>5, <1>6, NumbersByInduction, FieldFacts
<1>8. head(N) = v
  BY <1>1, FieldFacts DEF Index, Vectors
<1>9. f[v] = Sum(terms, N) % Q
  BY <1>7, <1>8, FieldFacts
<1>10. Dot(v, [k \in Index |-> f[e(k)]]) = Sum(terms, N) % Q
  <2>1. [k \in Index |-> v[k] * [i \in Index |-> f[e(i)]][k]] = terms
    BY DEF terms
  <2> QED
    BY <2>1 DEF Dot, Accumulated
<1> QED
  BY <1>9, <1>10

\* So two of them that agree on the unit vectors are equal.
LEMMA LinearAgree ==
  ASSUME NEW f \in Linear, NEW g \in Linear,
         \A k \in Index : f[pmod_mat_identity[k]] = g[pmod_mat_identity[k]]
  PROVE  \A v \in Vectors : f[v] = g[v]
<1>1. [k \in Index |-> f[pmod_mat_identity[k]]] = [k \in Index |-> g[pmod_mat_identity[k]]]
  OBVIOUS
<1>2. ASSUME NEW v \in Vectors
      PROVE  f[v] = g[v]
  <2>1. f[v] = Dot(v, [k \in Index |-> f[pmod_mat_identity[k]]])
    BY LinearIsDot
  <2>2. g[v] = Dot(v, [k \in Index |-> g[pmod_mat_identity[k]]])
    BY LinearIsDot
  <2> QED
    BY <1>1, <2>1, <2>2
<1> QED
  BY <1>2

\* A Dot is the same in the other order, and linear on both sides.
LEMMA DotCommutes ==
  ASSUME NEW u \in Vectors, NEW v \in Vectors
  PROVE  Dot(u, v) = Dot(v, u) /\ Dot(u, v) \in Fq
<1>1. \A k \in Index : u[k] \in Int /\ v[k] \in Int
  BY FieldFacts DEF Vectors
<1>2. \A k \in Index : u[k] * v[k] = v[k] * u[k]
  BY <1>1
<1>3. [k \in Index |-> u[k] * v[k]] = [k \in Index |-> v[k] * u[k]]
  BY <1>2
<1>4. u \in [Index -> Int] /\ v \in [Index -> Int]
  BY <1>1 DEF Vectors
<1>5. Dot(u, v) \in Fq
  BY <1>4, DotTerms
<1> QED
  BY <1>3, <1>5 DEF Dot

\* A product is linear in either vector.
LEMMA DotLinear ==
  ASSUME NEW x \in Fq, NEW y \in Fq, NEW u \in Vectors, NEW v \in Vectors, NEW w \in Vectors
  PROVE  /\ Dot(Combination(x, u, y, v), w) = Mixed(x, Dot(u, w), y, Dot(v, w))
         /\ Dot(w, Combination(x, u, y, v)) = Mixed(x, Dot(w, u), y, Dot(w, v))
<1> DEFINE c == Combination(x, u, y, v)
<1>1. c \in Vectors /\ \A k \in Index : c[k] = Mixed(x, u[k], y, v[k])
  BY CombinationFacts
<1> HIDE DEF c
<1>2. x \in Int /\ y \in Int /\ Fq \subseteq Int /\ Q \in Nat \ {0}
  BY FieldFacts
<1>3. \A z \in Vectors : z \in [Index -> Int]
  BY <1>2 DEF Vectors
<1>4. Combines(Q, N, x, y, c, u, v)
  <2>1. ASSUME NEW k \in 0 .. N - 1
        PROVE  /\ c[k] \in Int /\ u[k] \in Int /\ v[k] \in Int
               /\ c[k] % Q = Mixed(x, u[k], y, v[k])
    <3>1. k \in Index
      BY DEF Index
    <3>2. c[k] \in Int /\ u[k] \in Int /\ v[k] \in Int
      BY <1>1, <1>3, <3>1
    <3> DEFINE t == x * u[k] + y * v[k]
    <3>3. t \in Int /\ c[k] = t % Q
      BY <1>1, <1>2, <3>1, <3>2 DEF Mixed
    <3> HIDE DEF t
    <3>4. (t % Q) % Q = t % Q
      BY <1>2, <3>3, RemainderTwice
    <3> QED
      BY <3>2, <3>3, <3>4 DEF t, Mixed
  <2> QED
    BY <2>1 DEF Combines, Mixed
<1>5. DotsCombine(x, y, c, u, v)
  BY <1>1, <1>2, <1>3, <1>4, DotCombines
<1>6. Dot(c, w) = Mixed(x, Dot(u, w), y, Dot(v, w))
  BY <1>3, <1>5 DEF DotsCombine, Mixed
<1>7. Dot(c, w) = Dot(w, c) /\ Dot(u, w) = Dot(w, u) /\ Dot(v, w) = Dot(w, v)
  BY <1>1, DotCommutes
<1> QED
  BY <1>6, <1>7 DEF c

\* Both functions that one vector of a product leaves are linear.
LEMMA DotPartials ==
  ASSUME NEW w \in Vectors
  PROVE  /\ [z \in Vectors |-> Dot(z, w)] \in Linear
         /\ [z \in Vectors |-> Dot(w, z)] \in Linear
<1>1. \A z \in Vectors : Dot(z, w) \in Fq /\ Dot(w, z) \in Fq
  BY DotCommutes
<1>2. \A x, y \in Fq, p, q \in Vectors : Combination(x, p, y, q) \in Vectors
  BY CombinationFacts
<1>3. [z \in Vectors |-> Dot(z, w)] \in Linear
  <2> DEFINE f == [z \in Vectors |-> Dot(z, w)]
  <2>1. f \in [Vectors -> Fq] /\ \A z \in Vectors : f[z] = Dot(z, w)
    BY <1>1
  <2> HIDE DEF f
  <2>2. \A x, y \in Fq, p, q \in Vectors :
          Dot(Combination(x, p, y, q), w) = Mixed(x, Dot(p, w), y, Dot(q, w))
    BY DotLinear
  <2>3. \A x, y \in Fq, p, q \in Vectors : f[Combination(x, p, y, q)] = Mixed(x, f[p], y, f[q])
    BY <1>2, <2>1, <2>2
  <2> QED
    BY <2>1, <2>3 DEF Linear, f
<1>4. [z \in Vectors |-> Dot(w, z)] = [z \in Vectors |-> Dot(z, w)]
  BY DotCommutes
<1> QED
  BY <1>3, <1>4

\* A matrix takes vectors to vectors, combinations to combinations, and the
\* unit vectors to its columns.
LEMMA MatrixLinear ==
  ASSUME NEW A \in Matrices
  PROVE  /\ \A v \in Vectors : pmod_mat_vec_mul(A, v) \in Vectors
         /\ \A v \in Vectors, r \in Index : pmod_mat_vec_mul(A, v)[r] = Dot(A[r], v)
         /\ \A x, y \in Fq, u, v \in Vectors :
              pmod_mat_vec_mul(A, Combination(x, u, y, v))
                = Combination(x, pmod_mat_vec_mul(A, u), y, pmod_mat_vec_mul(A, v))
         /\ \A k \in Index : pmod_mat_vec_mul(A, pmod_mat_identity[k]) = Column(A, k)
<1>1. \A r \in Index : A[r] \in Vectors
  BY MatrixFacts
<1>2. ASSUME NEW v \in Vectors
      PROVE  /\ pmod_mat_vec_mul(A, v) \in Vectors
             /\ \A r \in Index : pmod_mat_vec_mul(A, v)[r] = Dot(A[r], v)
  <2>1. \A r \in Index : Dot(A[r], v) \in Fq
    BY <1>1, DotCommutes
  <2> QED
    BY <2>1 DEF pmod_mat_vec_mul, Vectors
<1>3. ASSUME NEW x \in Fq, NEW y \in Fq, NEW u \in Vectors, NEW v \in Vectors
      PROVE  pmod_mat_vec_mul(A, Combination(x, u, y, v))
               = Combination(x, pmod_mat_vec_mul(A, u), y, pmod_mat_vec_mul(A, v))
  <2>1. ASSUME NEW r \in Index
        PROVE  Dot(A[r], Combination(x, u, y, v))
                 = Mixed(x, pmod_mat_vec_mul(A, u)[r], y, pmod_mat_vec_mul(A, v)[r])
    <3>1. Dot(A[r], Combination(x, u, y, v)) = Mixed(x, Dot(A[r], u), y, Dot(A[r], v))
      BY <1>1, DotLinear
    <3> QED
      BY <1>2, <3>1
  <2> QED
    BY <2>1 DEF pmod_mat_vec_mul, Combination, Mixed
<1>4. ASSUME NEW k \in Index
      PROVE  pmod_mat_vec_mul(A, pmod_mat_identity[k]) = Column(A, k)
  <2>1. pmod_mat_identity[k] \in Vectors
    BY IdentityFacts DEF Matrices
  <2>2. \A r \in Index : Dot(A[r], pmod_mat_identity[k]) = A[r][k]
    BY <1>1, <2>1, DotCommutes, UnitRow
  <2> QED
    BY <2>2 DEF pmod_mat_vec_mul, Column
<1> QED
  BY <1>2, <1>3, <1>4

\* Sums over rows and columns may change places.
LEMMA Transposed ==
  ASSUME NEW L \in Matrices, NEW u \in Vectors, NEW v \in Vectors
  PROVE  /\ [c \in Index |-> Dot(u, Column(L, c))] \in Vectors
         /\ Dot([c \in Index |-> Dot(u, Column(L, c))], v) = Dot(u, pmod_mat_vec_mul(L, v))
<1> DEFINE row(z) == [c \in Index |-> Dot(z, Column(L, c))]
           f == [z \in Vectors |-> Dot(row(z), v)]
           g == [z \in Vectors |-> Dot(z, pmod_mat_vec_mul(L, v))]
<1>1. /\ \A c \in Index : Column(L, c) \in Vectors
      /\ \A r, c \in Index : L[r][c] \in Fq /\ Column(L, c)[r] = L[r][c]
      /\ \A r \in Index : L[r] \in Vectors
  BY MatrixFacts
<1>2. pmod_mat_vec_mul(L, v) \in Vectors /\ \A r \in Index : pmod_mat_vec_mul(L, v)[r] = Dot(L[r], v)
  BY MatrixLinear
<1>3. \A z \in Vectors : row(z) \in Vectors
  <2>1. \A z \in Vectors, c \in Index : Dot(z, Column(L, c)) \in Fq
    BY <1>1, DotCommutes
  <2> QED
    BY <2>1 DEF Vectors
<1>4. ASSUME NEW x \in Fq, NEW y \in Fq, NEW p \in Vectors, NEW q \in Vectors
      PROVE  row(Combination(x, p, y, q)) = Combination(x, row(p), y, row(q))
  <2>1. \A c \in Index :
          Dot(Combination(x, p, y, q), Column(L, c))
            = Mixed(x, Dot(p, Column(L, c)), y, Dot(q, Column(L, c)))
    BY <1>1, DotLinear
  <2> QED
    BY <2>1 DEF Combination, Mixed
<1> HIDE DEF row
<1>5. f \in Linear
  <2>1. f \in [Vectors -> Fq]
    BY <1>3, DotCommutes
  <2>2. ASSUME NEW x \in Fq, NEW y \in Fq, NEW p \in Vectors, NEW q \in Vectors
        PROVE  f[Combination(x, p, y, q)] = Mixed(x, f[p], y, f[q])
    <3>1. Combination(x, p, y, q) \in Vectors
      BY CombinationFacts
    <3>2. Dot(Combination(x, row(p), y, row(q)), v) = Mixed(x, Dot(row(p), v), y, Dot(row(q), v))
      BY <1>3, DotLinear
    <3> QED
      BY <1>4, <3>1, <3>2
  <2> QED
    BY <2>1, <2>2 DEF Linear
<1>6. g \in Linear
  <2>1. g \in [Vectors -> Fq]
    BY <1>2, DotCommutes
  <2>2. ASSUME NEW x \in Fq, NEW y \in Fq, NEW p \in Vectors, NEW q \in Vectors
        PROVE  g[Combination(x, p, y, q)] = Mixed(x, g[p], y, g[q])
    <3>1. Combination(x, p, y, q) \in Vectors
      BY CombinationFacts
    <3> QED
      BY <1>2, <3>1, DotLinear
  <2> QED
    BY <2>1, <2>2 DEF Linear
<1>7. ASSUME NEW r \in Index
      PROVE  f[pmod_mat_identity[r]] = g[pmod_mat_identity[r]]
  <2>1. pmod_mat_identity[r] \in Vectors
    BY IdentityFacts DEF Matrices
  <2>2. row(pmod_mat_identity[r]) = L[r]
    <3>1. \A c \in Index : Dot(pmod_mat_identity[r], Column(L, c)) = L[r][c]
      BY <1>1, UnitRow
    <3>2. L[r] = [c \in Index |-> L[r][c]]
      BY <1>1 DEF Vectors
    <3> QED
      BY <3>1, <3>2 DEF row
  <2>3. Dot(pmod_mat_identity[r], pmod_mat_vec_mul(L, v)) = Dot(L[r], v)
    BY <1>2, UnitRow
  <2> QED
    BY <2>1, <2>2, <2>3
<1>8. f[u] = g[u]
  <2> HIDE DEF f, g
  <2> QED
    BY <1>5, <1>6, <1>7, LinearAgree
<1> QED
  BY <1>3, <1>8 DEF row

\* Products with the zero vector.
LEMMA DotZero ==
  ASSUME NEW v \in Vectors
  PROVE  Dot(v, Zero) = 0 /\ Dot(Zero, v) = 0
<1> DEFINE f == [z \in Vectors |-> Dot(v, z)]
<1>1. f \in Linear
  BY DotPartials
<1>2. f[Zero] = Dot(v, Zero) /\ Zero \in Vectors
  BY LinearAtZero
<1> HIDE DEF f
<1>3. Dot(v, Zero) = 0
  BY <1>1, <1>2, LinearAtZero
<1> QED
  BY <1>2, <1>3, DotCommutes

-----------------------------------------------------------------------------
(* The kernel that is read off an elimination.                             *)

\* Multiples of a vector.
Multiple(a, g) == [k \in Index |-> GF_mul(a, g[k])]

Line(g) == {Multiple(a, g) : a \in Fq}

\* K is the vector that spans S, or None when no vector does.
SpansLine(S, K) ==
  IF K = None THEN ~ \E g \in Vectors \ {Zero} : S = Line(g)
  ELSE K \in Vectors \ {Zero} /\ S = Line(K)

KernelSet(G) == {v \in Vectors : pmod_mat_vec_mul(G, v) = Zero}

\* A multiple of a vector is a vector, and a combination.
LEMMA MultipleFacts ==
  ASSUME NEW a \in Fq, NEW g \in Vectors
  PROVE  /\ Multiple(a, g) \in Vectors /\ \A k \in Index : Multiple(a, g)[k] = GF_mul(a, g[k])
         /\ Multiple(a, g) = Combination(a, g, 0, g)
<1>1. \A k \in Index : g[k] \in Fq
  BY DEF Vectors
<1>2. \A k \in Index : GF_mul(a, g[k]) \in Fq
  BY <1>1, FieldFacts
<1>3. Multiple(a, g) \in Vectors /\ \A k \in Index : Multiple(a, g)[k] = GF_mul(a, g[k])
  BY <1>2 DEF Multiple, Vectors
<1>4. ASSUME NEW k \in Index
      PROVE  GF_mul(a, g[k]) = (a * g[k] + 0 * g[k]) % Q
  <2>1. a \in Int /\ g[k] \in Int
    BY <1>1, FieldFacts
  <2>2. a * g[k] = a * g[k] + 0 * g[k]
    BY <2>1
  <2> QED
    BY <2>2 DEF GF_mul
<1> QED
  BY <1>3, <1>4 DEF Multiple, Combination

\* Only the products matter to a Dot.
LEMMA SameProducts ==
  ASSUME NEW a, NEW b, NEW v, \A k \in Index : a[k] * v[k] = b[k] * v[k]
  PROVE  Dot(a, v) = Dot(b, v)
<1>1. [k \in Index |-> a[k] * v[k]] = [k \in Index |-> b[k] * v[k]]
  OBVIOUS
<1> QED
  BY <1>1 DEF Dot

\* The columns with a pivot, and those without.
PivotColumns(s) == {s.pivots[i] : i \in DOMAIN s.pivots}
Free(s) == Index \ PivotColumns(s)

\* Every pivot is in a column of its own, and so as many columns are free as
\* are missing to the full rank.
LEMMA FreeColumns ==
  ASSUME NEW s \in States, Reduced(s, N)
  PROVE  /\ Len(s.pivots) \in Nat /\ DOMAIN s.pivots = 1 .. Len(s.pivots) /\ Len(s.pivots) <= N
         /\ IsFiniteSet(PivotColumns(s)) /\ Cardinality(PivotColumns(s)) = Len(s.pivots)
         /\ IsFiniteSet(Free(s)) /\ Cardinality(Free(s)) = N - Len(s.pivots)
         /\ PivotColumns(s) \subseteq Index
<1> DEFINE n == Len(s.pivots)
<1>1. s.pivots \in Seq(Index)
  BY DEF States
<1>2. n \in Nat /\ DOMAIN s.pivots = 1 .. n
  BY <1>1
<1>3. s.pivots \in [1 .. n -> PivotColumns(s)] /\ PivotColumns(s) \subseteq Index
  BY <1>1, <1>2 DEF PivotColumns
<1>4. ASSUME NEW i \in 1 .. n, NEW j \in 1 .. n, s.pivots[i] = s.pivots[j]
      PROVE  i = j
  <2>1. i \in Int /\ j \in Int /\ s.pivots[i] \in Int
    <3>1. s.pivots[i] \in Index /\ N \in Nat
      BY <1>3, FieldFacts
    <3> QED
      BY <3>1 DEF Index
  <2>2. ~ i < j /\ ~ j < i
    BY <1>2, <1>4, <2>1 DEF Reduced
  <2> QED
    BY <2>1, <2>2
<1>5. s.pivots \in Bijection(1 .. n, PivotColumns(s))
  BY <1>2, <1>3, <1>4 DEF Bijection, Injection, Surjection, IsInjective, PivotColumns
<1>6. IsFiniteSet(1 .. n) /\ Cardinality(1 .. n) = n
  <2>1. 1 \in Int /\ n \in Int /\ n >= 0
    BY <1>2
  <2>2. IsFiniteSet(1 .. n) /\ Cardinality(1 .. n) = IF 1 > n THEN 0 ELSE n - 1 + 1
    BY <2>1, FS_Interval
  <2> QED
    BY <2>1, <2>2
<1>7. IsFiniteSet(PivotColumns(s)) /\ Cardinality(PivotColumns(s)) = n
  <2>1. ExistsBijection(1 .. n, PivotColumns(s))
    BY <1>5 DEF ExistsBijection
  <2> QED
    BY <1>6, <2>1, FS_Bijection
<1>8. IsFiniteSet(Index) /\ Cardinality(Index) = N
  <2>1. 0 \in Int /\ N - 1 \in Int /\ N >= 1 /\ N \in Nat
    BY FieldFacts
  <2>2. IsFiniteSet(0 .. N - 1) /\ Cardinality(0 .. N - 1) = IF 0 > N - 1 THEN 0 ELSE (N - 1) - 0 + 1
    BY <2>1, FS_Interval
  <2> QED
    BY <2>1, <2>2 DEF Index
<1>9. IsFiniteSet(Free(s)) /\ Cardinality(Free(s)) = N - n
  <2>1. Index \cap PivotColumns(s) = PivotColumns(s)
    BY <1>3
  <2> QED
    <3>1. /\ IsFiniteSet(Index \ PivotColumns(s))
          /\ Cardinality(Index \ PivotColumns(s))
               = Cardinality(Index) - Cardinality(Index \cap PivotColumns(s))
      BY <1>8, FS_Difference
    <3> QED
      BY <1>7, <1>8, <2>1, <3>1 DEF Free
<1> QED
  BY <1>2, <1>3, <1>7, <1>9 DEF Reduced

\* Free columns at each rank: none at the full rank, one below it, and at
\* least two further down.
LEMMA FreeAtRank ==
  ASSUME NEW s \in States, Reduced(s, N)
  PROVE  /\ Len(s.pivots) = N <=> Free(s) = {}
         /\ Len(s.pivots) = N - 1 <=> \E f : Free(s) = {f}
         /\ Len(s.pivots) \notin {N, N - 1} => \E f, g \in Free(s) : f # g
<1> DEFINE n == Len(s.pivots)
<1>1. n \in Nat /\ n <= N /\ N \in Nat /\ IsFiniteSet(Free(s)) /\ Cardinality(Free(s)) = N - n
  BY FreeColumns, FieldFacts
<1>2. n = N <=> Free(s) = {}
  <2>1. N - n = 0 <=> Free(s) = {}
    BY <1>1, FS_EmptySet
  <2> QED
    BY <1>1, <2>1
<1>3. n = N - 1 <=> \E f : Free(s) = {f}
  <2>1. Cardinality(Free(s)) = 1 <=> \E f : Free(s) = {f}
    BY <1>1, FS_Singleton
  <2>2. Cardinality(Free(s)) = 1 <=> n = N - 1
    BY <1>1
  <2> QED
    BY <2>1, <2>2
<1>4. ASSUME n # N, n # N - 1
      PROVE  \E f, g \in Free(s) : f # g
  <2>1. PICK f \in Free(s) : TRUE
    BY <1>2, <1>4
  <2>2. Free(s) # {f}
    BY <1>3, <1>4
  <2> QED
    BY <2>1, <2>2
<1> QED
  BY <1>2, <1>3, <1>4

\* An elimination keeps the kernel.
LEMMA KernelKept ==
  ASSUME NEW G \in Matrices, NEW s, Eliminated(G, s, N), Undone(G, s)
  PROVE  \A v \in Vectors :
           pmod_mat_vec_mul(G, v) = Zero <=> \A r \in Index : Dot(s.A[r], v) = 0
<1>1. s.A \in Matrices /\ s.rhs \in Matrices /\ RowsCombine(G, s.rhs, s.A)
  BY DEF Eliminated, States
<1>2. \A r \in Index : G[r] \in Vectors /\ s.A[r] \in Vectors /\ s.rhs[r] \in Vectors
  BY <1>1, MatrixFacts
<1>3. Zero \in Vectors /\ \A k \in Index : Zero[k] = 0
  BY LinearAtZero
<1> SUFFICES ASSUME NEW v \in Vectors
             PROVE  pmod_mat_vec_mul(G, v) = Zero <=> \A r \in Index : Dot(s.A[r], v) = 0
  OBVIOUS
<1>4. \A r \in Index : pmod_mat_vec_mul(G, v)[r] = Dot(G[r], v)
  BY MatrixLinear
<1>5. ASSUME pmod_mat_vec_mul(G, v) = Zero, NEW r \in Index
      PROVE  Dot(s.A[r], v) = 0
  <2>1. s.A[r] = [c \in Index |-> Dot(s.rhs[r], Column(G, c))]
    <3>1. \A c \in Index : s.A[r][c] = Dot(s.rhs[r], Column(G, c))
      BY <1>1 DEF RowsCombine
    <3>2. s.A[r] = [c \in Index |-> s.A[r][c]]
      BY <1>2 DEF Vectors
    <3> QED
      BY <3>1, <3>2
  <2>2. Dot([c \in Index |-> Dot(s.rhs[r], Column(G, c))], v)
          = Dot(s.rhs[r], pmod_mat_vec_mul(G, v))
    BY <1>2, Transposed
  <2>3. Dot(s.rhs[r], Zero) = 0
    <3> DEFINE f == [z \in Vectors |-> Dot(s.rhs[r], z)]
    <3>1. f \in Linear
      BY <1>2, DotPartials
    <3>2. f[Zero] = Dot(s.rhs[r], Zero)
      BY <1>3
    <3> HIDE DEF f
    <3> QED
      BY <3>1, <3>2, LinearAtZero
  <2> QED
    BY <1>5, <2>1, <2>2, <2>3
<1>6. ASSUME \A r \in Index : Dot(s.A[r], v) = 0
      PROVE  pmod_mat_vec_mul(G, v) = Zero
  <2> DEFINE W == {p \in Vectors \X Vectors : Dot(p[1], v) = 0}
  <2>1. ASSUME NEW p \in W, NEW q \in W, NEW x \in Fq, NEW y \in Fq
        PROVE  <<Combination(x, p[1], y, q[1]), Combination(x, p[2], y, q[2])>> \in W
    <3>1. p[1] \in Vectors /\ q[1] \in Vectors /\ p[2] \in Vectors /\ q[2] \in Vectors
          /\ Dot(p[1], v) = 0 /\ Dot(q[1], v) = 0
      OBVIOUS
    <3>2. Combination(x, p[1], y, q[1]) \in Vectors /\ Combination(x, p[2], y, q[2]) \in Vectors
      BY <3>1, CombinationFacts
    <3>3. Dot(Combination(x, p[1], y, q[1]), v) = Mixed(x, Dot(p[1], v), y, Dot(q[1], v))
      BY <3>1, DotLinear
    <3>4. Mixed(x, 0, y, 0) = 0
      <4>1. x \in Int /\ y \in Int /\ 0 % Q = 0
        BY FieldFacts, ReducedProduct
      <4>2. x * 0 + y * 0 = 0
        BY <4>1
      <4> QED
        BY <4>1, <4>2 DEF Mixed
    <3> QED
      BY <3>1, <3>2, <3>3, <3>4
  <2>2. W \in Spans
    <3>1. W \in SUBSET (Vectors \X Vectors)
      OBVIOUS
    <3> HIDE DEF W
    <3> QED
      BY <2>1, <3>1 DEF Spans
  <2>3. HoldsRows(W, s.A, s.rhs)
    BY <1>2, <1>6 DEF HoldsRows
  <2>4. HoldsRows(W, G, pmod_mat_identity)
    <3> HIDE DEF W
    <3> QED
      BY <2>2, <2>3 DEF Undone
  <2>5. \A r \in Index : Dot(G[r], v) = 0
    BY <2>4 DEF HoldsRows
  <2> QED
    BY <1>3, <1>4, <2>5, MatrixLinear DEF Vectors
<1> QED
  BY <1>5, <1>6

\* When two products cancel.
LEMMA Cancelled ==
  ASSUME NEW a \in Fq, NEW x \in Fq, NEW b \in Fq
  PROVE  Mixed(1, a, x, b) = 0 <=> a = GF_mul(b, GF_neg(x))
<1>1. a \in Int /\ x \in Int /\ b \in Int /\ Q \in Nat \ {0} /\ Q \in Int /\ x * b \in Int
  <2>1. Fq \subseteq Int /\ Q \in Nat /\ Q \in Nat \ {0}
    BY FieldFacts
  <2>2. a \in Int /\ x \in Int /\ b \in Int
    BY <2>1
  <2>3. Q \in Int
    BY <2>1
  <2>4. x * b \in Int
    BY <2>2
  <2> QED
    BY <2>1, <2>2, <2>3, <2>4
<1>2. GF_neg(x) \in Int /\ \E e \in {0, 1} : GF_neg(x) = e * Q - x
  <2>1. CASE x = 0
    BY <1>1, <2>1 DEF GF_neg
  <2>2. CASE x # 0
    BY <1>1, <2>2 DEF GF_neg
  <2> QED
    BY <2>1, <2>2
<1>3. PICK e \in {0, 1} : GF_neg(x) = e * Q - x
  BY <1>2
<1> DEFINE y == x * b
<1>4. b * GF_neg(x) = (0 - y) + Q * (e * b)
  <2>1. e \in Int
    OBVIOUS
  <2>2. b * (e * Q - x) = (0 - x * b) + Q * (e * b)
    BY <1>1, <2>1
  <2> QED
    BY <1>3, <2>2
<1>5. y \in Int /\ e * b \in Int /\ 0 - y \in Int
  BY <1>1
<1> HIDE DEF y
<1>6. GF_mul(b, GF_neg(x)) = (0 - y) % Q
  <2>1. \A m, k \in Int : m = k + Q * (e * b) => m % Q = k % Q
    BY <1>1, <1>5, SameRemainder
  <2>2. b * GF_neg(x) \in Int
    BY <1>1, <1>2
  <2> QED
    BY <1>4, <1>5, <2>1, <2>2 DEF GF_mul
<1>7. a % Q = a /\ 0 % Q = 0
  BY FieldFacts, ReducedProduct
<1>8. Mixed(1, a, x, b) = (a + y) % Q
  <2>1. 1 * a + y = a + y
    BY <1>1, <1>5
  <2> QED
    BY <2>1 DEF Mixed, y
<1>9. (a + y) % Q = 0 % Q <=> a % Q = (0 - y) % Q
  <2>1. (a + y) % Q = 0 % Q <=> \E m \in Int : a + y = 0 + Q * m
    <3>1. a + y \in Int /\ 0 \in Int
      BY <1>1, <1>5
    <3> DEFINE z == a + y
    <3> HIDE DEF z
    <3>2. z % Q = 0 % Q <=> \E m \in Int : z = 0 + Q * m
      BY <1>1, <3>1, SameRemainder DEF z
    <3> QED
      BY <3>2 DEF z
  <2>2. a % Q = (0 - y) % Q <=> \E m \in Int : a = (0 - y) + Q * m
    BY <1>1, <1>5, SameRemainder
  <2>3. \A z \in Int : a + y = 0 + z <=> a = (0 - y) + z
    BY <1>1, <1>5
  <2>4. \A m \in Int : Q * m \in Int
    BY <1>1
  <2> QED
    BY <2>1, <2>2, <2>3, <2>4
<1> QED
  BY <1>6, <1>7, <1>8, <1>9

\* The row that has its pivot in a column, in a set by itself.
PivotRow(s, c) == {i \in DOMAIN s.pivots : s.pivots[i] = c}

\* The solution that has 1 in one of the free columns and 0 in the others.
FreeVector(s, f) ==
  [c \in Index |-> IF c = f THEN 1
                   ELSE IF c \in Free(s) THEN 0
                   ELSE GF_neg(s.A[Least(PivotRow(s, c)) - 1][f])]

\* A pivot stands in one row.
LEMMA PivotRows ==
  ASSUME NEW s \in States, Reduced(s, N), NEW i \in DOMAIN s.pivots
  PROVE  /\ i \in Nat /\ i - 1 \in Index /\ s.pivots[i] \in Index /\ s.pivots[i] \notin Free(s)
         /\ PivotRow(s, s.pivots[i]) = {i} /\ Least(PivotRow(s, s.pivots[i])) = i
<1>1. s.pivots \in Seq(Index) /\ DOMAIN s.pivots = 1 .. Len(s.pivots)
      /\ Len(s.pivots) \in Nat /\ Len(s.pivots) <= N /\ N \in Nat
  BY FreeColumns, FieldFacts DEF States
<1>2. i \in Nat /\ i - 1 \in Index
  BY <1>1 DEF Index
<1>3. s.pivots[i] \in Index /\ s.pivots[i] \notin Free(s)
  BY <1>1 DEF Free, PivotColumns
<1>4. ASSUME NEW j \in DOMAIN s.pivots, s.pivots[j] = s.pivots[i]
      PROVE  j = i
  <2>1. s.pivots[i] \in Int /\ j \in Int /\ i \in Int
    BY <1>1, <1>3 DEF Index
  <2>2. ~ i < j /\ ~ j < i
    BY <1>4, <2>1 DEF Reduced
  <2> QED
    BY <2>1, <2>2
<1>5. PivotRow(s, s.pivots[i]) = {i}
  BY <1>4 DEF PivotRow
<1>6. Least({i}) \in {i}
  BY <1>2, LeastIsLeast
<1> QED
  BY <1>2, <1>3, <1>5, <1>6

\* That solution, element by element.
LEMMA FreeVectorFacts ==
  ASSUME NEW s \in States, Reduced(s, N), NEW f \in Free(s)
  PROVE  /\ f \in Index /\ FreeVector(s, f) \in Vectors /\ FreeVector(s, f)[f] = 1
         /\ \A c \in Free(s) \ {f} : FreeVector(s, f)[c] = 0
         /\ \A i \in DOMAIN s.pivots :
              FreeVector(s, f)[s.pivots[i]] = GF_neg(s.A[i - 1][f])
<1>1. f \in Index /\ s.A \in Matrices /\ 0 \in Fq /\ 1 \in Fq
  BY FieldFacts DEF Free, States
<1>2. ASSUME NEW i \in DOMAIN s.pivots
      PROVE  FreeVector(s, f)[s.pivots[i]] = GF_neg(s.A[i - 1][f])
  <2>1. s.pivots[i] \in Index /\ s.pivots[i] \notin Free(s) /\ Least(PivotRow(s, s.pivots[i])) = i
    BY PivotRows
  <2> QED
    BY <2>1 DEF FreeVector
<1>3. ASSUME NEW c \in Index
      PROVE  FreeVector(s, f)[c] \in Fq
  <2>1. CASE c = f \/ c \in Free(s)
    BY <1>1, <2>1 DEF FreeVector
  <2>2. CASE c \notin Free(s)
    <3>1. PICK i \in DOMAIN s.pivots : c = s.pivots[i]
      BY <2>2 DEF Free, PivotColumns
    <3>2. i - 1 \in Index
      BY PivotRows
    <3>3. s.A[i - 1][f] \in Fq
      BY <1>1, <3>2, MatrixFacts
    <3> QED
      BY <1>2, <3>1, <3>3, FieldFacts
  <2> QED
    BY <2>1, <2>2
<1>4. FreeVector(s, f) \in Vectors
  <2>1. FreeVector(s, f) = [c \in Index |-> FreeVector(s, f)[c]]
    BY DEF FreeVector
  <2> QED
    BY <1>3, <2>1 DEF Vectors
<1>5. FreeVector(s, f)[f] = 1 /\ \A c \in Free(s) \ {f} : FreeVector(s, f)[c] = 0
  BY <1>1 DEF FreeVector, Free
<1> QED
  BY <1>1, <1>2, <1>4, <1>5

\* A row of the result with a pivot, times a vector that is 0 in all free
\* columns but one.
LEMMA RowAtPivot ==
  ASSUME NEW s \in States, Reduced(s, N), NEW f \in Free(s), NEW v \in Vectors,
         \A c \in Free(s) \ {f} : v[c] = 0,
         NEW i \in DOMAIN s.pivots
  PROVE  /\ s.A[i - 1][f] \in Fq
         /\ Dot(s.A[i - 1], v) = Mixed(1, v[s.pivots[i]], s.A[i - 1][f], v[f])
<1> DEFINE row == s.A[i - 1]
           p == s.pivots[i]
           c == Combination(1, pmod_mat_identity[p], row[f], pmod_mat_identity[f])
<1>1. f \in Index /\ i - 1 \in Index /\ p \in Index /\ p \notin Free(s) /\ i \in Nat
  BY PivotRows DEF Free
<1>2. row \in Vectors /\ row[f] \in Fq /\ 1 \in Fq /\ Fq \subseteq Int
  <2>1. s.A \in Matrices
    BY DEF States
  <2> QED
    BY <1>1, <2>1, MatrixFacts, FieldFacts
<1>3. pmod_mat_identity[p] \in Vectors /\ pmod_mat_identity[f] \in Vectors
  BY <1>1, IdentityFacts, MatrixFacts
<1> HIDE DEF row, p
<1>4. Dot(c, v) = Mixed(1, v[p], row[f], v[f])
  <2>1. Dot(pmod_mat_identity[p], v) = v[p] /\ Dot(pmod_mat_identity[f], v) = v[f]
    BY <1>1, UnitRow
  <2> QED
    BY <1>2, <1>3, <2>1, DotLinear
<1>5. ASSUME NEW k \in Index
      PROVE  row[k] * v[k] = c[k] * v[k]
  <2>1. c[k] = Mixed(1, pmod_mat_identity[p][k], row[f], pmod_mat_identity[f][k])
    <3>1. \A j \in Index :
            c[j] = Mixed(1, pmod_mat_identity[p][j], row[f], pmod_mat_identity[f][j])
      <4> DEFINE g == pmod_mat_identity[p]
                 h == pmod_mat_identity[f]
                 y == row[f]
      <4>1. g \in Vectors /\ h \in Vectors /\ y \in Fq /\ 1 \in Fq
        BY <1>2, <1>3
      <4>2. c = Combination(1, g, y, h)
        OBVIOUS
      <4> HIDE DEF c, g, h, y
      <4>3. \A j \in Index : c[j] = Mixed(1, g[j], y, h[j])
        BY <4>1, <4>2, CombinationFacts
      <4> QED
        BY <4>3 DEF g, h, y
    <3> QED
      BY <3>1
  <2>2. pmod_mat_identity[p][k] = (IF p = k THEN 1 ELSE 0)
        /\ pmod_mat_identity[f][k] = (IF f = k THEN 1 ELSE 0)
    BY <1>1, IdentityFacts
  <2>3. row[f] % Q = row[f] /\ 1 % Q = 1 /\ 0 % Q = 0 /\ row[f] \in Int
    BY <1>2, FieldFacts, ReducedProduct
  <2>4. c[k] = IF k = p THEN 1 ELSE IF k = f THEN row[f] ELSE 0
    <3>1. p # f
      BY <1>1
    <3>2. CASE k = p
      BY <2>1, <2>2, <2>3, <3>1, <3>2 DEF Mixed
    <3>3. CASE k = f
      BY <2>1, <2>2, <2>3, <3>1, <3>3 DEF Mixed
    <3>4. CASE k # f /\ k # p
      BY <2>1, <2>2, <2>3, <3>4 DEF Mixed
    <3> QED
      BY <3>1, <3>2, <3>3, <3>4
  <2>5. v[k] \in Int /\ row[k] \in Int
    BY <1>2 DEF Vectors
  <2>6. CASE k \in Free(s) /\ k # f
    <3>1. v[k] = 0
      BY <2>6
    <3>2. c[k] \in Int
      BY <2>3, <2>4
    <3> QED
      BY <2>5, <3>1, <3>2
  <2>7. CASE k = f
    BY <1>1, <2>4, <2>7
  <2>8. CASE k \notin Free(s)
    <3>1. PICK j \in DOMAIN s.pivots : k = s.pivots[j]
      BY <2>8 DEF Free, PivotColumns
    <3>2. row[k] = IF i - 1 = j - 1 THEN 1 ELSE 0
      BY <1>1, <3>1 DEF Reduced, row
    <3>3. k = p <=> j = i
      BY <3>1, PivotRows DEF p
    <3>4. k # f
      BY <2>8
    <3>5. j \in Nat
      BY PivotRows
    <3> QED
      BY <1>1, <2>4, <3>2, <3>3, <3>4, <3>5
  <2> QED
    BY <2>6, <2>7, <2>8
<1>6. Dot(row, v) = Dot(c, v)
  BY <1>5, SameProducts
<1> QED
  BY <1>2, <1>4, <1>6 DEF row, p

\* A vector that is 0 in all free columns but one is in the kernel of the
\* result exactly when it is a multiple of the solution for that column.
LEMMA KernelAtFree ==
  ASSUME NEW s \in States, Reduced(s, N), NEW f \in Free(s), NEW v \in Vectors,
         \A c \in Free(s) \ {f} : v[c] = 0
  PROVE  (\A r \in Index : Dot(s.A[r], v) = 0) <=> v = Multiple(v[f], FreeVector(s, f))
<1> DEFINE x == FreeVector(s, f)
<1>1. /\ f \in Index /\ x \in Vectors /\ x[f] = 1
      /\ \A c \in Free(s) \ {f} : x[c] = 0
      /\ \A i \in DOMAIN s.pivots : x[s.pivots[i]] = GF_neg(s.A[i - 1][f])
  BY FreeVectorFacts
<1> HIDE DEF x
<1>2. v[f] \in Fq /\ \A c \in Index : v[c] \in Fq
  BY <1>1 DEF Vectors
<1>3. Multiple(v[f], x) \in Vectors /\ \A k \in Index : Multiple(v[f], x)[k] = GF_mul(v[f], x[k])
  BY <1>1, <1>2, MultipleFacts
<1>4. \A i \in DOMAIN s.pivots :
        /\ i \in Nat /\ i - 1 \in Index /\ s.pivots[i] \in Index
        /\ (Dot(s.A[i - 1], v) = 0
             <=> v[s.pivots[i]] = GF_mul(v[f], x[s.pivots[i]]))
  <2> SUFFICES ASSUME NEW i \in DOMAIN s.pivots
               PROVE  /\ i \in Nat /\ i - 1 \in Index /\ s.pivots[i] \in Index
                      /\ (Dot(s.A[i - 1], v) = 0
                            <=> v[s.pivots[i]] = GF_mul(v[f], x[s.pivots[i]]))
    OBVIOUS
  <2>1. i \in Nat /\ i - 1 \in Index /\ s.pivots[i] \in Index
    BY PivotRows
  <2>2. /\ s.A[i - 1][f] \in Fq
        /\ Dot(s.A[i - 1], v) = Mixed(1, v[s.pivots[i]], s.A[i - 1][f], v[f])
    BY RowAtPivot
  <2>3. Mixed(1, v[s.pivots[i]], s.A[i - 1][f], v[f]) = 0
          <=> v[s.pivots[i]] = GF_mul(v[f], GF_neg(s.A[i - 1][f]))
    BY <1>2, <2>1, <2>2, Cancelled
  <2> QED
    BY <1>1, <2>1, <2>2, <2>3
<1>5. ASSUME \A r \in Index : Dot(s.A[r], v) = 0, NEW k \in Index
      PROVE  v[k] = GF_mul(v[f], x[k])
  <2>1. CASE k = f
    BY <1>1, <1>2, <2>1, FieldZero
  <2>2. CASE k # f /\ k \in Free(s)
    BY <1>1, <1>2, <2>2, FieldZero
  <2>3. CASE k \notin Free(s)
    <3>1. PICK i \in DOMAIN s.pivots : k = s.pivots[i]
      BY <2>3 DEF Free, PivotColumns
    <3> QED
      BY <1>4, <1>5, <3>1
  <2> QED
    BY <2>1, <2>2, <2>3
<1>6. ASSUME v = Multiple(v[f], x), NEW r \in Index
      PROVE  Dot(s.A[r], v) = 0
  <2>1. CASE r < Len(s.pivots)
    <3>1. r + 1 \in DOMAIN s.pivots /\ (r + 1) - 1 = r
      BY <2>1, FreeColumns DEF Index
    <3> QED
      BY <1>3, <1>4, <1>6, <3>1
  <2>2. CASE r >= Len(s.pivots)
    <3>1. s.A \in Matrices /\ s.A[r] \in Vectors
      BY MatrixFacts DEF States
    <3>2. \A k \in Index : s.A[r][k] = 0
      BY <2>2, FreeColumns DEF Reduced, Index
    <3>3. s.A[r] = Zero
      BY <3>1, <3>2 DEF Vectors, Zero
    <3>4. Dot(Zero, v) = 0
      <4> DEFINE g == [z \in Vectors |-> Dot(z, v)]
      <4>1. g \in Linear
        BY DotPartials
      <4>2. g[Zero] = Dot(Zero, v)
        BY LinearAtZero
      <4> HIDE DEF g
      <4> QED
        BY <4>1, <4>2, LinearAtZero
    <3> QED
      BY <3>3, <3>4
  <2>3. Len(s.pivots) \in Nat /\ r \in Int
    <3>1. Len(s.pivots) \in Nat /\ N \in Nat
      BY FreeColumns, FieldFacts
    <3> QED
      BY <3>1 DEF Index
  <2> QED
    BY <2>1, <2>2, <2>3
<1>7. ASSUME \A r \in Index : Dot(s.A[r], v) = 0
      PROVE  v = Multiple(v[f], x)
  BY <1>3, <1>5, <1>7 DEF Vectors
<1> QED
  BY <1>6, <1>7 DEF x

\* It is a solution.
LEMMA FreeVectorInKernel ==
  ASSUME NEW s \in States, Reduced(s, N), NEW f \in Free(s)
  PROVE  \A r \in Index : Dot(s.A[r], FreeVector(s, f)) = 0
<1> DEFINE x == FreeVector(s, f)
<1>1. x \in Vectors /\ x[f] = 1 /\ \A c \in Free(s) \ {f} : x[c] = 0
  BY FreeVectorFacts
<1>2. x = Multiple(1, x)
  <2>1. \A k \in Index : x[k] \in Fq
    BY <1>1 DEF Vectors
  <2>2. \A k \in Index : GF_mul(1, x[k]) = x[k]
    BY <2>1, FieldZero
  <2>3. Multiple(1, x) \in Vectors /\ \A k \in Index : Multiple(1, x)[k] = GF_mul(1, x[k])
    BY <1>1, FieldFacts, MultipleFacts
  <2> HIDE DEF x
  <2> QED
    BY <1>1, <2>2, <2>3 DEF Vectors
<1>3. x = Multiple(x[f], FreeVector(s, f))
  BY <1>1, <1>2
<1> HIDE DEF x
<1>4. \A r \in Index : Dot(s.A[r], x) = 0
  BY <1>1, <1>3, KernelAtFree
<1> QED
  BY <1>4 DEF x

\* The kernel is read off an elimination when it is a line.
LEMMA KernelReadOff ==
  ASSUME NEW G \in Matrices, NEW s, Eliminated(G, s, N), Undone(G, s)
  PROVE  SpansLine(KernelSet(G), KernelOf(s)) /\ (Len(s.pivots) = N - 1 => KernelOf(s) # None)
<1> DEFINE K == KernelOf(s)
<1>1. Eliminated(G, s, N) /\ Undone(G, s)
  OBVIOUS
<1>2. s \in States /\ Reduced(s, N)
  BY <1>1 DEF Eliminated
<1>3. KernelSet(G) = {v \in Vectors : \A r \in Index : Dot(s.A[r], v) = 0}
  BY <1>1, KernelKept DEF KernelSet
<1>4. CASE Len(s.pivots) = N - 1
  <2>1. PICK f : Free(s) = {f}
    BY <1>2, <1>4, FreeAtRank
  <2>2. f \in Free(s) /\ f \in Index /\ Free(s) \ {f} = {}
    BY <2>1 DEF Free
  <2>3. FreeVector(s, f) \in Vectors /\ FreeVector(s, f)[f] = 1
    BY <1>2, <2>2, FreeVectorFacts
  <2>4. KernelSet(G) = Line(FreeVector(s, f))
    <3>1. ASSUME NEW v \in KernelSet(G)
          PROVE  v \in Line(FreeVector(s, f))
      <4>1. v \in Vectors /\ \A r \in Index : Dot(s.A[r], v) = 0
        BY <1>3
      <4>2. v = Multiple(v[f], FreeVector(s, f))
        BY <1>2, <2>2, <4>1, KernelAtFree
      <4>3. v[f] \in Fq
        BY <2>2, <4>1 DEF Vectors
      <4> QED
        BY <4>2, <4>3 DEF Line
    <3>2. ASSUME NEW a \in Fq
          PROVE  Multiple(a, FreeVector(s, f)) \in KernelSet(G)
      <4> DEFINE v == Multiple(a, FreeVector(s, f))
      <4>1. v \in Vectors /\ v[f] = GF_mul(a, 1)
        BY <2>2, <2>3, MultipleFacts
      <4>2. v = Multiple(v[f], FreeVector(s, f))
        BY <4>1, FieldZero
      <4> HIDE DEF v
      <4>3. \A r \in Index : Dot(s.A[r], v) = 0
        BY <1>2, <2>2, <4>1, <4>2, KernelAtFree
      <4> QED
        BY <1>3, <4>1, <4>3 DEF v
    <3> QED
      BY <3>1, <3>2 DEF Line
  <2>5. K = FreeVector(s, f)
    <3>1. {c \in Index : PivotRow(s, c) = {}} = {f}
      <4>1. \A c \in Index : PivotRow(s, c) = {} <=> c \in Free(s)
        BY DEF PivotRow, Free, PivotColumns
      <4> QED
        BY <2>1, <2>2, <4>1
    <3>2. Least({f}) = f
      <4>1. Least({f}) \in {f}
        <5>1. f \in Nat
          BY <2>2, FieldFacts DEF Index
        <5> QED
          BY <5>1, LeastIsLeast
      <4> QED
        BY <4>1
    <3>3. \A c \in Index : c \in Free(s) <=> c = f
      BY <2>1
    <3> QED
      BY <1>4, <3>1, <3>2, <3>3 DEF KernelOf, FreeVector, PivotRow
  <2>6. K # None /\ K # Zero
    <3>1. K \in Vectors /\ K[f] = 1
      BY <2>3, <2>5
    <3>2. Zero[f] = 0
      BY <2>2, LinearAtZero
    <3>3. K = [c \in Index |-> K[c]] /\ DOMAIN K = Index /\ DOMAIN None = {}
      BY <3>1 DEF Vectors, None
    <3> QED
      BY <2>2, <3>1, <3>2, <3>3
  <2> QED
    BY <2>3, <2>4, <2>5, <2>6 DEF SpansLine
<1>5. CASE Len(s.pivots) # N - 1
  <2>1. K = None
    BY <1>5 DEF KernelOf
  <2>2. SUFFICES ASSUME NEW h \in Vectors \ {Zero}, KernelSet(G) = Line(h)
                 PROVE  FALSE
    BY <1>5, <2>1 DEF SpansLine
  <2>3. CASE Len(s.pivots) = N
    <3>1. \A v \in Vectors : pmod_mat_vec_mul(s.A, v) = v
      <4>1. s.A = pmod_mat_identity
        <5>1. N \in Nat /\ N <= N
          BY FieldFacts
        <5> QED
          BY <1>1, <2>3, <5>1, FullRankInverts
      <4> SUFFICES ASSUME NEW v \in Vectors PROVE pmod_mat_vec_mul(s.A, v) = v
        OBVIOUS
      <4>2. \A r \in Index : Dot(pmod_mat_identity[r], v) = v[r]
        BY UnitRow
      <4>3. v = [r \in Index |-> v[r]]
        BY DEF Vectors
      <4> QED
        BY <4>1, <4>2, <4>3 DEF pmod_mat_vec_mul
    <3>2. h \in KernelSet(G)
      <4>1. h = Multiple(1, h)
        <5>1. \A k \in Index : h[k] \in Fq
          BY <2>2 DEF Vectors
        <5>2. \A k \in Index : GF_mul(1, h[k]) = h[k]
          BY <5>1, FieldZero
        <5>3. Multiple(1, h) \in Vectors /\ \A k \in Index : Multiple(1, h)[k] = GF_mul(1, h[k])
          BY <2>2, FieldFacts, MultipleFacts
        <5> QED
          BY <5>2, <5>3, <2>2 DEF Vectors
      <4> QED
        BY <2>2, <4>1, FieldFacts DEF Line
    <3>3. \A r \in Index : Dot(s.A[r], h) = 0
      BY <1>3, <3>2
    <3>4. pmod_mat_vec_mul(s.A, h) = Zero
      BY <3>3 DEF pmod_mat_vec_mul, Zero
    <3> QED
      BY <2>2, <3>1, <3>4
  <2>4. CASE Len(s.pivots) # N
    <3>1. PICK f, g \in Free(s) : f # g
      BY <1>2, <1>5, <2>4, FreeAtRank
    <3>2. /\ FreeVector(s, f) \in Vectors /\ FreeVector(s, f)[f] = 1 /\ FreeVector(s, f)[g] = 0
          /\ FreeVector(s, g) \in Vectors /\ FreeVector(s, g)[g] = 1 /\ f \in Index /\ g \in Index
      BY <1>2, <3>1, FreeVectorFacts
    <3>3. FreeVector(s, f) \in KernelSet(G) /\ FreeVector(s, g) \in KernelSet(G)
      <4>1. \A r \in Index : Dot(s.A[r], FreeVector(s, f)) = 0
        BY <1>2, <3>1, FreeVectorInKernel
      <4>2. \A r \in Index : Dot(s.A[r], FreeVector(s, g)) = 0
        BY <1>2, <3>1, FreeVectorInKernel
      <4> QED
        BY <1>3, <3>2, <4>1, <4>2
    <3>4. PICK a \in Fq : FreeVector(s, f) = Multiple(a, h)
      BY <2>2, <3>3 DEF Line
    <3>5. PICK b \in Fq : FreeVector(s, g) = Multiple(b, h)
      BY <2>2, <3>3 DEF Line
    <3>6. GF_mul(a, h[f]) = 1 /\ GF_mul(a, h[g]) = 0 /\ GF_mul(b, h[g]) = 1
      BY <3>2, <3>4, <3>5, <2>2, MultipleFacts
    <3>7. h[f] \in Fq /\ h[g] \in Fq
      BY <2>2, <3>2 DEF Vectors
    <3>8. a # 0 /\ h[g] # 0
      BY <3>6, <3>7, FieldZero
    <3> QED
      BY <3>6, <3>7, <3>8, ProductsNotZero
  <2> QED
    BY <2>3, <2>4
<1> QED
  BY <1>4, <1>5

\* The same for a matrix, and what is computed of it.
LEMMA KernelOfLine ==
  ASSUME NEW G \in Matrices
  PROVE  SpansLine(KernelSet(G), pmod_mat_right_kernel_corank1(G))
BY RrefEliminates, KernelReadOff DEF pmod_mat_right_kernel_corank1

-----------------------------------------------------------------------------
(* The rank that is read off an elimination.                               *)

\* There are finitely many vectors of a given length.
LEMMA FiniteSpaces ==
  \A k \in Nat : IsFiniteSet([0 .. k - 1 -> Fq])
<1> DEFINE S == {k \in Nat : IsFiniteSet([0 .. k - 1 -> Fq])}
<1>1. IsFiniteSet(Fq)
  BY FieldFacts, FS_Interval DEF Fq
<1>2. 0 \in S
  <2>1. \A f, g \in [0 .. 0 - 1 -> Fq] : f = g
    OBVIOUS
  <2>2. [i \in 0 .. 0 - 1 |-> 0] \in [0 .. 0 - 1 -> Fq]
    OBVIOUS
  <2>3. [0 .. 0 - 1 -> Fq] = {[i \in 0 .. 0 - 1 |-> 0]}
    BY <2>1, <2>2
  <2> QED
    BY <2>3, FS_Singleton
<1>3. ASSUME NEW k \in Nat, k \in S
      PROVE  k + 1 \in S
  <2> DEFINE A == [0 .. k - 1 -> Fq]
             B == [0 .. (k + 1) - 1 -> Fq]
             h == [f \in B |-> <<[i \in 0 .. k - 1 |-> f[i]], f[k]>>]
  <2>1. IsFiniteSet(A \X Fq)
    BY <1>1, <1>3, FS_Product
  <2>2. ASSUME NEW f \in B
        PROVE  /\ h[f] = <<[i \in 0 .. k - 1 |-> f[i]], f[k]>>
               /\ [i \in 0 .. k - 1 |-> f[i]] \in A /\ f[k] \in Fq
    OBVIOUS
  <2>3. h \in [B -> A \X Fq]
    BY <2>2
  <2>4. ASSUME NEW f \in B, NEW g \in B, h[f] = h[g]
        PROVE  f = g
    <3>1. [i \in 0 .. k - 1 |-> f[i]] = [i \in 0 .. k - 1 |-> g[i]] /\ f[k] = g[k]
      BY <2>2, <2>4
    <3>2. \A i \in 0 .. k - 1 : f[i] = g[i]
      BY <3>1
    <3>3. \A i \in 0 .. (k + 1) - 1 : i = k \/ i \in 0 .. k - 1
      OBVIOUS
    <3> QED
      BY <3>1, <3>2, <3>3
  <2> HIDE DEF h, A, B
  <2>5. h \in Injection(B, A \X Fq)
    BY <2>3, <2>4 DEF Injection, IsInjective
  <2>6. IsFiniteSet(B)
    BY <2>1, <2>5, FS_Injection
  <2> QED
    BY <2>6 DEF B
<1> HIDE DEF S
<1>4. \A k \in Nat : k \in S
  BY <1>2, <1>3, NumbersByInduction
<1> QED
  BY <1>4 DEF S

\* Two elements whose difference is 0 are equal.
LEMMA DifferenceIsZero ==
  ASSUME NEW x \in Fq, NEW y \in Fq
  PROVE  GF_neg(1) \in Fq /\ (Mixed(1, x, GF_neg(1), y) = 0 <=> x = y)
<1>1. GF_neg(1) \in Fq /\ 1 \in Fq /\ Q \in Nat /\ Q > 1
  BY FieldFacts
<1>2. GF_neg(GF_neg(1)) = 1
  BY <1>1 DEF GF_neg
<1>3. Mixed(1, x, GF_neg(1), y) = 0 <=> x = GF_mul(y, GF_neg(GF_neg(1)))
  BY <1>1, Cancelled
<1>4. GF_mul(y, 1) = y
  BY FieldZero
<1> QED
  BY <1>1, <1>2, <1>3, <1>4

\* Two vectors have the same product with a matrix exactly when they have it
\* with the result of the elimination.
LEMMA ImageKept ==
  ASSUME NEW G \in Matrices, NEW s, Eliminated(G, s, N), Undone(G, s),
         NEW v \in Vectors, NEW w \in Vectors
  PROVE  pmod_mat_vec_mul(G, v) = pmod_mat_vec_mul(G, w)
           <=> \A r \in Index : Dot(s.A[r], v) = Dot(s.A[r], w)
<1> DEFINE m == GF_neg(1)
           d == Combination(1, v, m, w)
<1>1. s.A \in Matrices /\ m \in Fq /\ 1 \in Fq
  BY FieldFacts DEF Eliminated, States
<1>2. d \in Vectors
  BY <1>1, CombinationFacts
<1>3. ASSUME NEW B \in Matrices
      PROVE  /\ \A r \in Index : /\ Dot(B[r], v) \in Fq /\ Dot(B[r], w) \in Fq
                                 /\ Dot(B[r], d) = Mixed(1, Dot(B[r], v), m, Dot(B[r], w))
  <2>1. \A r \in Index : B[r] \in Vectors
    BY MatrixFacts
  <2> QED
    BY <1>1, <2>1, DotLinear, DotCommutes
<1> HIDE DEF m, d
<1>4. ASSUME NEW B \in Matrices
      PROVE  \A r \in Index : Dot(B[r], d) = 0 <=> Dot(B[r], v) = Dot(B[r], w)
  BY <1>3, <1>4, DifferenceIsZero DEF m
<1>5. pmod_mat_vec_mul(G, d) = Zero <=> \A r \in Index : Dot(G[r], d) = 0
  BY DEF pmod_mat_vec_mul, Zero
<1>6. pmod_mat_vec_mul(G, v) = pmod_mat_vec_mul(G, w)
        <=> \A r \in Index : Dot(G[r], v) = Dot(G[r], w)
  BY DEF pmod_mat_vec_mul
<1>7. pmod_mat_vec_mul(G, d) = Zero <=> \A r \in Index : Dot(s.A[r], d) = 0
  BY <1>2, KernelKept
<1> QED
  BY <1>1, <1>4, <1>5, <1>6, <1>7

\* What the result of the elimination does to a vector that is 0 in the free
\* columns, and what it leaves in the rows without a pivot.
LEMMA ReducedRows ==
  ASSUME NEW s \in States, Reduced(s, N), NEW v \in Vectors
  PROVE  /\ \A r \in Len(s.pivots) .. N - 1 : Dot(s.A[r], v) = 0
         /\ (\A c \in Free(s) : v[c] = 0) =>
              \A i \in DOMAIN s.pivots : Dot(s.A[i - 1], v) = v[s.pivots[i]]
<1>1. s.A \in Matrices /\ \A r \in Index : s.A[r] \in Vectors /\ \A k \in Index : s.A[r][k] \in Fq
  BY MatrixFacts DEF States
<1>2. /\ Len(s.pivots) \in Nat /\ DOMAIN s.pivots = 1 .. Len(s.pivots) /\ Len(s.pivots) <= N
      /\ N \in Nat
  BY FreeColumns, FieldFacts
<1>3. Zero \in Vectors /\ \A k \in Index : Zero[k] = 0
  BY LinearAtZero
<1>4. \A k \in Index : v[k] \in Int
  BY FieldFacts DEF Vectors
<1>5. ASSUME NEW r \in Len(s.pivots) .. N - 1
      PROVE  Dot(s.A[r], v) = 0
  <2>1. \A k \in Index : s.A[r][k] = 0
    <3>1. Index = 0 .. N - 1
      BY DEF Index
    <3> QED
      BY <3>1 DEF Reduced
  <2>2. \A k \in Index : s.A[r][k] * v[k] = Zero[k] * v[k]
    BY <1>3, <1>4, <2>1
  <2>3. Dot(s.A[r], v) = Dot(Zero, v)
    BY <2>2, SameProducts
  <2> QED
    BY <2>3, DotZero
<1>6. ASSUME \A c \in Free(s) : v[c] = 0, NEW i \in DOMAIN s.pivots
      PROVE  Dot(s.A[i - 1], v) = v[s.pivots[i]]
  <2> DEFINE row == s.A[i - 1]
             p == s.pivots[i]
  <2>1. i - 1 \in Index /\ p \in Index /\ p \notin Free(s) /\ i \in Nat
    BY PivotRows
  <2>2. row \in Vectors /\ \A k \in Index : row[k] \in Int
    BY <1>1, <2>1, FieldFacts
  <2> HIDE DEF row, p
  <2>3. ASSUME NEW k \in Index
        PROVE  row[k] * v[k] = pmod_mat_identity[p][k] * v[k]
    <3>1. pmod_mat_identity[p][k] = IF p = k THEN 1 ELSE 0
      BY <2>1, IdentityFacts
    <3>2. CASE k \in Free(s)
      BY <1>4, <1>6, <2>2, <3>1, <3>2
    <3>3. CASE k \notin Free(s)
      <4>1. PICK j \in DOMAIN s.pivots : k = s.pivots[j]
        BY <3>3 DEF Free, PivotColumns
      <4>2. row[k] = IF i - 1 = j - 1 THEN 1 ELSE 0
        BY <2>1, <4>1 DEF Reduced, row
      <4>3. k = p <=> j = i
        BY <4>1, PivotRows DEF p
      <4>4. j \in Nat
        BY PivotRows
      <4> QED
        BY <2>1, <3>1, <4>2, <4>3, <4>4
    <3> QED
      BY <3>2, <3>3
  <2>4. Dot(row, v) = Dot(pmod_mat_identity[p], v)
    BY <2>3, SameProducts
  <2>5. Dot(pmod_mat_identity[p], v) = v[p]
    BY <2>1, UnitRow
  <2> QED
    BY <2>4, <2>5 DEF row, p
<1> QED
  BY <1>5, <1>6

\* The image of a matrix has as many vectors as there are of as many
\* coordinates as the elimination found pivots: the rows with a pivot tell the
\* vectors of the image apart, and take all values.
LEMMA ImageCounted ==
  ASSUME NEW G \in Matrices, NEW s, Eliminated(G, s, N), Undone(G, s)
  PROVE  LET values == {pmod_mat_vec_mul(G, v) : v \in Vectors}
         IN Cardinality(values) = Cardinality([0 .. Len(s.pivots) - 1 -> Fq])
<1> DEFINE n == Len(s.pivots)
           T == [0 .. n - 1 -> Fq]
           values == {pmod_mat_vec_mul(G, v) : v \in Vectors}
           rows(v) == [i \in 0 .. n - 1 |-> Dot(s.A[i], v)]
           behind(y) == CHOOSE v \in Vectors : y = pmod_mat_vec_mul(G, v)
           h == [y \in values |-> rows(behind(y))]
<1>1. /\ s \in States /\ Reduced(s, N) /\ s.A \in Matrices
      /\ s.pivots \in Seq(Index)
  BY DEF Eliminated, States
<1>2. n \in Nat /\ DOMAIN s.pivots = 1 .. n /\ n <= N /\ N \in Nat
  BY <1>1, FreeColumns, FieldFacts
<1>3. /\ \A i \in 0 .. n - 1 : i \in Index /\ i + 1 \in DOMAIN s.pivots /\ (i + 1) - 1 = i
      /\ \A r \in Index : r \in 0 .. n - 1 \/ r \in n .. N - 1
      /\ \A i \in DOMAIN s.pivots : i - 1 \in 0 .. n - 1
  BY <1>2 DEF Index
<1>4. ASSUME NEW v \in Vectors
      PROVE  rows(v) \in T
  <2>1. \A i \in Index : Dot(s.A[i], v) \in Fq
    BY <1>1, MatrixFacts, DotCommutes
  <2> QED
    BY <1>3, <2>1
<1>5. \A y \in values : behind(y) \in Vectors /\ y = pmod_mat_vec_mul(G, behind(y))
  OBVIOUS
<1>6. ASSUME NEW v \in Vectors, NEW w \in Vectors
      PROVE  pmod_mat_vec_mul(G, v) = pmod_mat_vec_mul(G, w) <=> rows(v) = rows(w)
  <2>1. pmod_mat_vec_mul(G, v) = pmod_mat_vec_mul(G, w)
          <=> \A r \in Index : Dot(s.A[r], v) = Dot(s.A[r], w)
    BY ImageKept
  <2>2. \A r \in n .. N - 1 : Dot(s.A[r], v) = 0 /\ Dot(s.A[r], w) = 0
    BY <1>1, ReducedRows
  <2>3. rows(v) = rows(w) <=> \A i \in 0 .. n - 1 : Dot(s.A[i], v) = Dot(s.A[i], w)
    <3>1. /\ \A i \in 0 .. n - 1 : rows(v)[i] = Dot(s.A[i], v)
          /\ \A i \in 0 .. n - 1 : rows(w)[i] = Dot(s.A[i], w)
      OBVIOUS
    <3> QED
      BY <3>1
  <2> HIDE DEF rows, n
  <2> QED
    BY <1>3, <2>1, <2>2, <2>3
<1>7. ASSUME NEW z \in T
      PROVE  \E v \in Vectors : rows(v) = z
  <2> DEFINE v == [c \in Index |-> IF c \in Free(s) THEN 0 ELSE z[Least(PivotRow(s, c)) - 1]]
  <2>1. ASSUME NEW c \in Index, c \notin Free(s)
        PROVE  Least(PivotRow(s, c)) - 1 \in 0 .. n - 1
    <3>1. PICK i \in DOMAIN s.pivots : c = s.pivots[i]
      BY <2>1 DEF Free, PivotColumns
    <3>2. Least(PivotRow(s, c)) = i
      BY <1>1, <3>1, PivotRows
    <3> QED
      BY <1>3, <3>2
  <2>2. v \in Vectors /\ \A c \in Free(s) : v[c] = 0
    <3>1. ASSUME NEW c \in Index
          PROVE  v[c] \in Fq
      BY <2>1, FieldFacts
    <3> QED
      BY <3>1 DEF Vectors, Free
  <2>3. \A i \in DOMAIN s.pivots : v[s.pivots[i]] = z[i - 1]
    BY <1>1, PivotRows
  <2> HIDE DEF v
  <2>4. \A i \in DOMAIN s.pivots : Dot(s.A[i - 1], v) = v[s.pivots[i]]
    BY <1>1, <2>2, ReducedRows
  <2>5. \A i \in 0 .. n - 1 : Dot(s.A[i], v) = z[i]
    <3> SUFFICES ASSUME NEW i \in 0 .. n - 1 PROVE Dot(s.A[i], v) = z[i]
      OBVIOUS
    <3>1. i + 1 \in DOMAIN s.pivots /\ (i + 1) - 1 = i
      BY <1>3
    <3>2. /\ Dot(s.A[(i + 1) - 1], v) = v[s.pivots[i + 1]]
          /\ v[s.pivots[i + 1]] = z[(i + 1) - 1]
      BY <2>3, <2>4, <3>1
    <3> QED
      BY <3>1, <3>2
  <2>6. rows(v) = z
    <3>1. z = [i \in 0 .. n - 1 |-> z[i]]
      OBVIOUS
    <3> QED
      BY <2>5, <3>1
  <2> QED
    BY <2>2, <2>6
<1>8. IsFiniteSet(T)
  BY <1>2, FiniteSpaces
<1> HIDE DEF rows, behind, T, n
<1>9. h \in [values -> T] /\ \A y \in values : h[y] = rows(behind(y))
  BY <1>4, <1>5
<1>10. ASSUME NEW v \in Vectors
       PROVE  /\ pmod_mat_vec_mul(G, v) \in values
              /\ h[pmod_mat_vec_mul(G, v)] = rows(v)
  <2>1. pmod_mat_vec_mul(G, v) \in values
    OBVIOUS
  <2> HIDE DEF values, h
  <2> QED
    BY <1>5, <1>6, <1>9, <2>1
<1>11. \A x, y \in values : h[x] = h[y] => x = y
  <2> HIDE DEF values, h
  <2> QED
    BY <1>5, <1>6, <1>9
<1>12. \A z \in T : \E y \in values : h[y] = z
  <2> HIDE DEF values, h
  <2> QED
    BY <1>7, <1>10
<1> HIDE DEF values, h
<1>13. h \in Injection(values, T) /\ h \in Surjection(values, T)
  BY <1>9, <1>11, <1>12 DEF Injection, Surjection, IsInjective
<1>14. Cardinality(values) = Cardinality(T)
  BY <1>8, <1>13, FS_Injection
<1> QED
  BY <1>14 DEF values, T, n

\* ReadsOff of Elimination, for every matrix over every prime field: the number
\* of pivots is the rank, a full one gives the inverse from both sides, and one
\* too few the vector that spans the kernel (pmod_mat_rank_vartime,
\* pmod_mat_inv_vartime and pmod_mat_right_kernel_corank1_vartime of
\* matrixelim.c).
THEOREM RankInverseAndKernel == ElimSpec => []ReadsOff
<1>1. ElimInv => ReadsOff
  <2> SUFFICES ASSUME ElimInv, Finished
               PROVE  ReadsOff
    BY DEF ReadsOff
  <2> DEFINE n == Len(info.pivots)
  <2>1. given \in Matrices /\ Eliminated(given, info, N) /\ Undone(given, info)
    <3>1. n \in Nat /\ n <= col /\ col \in Nat /\ col <= N /\ N \in Nat
      BY FieldFacts DEF ElimInv, Eliminated, Reduced, States
    <3>2. col = N
      BY <3>1 DEF Finished
    <3> QED
      BY <3>2 DEF ElimInv
  <2>2. Cardinality(Image) = Cardinality([0 .. n - 1 -> Fq])
    BY <2>1, ImageCounted DEF Image
  <2>3. CASE n = N
    <3>1. InverseOf(info) = info.rhs
      BY <2>3 DEF InverseOf
    <3>2. N \in Nat /\ N <= N /\ N # N - 1
      BY FieldFacts
    <3>3. /\ pmod_mat_mul(info.rhs, given) = pmod_mat_identity
          /\ pmod_mat_mul(given, info.rhs) = pmod_mat_identity
      BY <2>1, <2>3, <3>2, FullRankInverts
    <3>4. KernelOf(info) = None
      BY <2>3, <3>2 DEF KernelOf
    <3> QED
      BY <2>2, <2>3, <3>1, <3>2, <3>3, <3>4 DEF ReadsOff
  <2>4. CASE n # N
    <3>1. InverseOf(info) = None
      BY <2>4 DEF InverseOf
    <3>2. SpansLine(KernelSet(given), KernelOf(info)) /\ (n = N - 1 => KernelOf(info) # None)
      BY <2>1, KernelReadOff
    <3>3. n = N - 1 => Kernel = {[i \in Index |-> GF_mul(e, KernelOf(info)[i])] : e \in Fq}
      BY <3>2 DEF SpansLine, Kernel, KernelSet, Line, Multiple
    <3>4. n # N - 1 => KernelOf(info) = None
      BY DEF KernelOf
    <3> QED
      BY <2>2, <2>4, <3>1, <3>3, <3>4 DEF ReadsOff
  <2> QED
    BY <2>3, <2>4
<1> QED
  BY <1>1, ElimInvariant, PTL
=============================================================================
