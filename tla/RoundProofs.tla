---------------------------- MODULE RoundProofs -----------------------------
(***************************************************************************)
(* Theorems about RoundCommitment, for every field, every dimension of at  *)
(* least five and all forms and points: what canonical_form_vartime of     *)
(* canonical.c finds, and that signer and verifier find the same.          *)
(*                                                                         *)
(* The path.  A kernel of a form next to a vector is a line or None        *)
(* (KernelAtU and the next two), so the path of the verifier, who has the  *)
(* form behind A, B and C and starts from a vector that A takes to the     *)
(* signer's, goes through vectors that A, B and C take to multiples of the *)
(* signer's (PathBeside).  Written in these bases, one form is the other   *)
(* with every element multiplied by the three factors of its indices       *)
(* (WeightedBeside), and the normalization leaves no trace of the factors  *)
(* (SameNormalization).                                                    *)
(***************************************************************************)
EXTENDS AlgebraProofs, RoundCommitment

-----------------------------------------------------------------------------
(* Trilinear forms.                                                        *)

\* The values at the unit vectors in the last argument.
Slices(F, u, v) == [slice \in Index |-> Dot(u, pmod_mat_vec_mul(F[slice], v))]

\* A form at two vectors is a vector, its value at a third the product with it.
LEMMA SlicesFacts ==
  ASSUME NEW F \in TriForms, NEW u \in Vectors, NEW v \in Vectors
  PROVE  /\ Slices(F, u, v) \in Vectors
         /\ \A w \in Vectors : triform_eval(F, u, v, w) = Dot(w, Slices(F, u, v))
         /\ \A w \in Vectors : triform_eval(F, u, v, w) \in Fq
<1>1. \A k \in Index : F[k] \in Matrices
  BY DEF TriForms
<1>2. \A k \in Index : pmod_mat_vec_mul(F[k], v) \in Vectors
  BY <1>1, MatrixLinear
<1>3. \A k \in Index : Dot(u, pmod_mat_vec_mul(F[k], v)) \in Fq
  BY <1>2, DotCommutes
<1>4. Slices(F, u, v) \in Vectors
  BY <1>3 DEF Slices, Vectors
<1>5. \A w \in Vectors : triform_eval(F, u, v, w) = Dot(w, Slices(F, u, v))
  BY DEF triform_eval, Slices
<1> QED
  BY <1>4, <1>5, DotCommutes

\* A form is linear in each of its arguments.
LEMMA FormLinear ==
  ASSUME NEW F \in TriForms, NEW x \in Fq, NEW y \in Fq, NEW p \in Vectors, NEW q \in Vectors,
         NEW s \in Vectors, NEW t \in Vectors
  PROVE  /\ triform_eval(F, Combination(x, p, y, q), s, t)
              = Mixed(x, triform_eval(F, p, s, t), y, triform_eval(F, q, s, t))
         /\ triform_eval(F, s, Combination(x, p, y, q), t)
              = Mixed(x, triform_eval(F, s, p, t), y, triform_eval(F, s, q, t))
         /\ triform_eval(F, s, t, Combination(x, p, y, q))
              = Mixed(x, triform_eval(F, s, t, p), y, triform_eval(F, s, t, q))
<1>1. \A k \in Index : F[k] \in Matrices
  BY DEF TriForms
<1>2. Combination(x, p, y, q) \in Vectors
  BY CombinationFacts
<1>3. Slices(F, Combination(x, p, y, q), s) = Combination(x, Slices(F, p, s), y, Slices(F, q, s))
  <2>1. \A k \in Index : pmod_mat_vec_mul(F[k], s) \in Vectors
    BY <1>1, MatrixLinear
  <2>2. \A k \in Index :
          Dot(Combination(x, p, y, q), pmod_mat_vec_mul(F[k], s))
            = Mixed(x, Dot(p, pmod_mat_vec_mul(F[k], s)), y, Dot(q, pmod_mat_vec_mul(F[k], s)))
    BY <2>1, DotLinear
  <2> QED
    BY <2>2 DEF Slices, Combination, Mixed
<1>4. Slices(F, s, Combination(x, p, y, q)) = Combination(x, Slices(F, s, p), y, Slices(F, s, q))
  <2>1. \A k \in Index :
          /\ pmod_mat_vec_mul(F[k], p) \in Vectors /\ pmod_mat_vec_mul(F[k], q) \in Vectors
          /\ pmod_mat_vec_mul(F[k], Combination(x, p, y, q))
               = Combination(x, pmod_mat_vec_mul(F[k], p), y, pmod_mat_vec_mul(F[k], q))
    BY <1>1, MatrixLinear
  <2>2. \A k \in Index :
          Dot(s, Combination(x, pmod_mat_vec_mul(F[k], p), y, pmod_mat_vec_mul(F[k], q)))
            = Mixed(x, Dot(s, pmod_mat_vec_mul(F[k], p)), y, Dot(s, pmod_mat_vec_mul(F[k], q)))
    BY <2>1, DotLinear
  <2>3. \A k \in Index :
          Dot(s, pmod_mat_vec_mul(F[k], Combination(x, p, y, q)))
            = Mixed(x, Dot(s, pmod_mat_vec_mul(F[k], p)), y, Dot(s, pmod_mat_vec_mul(F[k], q)))
    BY <2>1, <2>2
  <2> QED
    BY <2>3 DEF Slices, Combination, Mixed
<1>5. triform_eval(F, Combination(x, p, y, q), s, t)
        = Mixed(x, triform_eval(F, p, s, t), y, triform_eval(F, q, s, t))
  BY <1>2, <1>3, SlicesFacts, DotLinear
<1>6. triform_eval(F, s, Combination(x, p, y, q), t)
        = Mixed(x, triform_eval(F, s, p, t), y, triform_eval(F, s, q, t))
  BY <1>2, <1>4, SlicesFacts, DotLinear
<1>7. triform_eval(F, s, t, Combination(x, p, y, q))
        = Mixed(x, triform_eval(F, s, t, p), y, triform_eval(F, s, t, q))
  <2>1. Slices(F, s, t) \in Vectors
    BY SlicesFacts
  <2>2. \A w \in Vectors : triform_eval(F, s, t, w) = Dot(w, Slices(F, s, t))
    BY SlicesFacts
  <2>3. Dot(Combination(x, p, y, q), Slices(F, s, t))
          = Mixed(x, Dot(p, Slices(F, s, t)), y, Dot(q, Slices(F, s, t)))
    BY <2>1, DotLinear
  <2> QED
    BY <1>2, <2>2, <2>3
<1> QED
  BY <1>5, <1>6, <1>7

\* One argument at a time, a form is a linear function.
LEMMA FormPartials ==
  ASSUME NEW F \in TriForms, NEW s \in Vectors, NEW t \in Vectors
  PROVE  /\ [z \in Vectors |-> triform_eval(F, z, s, t)] \in Linear
         /\ [z \in Vectors |-> triform_eval(F, s, z, t)] \in Linear
         /\ [z \in Vectors |-> triform_eval(F, s, t, z)] \in Linear
<1>1. \A x, y \in Fq, p, q \in Vectors : Combination(x, p, y, q) \in Vectors
  BY CombinationFacts
<1>2. \A x, y \in Fq, p, q \in Vectors :
        triform_eval(F, Combination(x, p, y, q), s, t)
          = Mixed(x, triform_eval(F, p, s, t), y, triform_eval(F, q, s, t))
  BY FormLinear
<1>3. \A x, y \in Fq, p, q \in Vectors :
        triform_eval(F, s, Combination(x, p, y, q), t)
          = Mixed(x, triform_eval(F, s, p, t), y, triform_eval(F, s, q, t))
  BY FormLinear
<1>4. \A x, y \in Fq, p, q \in Vectors :
        triform_eval(F, s, t, Combination(x, p, y, q))
          = Mixed(x, triform_eval(F, s, t, p), y, triform_eval(F, s, t, q))
  BY FormLinear
<1>5. [z \in Vectors |-> triform_eval(F, z, s, t)] \in Linear
  <2> DEFINE f == [z \in Vectors |-> triform_eval(F, z, s, t)]
  <2>1. f \in [Vectors -> Fq] /\ \A z \in Vectors : f[z] = triform_eval(F, z, s, t)
    BY SlicesFacts
  <2> HIDE DEF f
  <2>2. \A x, y \in Fq, p, q \in Vectors : f[Combination(x, p, y, q)] = Mixed(x, f[p], y, f[q])
    BY <1>1, <1>2, <2>1
  <2> QED
    BY <2>1, <2>2 DEF Linear, f
<1>6. [z \in Vectors |-> triform_eval(F, s, z, t)] \in Linear
  <2> DEFINE f == [z \in Vectors |-> triform_eval(F, s, z, t)]
  <2>1. f \in [Vectors -> Fq] /\ \A z \in Vectors : f[z] = triform_eval(F, s, z, t)
    BY SlicesFacts
  <2> HIDE DEF f
  <2>2. \A x, y \in Fq, p, q \in Vectors : f[Combination(x, p, y, q)] = Mixed(x, f[p], y, f[q])
    BY <1>1, <1>3, <2>1
  <2> QED
    BY <2>1, <2>2 DEF Linear, f
<1>7. [z \in Vectors |-> triform_eval(F, s, t, z)] \in Linear
  <2> DEFINE f == [z \in Vectors |-> triform_eval(F, s, t, z)]
  <2>1. f \in [Vectors -> Fq] /\ \A z \in Vectors : f[z] = triform_eval(F, s, t, z)
    BY SlicesFacts
  <2> HIDE DEF f
  <2>2. \A x, y \in Fq, p, q \in Vectors : f[Combination(x, p, y, q)] = Mixed(x, f[p], y, f[q])
    BY <1>1, <1>4, <2>1
  <2> QED
    BY <2>1, <2>2 DEF Linear, f
<1> QED
  BY <1>5, <1>6, <1>7

\* At unit vectors, a form has its elements.
LEMMA FormAtUnits ==
  ASSUME NEW F \in TriForms, NEW i \in Index, NEW j \in Index, NEW k \in Index
  PROVE  /\ Slices(F, pmod_mat_identity[i], pmod_mat_identity[j])[k] = F[k][i][j]
         /\ triform_eval(F, pmod_mat_identity[i], pmod_mat_identity[j], pmod_mat_identity[k])
              = F[k][i][j]
<1> DEFINE e(n) == pmod_mat_identity[n]
<1>1. \A n \in Index : e(n) \in Vectors
  BY IdentityFacts DEF Matrices
<1> HIDE DEF e
<1>2. triform_eval(F, e(i), e(j), e(k)) = Slices(F, e(i), e(j))[k]
  BY <1>1, SlicesFacts, UnitRow DEF e
<1>3. F[k] \in Matrices
  BY DEF TriForms
<1>4. pmod_mat_vec_mul(F[k], e(j)) \in Vectors /\ pmod_mat_vec_mul(F[k], e(j)) = Column(F[k], j)
  BY <1>1, <1>3, MatrixLinear DEF e
<1>5. Dot(e(i), pmod_mat_vec_mul(F[k], e(j))) = F[k][i][j]
  BY <1>3, <1>4, UnitRow, MatrixFacts DEF e
<1> QED
  BY <1>2, <1>5 DEF Slices, e

ElementsBehind(P, F, A, B, C) ==
  \A i, j, k \in Index :
    P[k][i][j] = triform_eval(F, Column(A, i), Column(B, j), Column(C, k))

FormBehind(P, F, A, B, C) ==
  \A u, v, w \in Vectors :
    triform_eval(P, u, v, w)
      = triform_eval(F, pmod_mat_vec_mul(A, u), pmod_mat_vec_mul(B, v), pmod_mat_vec_mul(C, w))

\* Two of them that agree at the unit vectors, the second behind three
\* matrices, agree everywhere: one argument after the other.
LEMMA FormsAgree ==
  ASSUME NEW P \in TriForms, NEW F \in TriForms,
         NEW A \in Matrices, NEW B \in Matrices, NEW C \in Matrices,
         ElementsBehind(P, F, A, B, C)
  PROVE  FormBehind(P, F, A, B, C)
<1> DEFINE e(n) == pmod_mat_identity[n]
           Moved(u, v, w) ==
             triform_eval(F, pmod_mat_vec_mul(A, u), pmod_mat_vec_mul(B, v), pmod_mat_vec_mul(C, w))
<1>1. \A n \in Index : e(n) \in Vectors
  BY IdentityFacts DEF Matrices
<1>2. /\ \A z \in Vectors : /\ pmod_mat_vec_mul(A, z) \in Vectors
                            /\ pmod_mat_vec_mul(B, z) \in Vectors
                            /\ pmod_mat_vec_mul(C, z) \in Vectors
  BY MatrixLinear
<1>3. \A u, v, w \in Vectors : triform_eval(P, u, v, w) \in Fq /\ Moved(u, v, w) \in Fq
  BY <1>2, SlicesFacts
<1>4. ASSUME NEW x \in Fq, NEW y \in Fq, NEW p \in Vectors, NEW q \in Vectors,
             NEW s \in Vectors, NEW t \in Vectors
      PROVE  /\ Moved(Combination(x, p, y, q), s, t) = Mixed(x, Moved(p, s, t), y, Moved(q, s, t))
             /\ Moved(s, Combination(x, p, y, q), t) = Mixed(x, Moved(s, p, t), y, Moved(s, q, t))
             /\ Moved(s, t, Combination(x, p, y, q)) = Mixed(x, Moved(s, t, p), y, Moved(s, t, q))
  <2> DEFINE ma(z) == pmod_mat_vec_mul(A, z)
             b(z) == pmod_mat_vec_mul(B, z)
             c(z) == pmod_mat_vec_mul(C, z)
  <2>1. /\ ma(Combination(x, p, y, q)) = Combination(x, ma(p), y, ma(q))
        /\ b(Combination(x, p, y, q)) = Combination(x, b(p), y, b(q))
        /\ c(Combination(x, p, y, q)) = Combination(x, c(p), y, c(q))
    BY MatrixLinear
  <2>2. \A z \in {p, q, s, t} : ma(z) \in Vectors /\ b(z) \in Vectors /\ c(z) \in Vectors
    BY <1>2
  <2>3. \A u, v, w : Moved(u, v, w) = triform_eval(F, ma(u), b(v), c(w))
    OBVIOUS
  <2> HIDE DEF ma, b, c, Moved
  <2>4. Moved(Combination(x, p, y, q), s, t) = Mixed(x, Moved(p, s, t), y, Moved(q, s, t))
    <3>1. \A g, h, k, l \in Vectors :
            triform_eval(F, Combination(x, g, y, h), k, l)
            = Mixed(x, triform_eval(F, g, k, l), y, triform_eval(F, h, k, l))
      BY FormLinear
    <3>2. triform_eval(F, Combination(x, ma(p), y, ma(q)), b(s), c(t))
            = Mixed(x, triform_eval(F, ma(p), b(s), c(t)), y, triform_eval(F, ma(q), b(s), c(t)))
      BY <2>2, <3>1
    <3> QED
      BY <2>1, <2>3, <3>2
  <2>5. Moved(s, Combination(x, p, y, q), t) = Mixed(x, Moved(s, p, t), y, Moved(s, q, t))
    <3>1. \A g, h, k, l \in Vectors :
            triform_eval(F, k, Combination(x, g, y, h), l)
            = Mixed(x, triform_eval(F, k, g, l), y, triform_eval(F, k, h, l))
      BY FormLinear
    <3>2. triform_eval(F, ma(s), Combination(x, b(p), y, b(q)), c(t))
            = Mixed(x, triform_eval(F, ma(s), b(p), c(t)), y, triform_eval(F, ma(s), b(q), c(t)))
      BY <2>2, <3>1
    <3> QED
      BY <2>1, <2>3, <3>2
  <2>6. Moved(s, t, Combination(x, p, y, q)) = Mixed(x, Moved(s, t, p), y, Moved(s, t, q))
    <3>1. \A g, h, k, l \in Vectors :
            triform_eval(F, k, l, Combination(x, g, y, h))
            = Mixed(x, triform_eval(F, k, l, g), y, triform_eval(F, k, l, h))
      BY FormLinear
    <3>2. triform_eval(F, ma(s), b(t), Combination(x, c(p), y, c(q)))
            = Mixed(x, triform_eval(F, ma(s), b(t), c(p)), y, triform_eval(F, ma(s), b(t), c(q)))
      BY <2>2, <3>1
    <3> QED
      BY <2>1, <2>3, <3>2
  <2> QED
    BY <2>4, <2>5, <2>6
<1>5. \A i, j, k \in Index : triform_eval(P, e(i), e(j), e(k)) = Moved(e(i), e(j), e(k))
  BY MatrixLinear, FormAtUnits DEF ElementsBehind
<1> HIDE DEF e, Moved
<1>6. ASSUME NEW s \in Vectors, NEW t \in Vectors
      PROVE  /\ [z \in Vectors |-> triform_eval(P, z, s, t)] \in Linear
             /\ [z \in Vectors |-> triform_eval(P, s, z, t)] \in Linear
             /\ [z \in Vectors |-> triform_eval(P, s, t, z)] \in Linear
  BY FormPartials
<1>7. ASSUME NEW s \in Vectors, NEW t \in Vectors
      PROVE  /\ [z \in Vectors |-> Moved(z, s, t)] \in Linear
             /\ [z \in Vectors |-> Moved(s, z, t)] \in Linear
             /\ [z \in Vectors |-> Moved(s, t, z)] \in Linear
  <2>1. \A x, y \in Fq, p, q \in Vectors : Combination(x, p, y, q) \in Vectors
    BY CombinationFacts
  <2>2. [z \in Vectors |-> Moved(z, s, t)] \in Linear
    <3> DEFINE f == [z \in Vectors |-> Moved(z, s, t)]
    <3>1. f \in [Vectors -> Fq] /\ \A z \in Vectors : f[z] = Moved(z, s, t)
      BY <1>3
    <3> HIDE DEF f
    <3>2. \A x, y \in Fq, p, q \in Vectors : f[Combination(x, p, y, q)] = Mixed(x, f[p], y, f[q])
      BY <1>4, <2>1, <3>1
    <3> QED
      BY <3>1, <3>2 DEF Linear, f
  <2>3. [z \in Vectors |-> Moved(s, z, t)] \in Linear
    <3> DEFINE f == [z \in Vectors |-> Moved(s, z, t)]
    <3>1. f \in [Vectors -> Fq] /\ \A z \in Vectors : f[z] = Moved(s, z, t)
      BY <1>3
    <3> HIDE DEF f
    <3>2. \A x, y \in Fq, p, q \in Vectors : f[Combination(x, p, y, q)] = Mixed(x, f[p], y, f[q])
      BY <1>4, <2>1, <3>1
    <3> QED
      BY <3>1, <3>2 DEF Linear, f
  <2>4. [z \in Vectors |-> Moved(s, t, z)] \in Linear
    <3> DEFINE f == [z \in Vectors |-> Moved(s, t, z)]
    <3>1. f \in [Vectors -> Fq] /\ \A z \in Vectors : f[z] = Moved(s, t, z)
      BY <1>3
    <3> HIDE DEF f
    <3>2. \A x, y \in Fq, p, q \in Vectors : f[Combination(x, p, y, q)] = Mixed(x, f[p], y, f[q])
      BY <1>4, <2>1, <3>1
    <3> QED
      BY <3>1, <3>2 DEF Linear, f
  <2> QED
    BY <2>2, <2>3, <2>4
<1>8. \A i, j \in Index, w \in Vectors : triform_eval(P, e(i), e(j), w) = Moved(e(i), e(j), w)
  <2> SUFFICES ASSUME NEW i \in Index, NEW j \in Index
               PROVE  \A w \in Vectors : triform_eval(P, e(i), e(j), w) = Moved(e(i), e(j), w)
    OBVIOUS
  <2> DEFINE f == [z \in Vectors |-> triform_eval(P, e(i), e(j), z)]
             g == [z \in Vectors |-> Moved(e(i), e(j), z)]
  <2>1. f \in Linear /\ g \in Linear
    BY <1>1, <1>6, <1>7
  <2>2. \A k \in Index : f[e(k)] = g[e(k)]
    BY <1>1, <1>5
  <2>3. \A w \in Vectors : f[w] = g[w]
    <3> HIDE DEF f, g
    <3> QED
      BY <2>1, <2>2, LinearAgree DEF e
  <2> QED
    BY <2>3
<1>9. \A i \in Index, v, w \in Vectors : triform_eval(P, e(i), v, w) = Moved(e(i), v, w)
  <2> SUFFICES ASSUME NEW i \in Index, NEW w \in Vectors
               PROVE  \A v \in Vectors : triform_eval(P, e(i), v, w) = Moved(e(i), v, w)
    OBVIOUS
  <2> DEFINE f == [z \in Vectors |-> triform_eval(P, e(i), z, w)]
             g == [z \in Vectors |-> Moved(e(i), z, w)]
  <2>1. f \in Linear /\ g \in Linear
    BY <1>1, <1>6, <1>7
  <2>2. \A k \in Index : f[e(k)] = g[e(k)]
    BY <1>1, <1>8
  <2>3. \A v \in Vectors : f[v] = g[v]
    <3> HIDE DEF f, g
    <3> QED
      BY <2>1, <2>2, LinearAgree DEF e
  <2> QED
    BY <2>3
<1>10. \A u, v, w \in Vectors : triform_eval(P, u, v, w) = Moved(u, v, w)
  <2> SUFFICES ASSUME NEW v \in Vectors, NEW w \in Vectors
               PROVE  \A u \in Vectors : triform_eval(P, u, v, w) = Moved(u, v, w)
    OBVIOUS
  <2> DEFINE f == [z \in Vectors |-> triform_eval(P, z, v, w)]
             g == [z \in Vectors |-> Moved(z, v, w)]
  <2>1. f \in Linear /\ g \in Linear
    BY <1>6, <1>7
  <2>2. \A k \in Index : f[e(k)] = g[e(k)]
    BY <1>1, <1>9
  <2>3. \A u \in Vectors : f[u] = g[u]
    <3> HIDE DEF f, g
    <3> QED
      BY <2>1, <2>2, LinearAgree DEF e
  <2> QED
    BY <2>3
<1> QED
  BY <1>10 DEF Moved, FormBehind

\* The form at a vector in the last argument is a matrix.
LEMMA FormAtLast ==
  ASSUME NEW F \in TriForms, NEW w \in Vectors
  PROVE  /\ pmod_mat_linear_combination(F, w) \in Matrices
         /\ \A u, v \in Vectors :
              Dot(u, pmod_mat_vec_mul(pmod_mat_linear_combination(F, w), v))
                = triform_eval(F, u, v, w)
<1> DEFINE L == pmod_mat_linear_combination(F, w)
           e(n) == pmod_mat_identity[n]
           across(r, c) == [k \in Index |-> F[k][r][c]]
<1>1. \A n \in Index : e(n) \in Vectors
  BY IdentityFacts DEF Matrices
<1>2. \A r, c \in Index : across(r, c) \in Vectors
  BY MatrixFacts DEF TriForms, Vectors
<1>3. \A r, c \in Index : Slices(F, e(r), e(c)) = across(r, c)
  <2> SUFFICES ASSUME NEW r \in Index, NEW c \in Index
               PROVE  Slices(F, e(r), e(c)) = across(r, c)
    OBVIOUS
  <2>1. Slices(F, e(r), e(c)) = [k \in Index |-> Slices(F, e(r), e(c))[k]]
    BY DEF Slices
  <2>2. \A k \in Index : Slices(F, e(r), e(c))[k] = F[k][r][c]
    BY FormAtUnits
  <2> QED
    BY <2>1, <2>2
<1>4. \A r, c \in Index : L[r][c] = Dot(w, across(r, c)) /\ L[r][c] \in Fq
  <2> SUFFICES ASSUME NEW r \in Index, NEW c \in Index
               PROVE  L[r][c] = Dot(w, across(r, c)) /\ L[r][c] \in Fq
    OBVIOUS
  <2>1. L[r][c] = Accumulated([i \in Index |-> w[i] * F[i][r][c]]) % Q
    BY DEF pmod_mat_linear_combination
  <2>2. [i \in Index |-> w[i] * F[i][r][c]] = [i \in Index |-> w[i] * across(r, c)[i]]
    OBVIOUS
  <2>3. L[r][c] = Dot(w, across(r, c))
    BY <2>1, <2>2 DEF Dot
  <2> QED
    BY <1>2, <2>3, DotCommutes
<1>5. L \in Matrices
  <2>1. L = [r \in Index |-> [c \in Index |-> L[r][c]]]
    BY DEF pmod_mat_linear_combination
  <2> HIDE DEF L
  <2> QED
    BY <1>4, <2>1 DEF Matrices, Vectors
<1>6. \A r, c \in Index : Dot(L[r], e(c)) = triform_eval(F, e(r), e(c), w)
  <2> SUFFICES ASSUME NEW r \in Index, NEW c \in Index
               PROVE  Dot(L[r], e(c)) = triform_eval(F, e(r), e(c), w)
    OBVIOUS
  <2>1. L[r] \in Vectors
    BY <1>5, MatrixFacts
  <2>2. Dot(L[r], e(c)) = L[r][c]
    <3> HIDE DEF L
    <3> QED
      BY <1>1, <2>1, DotCommutes, UnitRow
  <2>3. triform_eval(F, e(r), e(c), w) = Dot(w, across(r, c))
    BY <1>1, <1>3, SlicesFacts
  <2> QED
    BY <1>4, <2>2, <2>3
<1> HIDE DEF L, e, across
<1>7. \A r \in Index, v \in Vectors : Dot(L[r], v) = triform_eval(F, e(r), v, w)
  <2> SUFFICES ASSUME NEW r \in Index
               PROVE  \A v \in Vectors : Dot(L[r], v) = triform_eval(F, e(r), v, w)
    OBVIOUS
  <2> DEFINE f == [z \in Vectors |-> Dot(L[r], z)]
             g == [z \in Vectors |-> triform_eval(F, e(r), z, w)]
  <2>1. L[r] \in Vectors /\ e(r) \in Vectors
    BY <1>1, <1>5, MatrixFacts
  <2>2. f \in Linear /\ g \in Linear
    BY <2>1, DotPartials, FormPartials
  <2>3. \A c \in Index : f[e(c)] = g[e(c)]
    BY <1>1, <1>6
  <2>4. \A v \in Vectors : f[v] = g[v]
    <3> HIDE DEF f, g
    <3> QED
      BY <2>2, <2>3, LinearAgree DEF e
  <2> QED
    BY <2>4
<1>8. \A u, v \in Vectors : Dot(u, pmod_mat_vec_mul(L, v)) = triform_eval(F, u, v, w)
  <2> SUFFICES ASSUME NEW v \in Vectors
               PROVE  \A u \in Vectors : Dot(u, pmod_mat_vec_mul(L, v)) = triform_eval(F, u, v, w)
    OBVIOUS
  <2> DEFINE f == [z \in Vectors |-> Dot(z, pmod_mat_vec_mul(L, v))]
             g == [z \in Vectors |-> triform_eval(F, z, v, w)]
  <2>1. pmod_mat_vec_mul(L, v) \in Vectors /\ \A r \in Index : pmod_mat_vec_mul(L, v)[r] = Dot(L[r], v)
    BY <1>5, MatrixLinear
  <2>2. f \in Linear /\ g \in Linear
    BY <2>1, DotPartials, FormPartials
  <2>3. ASSUME NEW r \in Index
        PROVE  f[e(r)] = g[e(r)]
    <3>1. Dot(e(r), pmod_mat_vec_mul(L, v)) = Dot(L[r], v)
      BY <2>1, UnitRow DEF e
    <3> QED
      BY <1>1, <1>7, <3>1
  <2>4. \A u \in Vectors : f[u] = g[u]
    <3> HIDE DEF f, g
    <3> QED
      BY <2>2, <2>3, LinearAgree DEF e
  <2> QED
    BY <2>4
<1> QED
  BY <1>5, <1>8 DEF L

\* triform_action_pullback: the elements are the values at the columns of the
\* matrices, and the form is the given one behind them.
LEMMA PulledBack ==
  ASSUME NEW F \in TriForms, NEW A \in Matrices, NEW B \in Matrices, NEW C \in Matrices
  PROVE  /\ triform_action_pullback(F, A, B, C) \in TriForms
         /\ \A i, j, k \in Index :
              triform_action_pullback(F, A, B, C)[k][i][j]
                = triform_eval(F, Column(A, i), Column(B, j), Column(C, k))
         /\ \A u, v, w \in Vectors :
              triform_eval(triform_action_pullback(F, A, B, C), u, v, w)
                = triform_eval(F, pmod_mat_vec_mul(A, u), pmod_mat_vec_mul(B, v),
                                  pmod_mat_vec_mul(C, w))
<1> DEFINE P == triform_action_pullback(F, A, B, C)
           T == pmod_mat_transpose(A)
           L(k) == pmod_mat_linear_combination(F, Column(C, k))
           X(k) == pmod_mat_mul(T, L(k))
<1>1. /\ \A n \in Index : /\ Column(A, n) \in Vectors /\ Column(B, n) \in Vectors
                          /\ Column(C, n) \in Vectors
  BY MatrixFacts
<1>2. \A k \in Index : L(k) \in Matrices
  BY <1>1, FormAtLast
<1>3. T \in Matrices /\ \A i \in Index : T[i] = Column(A, i)
  BY <1>1 DEF pmod_mat_transpose, Matrices
<1>4. P = [k \in Index |-> pmod_mat_mul(X(k), B)]
  BY DEF triform_action_pullback
<1> HIDE DEF P, T, L
<1>5. \A k, i \in Index :
        /\ X(k)[i] = [c \in Index |-> Dot(Column(A, i), Column(L(k), c))]
        /\ X(k)[i] \in Vectors
  <2> SUFFICES ASSUME NEW k \in Index, NEW i \in Index
               PROVE  /\ X(k)[i] = [c \in Index |-> Dot(Column(A, i), Column(L(k), c))]
                      /\ X(k)[i] \in Vectors
    OBVIOUS
  <2>1. X(k) = [r \in Index |-> [c \in Index |-> Dot(T[r], Column(L(k), c))]]
    BY <1>2, <1>3, MulEntries
  <2> HIDE DEF X
  <2>2. X(k)[i] = [c \in Index |-> Dot(Column(A, i), Column(L(k), c))]
    BY <1>3, <2>1
  <2> DEFINE aCol == Column(A, i)
             l == L(k)
  <2>3. aCol \in Vectors /\ l \in Matrices
    BY <1>1, <1>2
  <2> HIDE DEF aCol, l
  <2>4. [c \in Index |-> Dot(aCol, Column(l, c))] \in Vectors
    BY <2>3, Transposed
  <2> QED
    BY <2>2, <2>4 DEF aCol, l
<1>6. \A k \in Index : X(k) \in Matrices
  <2>1. \A k \in Index : X(k) = [r \in Index |-> X(k)[r]]
    BY DEF pmod_mat_mul
  <2> HIDE DEF X
  <2> QED
    BY <1>5, <2>1 DEF Matrices
<1> HIDE DEF X
<1>7. \A k, i, j \in Index :
        pmod_mat_mul(X(k), B)[i][j] = triform_eval(F, Column(A, i), Column(B, j), Column(C, k))
  <2> SUFFICES ASSUME NEW k \in Index, NEW i \in Index, NEW j \in Index
               PROVE  pmod_mat_mul(X(k), B)[i][j]
                        = triform_eval(F, Column(A, i), Column(B, j), Column(C, k))
    OBVIOUS
  <2>1. pmod_mat_mul(X(k), B)[i][j] = Dot(X(k)[i], Column(B, j))
    BY <1>6, MulEntries
  <2>2. Dot(X(k)[i], Column(B, j)) = Dot(Column(A, i), pmod_mat_vec_mul(L(k), Column(B, j)))
    <3> DEFINE aCol == Column(A, i)
               b == Column(B, j)
               l == L(k)
    <3>1. aCol \in Vectors /\ b \in Vectors /\ l \in Matrices
      BY <1>1, <1>2
    <3>2. X(k)[i] = [c \in Index |-> Dot(aCol, Column(l, c))]
      BY <1>5
    <3> HIDE DEF aCol, b, l
    <3>3. Dot([c \in Index |-> Dot(aCol, Column(l, c))], b) = Dot(aCol, pmod_mat_vec_mul(l, b))
      BY <3>1, Transposed
    <3> QED
      BY <3>2, <3>3 DEF aCol, b, l
  <2>3. Dot(Column(A, i), pmod_mat_vec_mul(L(k), Column(B, j)))
          = triform_eval(F, Column(A, i), Column(B, j), Column(C, k))
    BY <1>1, FormAtLast DEF L
  <2> QED
    BY <2>1, <2>2, <2>3
<1>8. P \in TriForms
  <2>1. ASSUME NEW k \in Index
        PROVE  pmod_mat_mul(X(k), B) \in Matrices
    <3> DEFINE Y == pmod_mat_mul(X(k), B)
    <3>1. Y = [r \in Index |-> [c \in Index |-> Y[r][c]]]
      BY DEF pmod_mat_mul
    <3>2. \A r, c \in Index : Y[r][c] \in Fq
      <4>1. \A u, v, w \in Vectors : triform_eval(F, u, v, w) \in Fq
        BY SlicesFacts
      <4> QED
        BY <1>1, <1>7, <4>1
    <3> HIDE DEF Y
    <3>3. Y \in Matrices
      BY <3>1, <3>2 DEF Matrices, Vectors
    <3> QED
      BY <3>3 DEF Y
  <2> QED
    BY <1>4, <2>1 DEF TriForms
<1>9. \A i, j, k \in Index :
        P[k][i][j] = triform_eval(F, Column(A, i), Column(B, j), Column(C, k))
  BY <1>4, <1>7
<1>10. \A u, v, w \in Vectors :
         triform_eval(P, u, v, w)
           = triform_eval(F, pmod_mat_vec_mul(A, u), pmod_mat_vec_mul(B, v), pmod_mat_vec_mul(C, w))
  <2>1. ElementsBehind(P, F, A, B, C)
    BY <1>9 DEF ElementsBehind
  <2>2. FormBehind(P, F, A, B, C)
    BY <1>8, <2>1, FormsAgree
  <2> QED
    BY <2>2 DEF FormBehind
<1> QED
  BY <1>8, <1>9, <1>10 DEF P

-----------------------------------------------------------------------------
(* Independent lists.                                                      *)

\* No combination of the members is zero but the trivial one.
Independent(list) ==
  \A x \in Vectors :
    pmod_mat_vec_mul(vector_list_to_matrix(list), x) = Zero
      => \A c \in Index : c < Len(list) => x[c] = 0

\* The members of a list are the columns of its matrix, the others are zero.
LEMMA ListMatrix ==
  ASSUME NEW list \in Seq(Vectors)
  PROVE  /\ vector_list_to_matrix(list) \in Matrices
         /\ \A c \in Index : c < Len(list) => /\ c + 1 \in DOMAIN list
                                              /\ Column(vector_list_to_matrix(list), c) = list[c + 1]
         /\ \A c \in Index : ~ c < Len(list) => Column(vector_list_to_matrix(list), c) = Zero
<1> DEFINE m == vector_list_to_matrix(list)
<1>1. Len(list) \in Nat /\ N \in Nat /\ 0 \in Fq /\ DOMAIN list = 1 .. Len(list)
  BY FieldFacts
<1>2. ASSUME NEW c \in Index, c < Len(list)
      PROVE  c + 1 \in DOMAIN list /\ list[c + 1] \in Vectors
  <2>1. c + 1 \in 1 .. Len(list)
    BY <1>1, <1>2 DEF Index
  <2> QED
    BY <1>1, <2>1
<1>3. \A r, c \in Index : m[r][c] = IF c < Len(list) THEN list[c + 1][r] ELSE 0
  BY DEF vector_list_to_matrix
<1>4. \A r, c \in Index : m[r][c] \in Fq
  BY <1>1, <1>2, <1>3 DEF Vectors
<1>5. m \in Matrices
  <2>1. m = [r \in Index |-> [c \in Index |-> m[r][c]]]
    BY DEF vector_list_to_matrix
  <2> HIDE DEF m
  <2> QED
    BY <1>4, <2>1 DEF Matrices, Vectors
<1>6. ASSUME NEW c \in Index, c < Len(list)
      PROVE  Column(m, c) = list[c + 1]
  <2>1. list[c + 1] = [r \in Index |-> list[c + 1][r]]
    BY <1>2, <1>6 DEF Vectors
  <2> QED
    BY <1>3, <1>6, <2>1 DEF Column
<1>7. ASSUME NEW c \in Index, ~ c < Len(list)
      PROVE  Column(m, c) = Zero
  BY <1>3, <1>7 DEF Column, Zero
<1> QED
  BY <1>2, <1>5, <1>6, <1>7

\* The rank tells whether a list is independent.
LEMMA RankOfList ==
  ASSUME NEW list \in Seq(Vectors), Len(list) <= N
  PROVE  pmod_mat_rank(vector_list_to_matrix(list)) = Len(list) <=> Independent(list)
<1> DEFINE G == vector_list_to_matrix(list)
           s == pmod_mat_rref(G)
           n == Len(list)
<1>1. G \in Matrices /\ \A c \in Index : ~ c < n => Column(G, c) = Zero
  BY ListMatrix
<1> HIDE DEF G
<1>2. Eliminated(G, s, N) /\ Undone(G, s)
  BY <1>1, RrefEliminates
<1> HIDE DEF s
<1>3. s \in States /\ Reduced(s, N) /\ s.A \in Matrices /\ s.rhs \in Matrices
      /\ RowsCombine(G, s.rhs, s.A)
  BY <1>2 DEF Eliminated, States
<1>4. \A v \in Vectors : pmod_mat_vec_mul(G, v) = Zero <=> \A r \in Index : Dot(s.A[r], v) = 0
  BY <1>1, <1>2, KernelKept
<1>5. n \in Nat /\ N \in Nat /\ n <= N
  BY FieldFacts
<1>6. ASSUME NEW c \in Index, ~ c < n, NEW r \in Index
      PROVE  s.A[r][c] = 0
  <2>1. s.A[r][c] = Dot(s.rhs[r], Zero)
    BY <1>1, <1>3, <1>6 DEF RowsCombine
  <2>2. s.rhs[r] \in Vectors
    BY <1>3, MatrixFacts
  <2> DEFINE g == [z \in Vectors |-> Dot(s.rhs[r], z)]
  <2>3. g \in Linear
    BY <2>2, DotPartials
  <2>4. g[Zero] = Dot(s.rhs[r], Zero)
    BY LinearAtZero
  <2> HIDE DEF g
  <2> QED
    BY <2>1, <2>3, <2>4, LinearAtZero
<1> DEFINE first == {c \in Index : c < n}
<1>7. PivotColumns(s) \subseteq first
  <2> SUFFICES ASSUME NEW i \in DOMAIN s.pivots PROVE s.pivots[i] \in first
    BY DEF PivotColumns
  <2>1. i \in Nat /\ i - 1 \in Index /\ s.pivots[i] \in Index
    BY <1>3, PivotRows
  <2>2. s.A[i - 1][s.pivots[i]] = 1
    BY <1>3, <2>1 DEF Reduced
  <2> QED
    BY <1>6, <2>1, <2>2
<1>8. IsFiniteSet(first) /\ Cardinality(first) = n
  <2>1. first = 0 .. n - 1
    BY <1>5 DEF Index
  <2>2. 0 \in Int /\ n - 1 \in Int
    BY <1>5
  <2>3. IsFiniteSet(0 .. n - 1) /\ Cardinality(0 .. n - 1) = IF 0 > n - 1 THEN 0 ELSE (n - 1) - 0 + 1
    BY <2>2, FS_Interval
  <2>4. (IF 0 > n - 1 THEN 0 ELSE (n - 1) - 0 + 1) = n
    BY <1>5
  <2> QED
    BY <2>1, <2>3, <2>4
<1>9. Len(s.pivots) = n <=> PivotColumns(s) = first
  <2>1. Cardinality(PivotColumns(s)) = Len(s.pivots)
    BY <1>3, FreeColumns
  <2>2. Cardinality(first) = Cardinality(PivotColumns(s)) => first = PivotColumns(s)
    BY <1>7, <1>8, FS_Subset
  <2> QED
    BY <1>8, <2>1, <2>2
<1>10. ASSUME PivotColumns(s) = first, NEW x \in Vectors, pmod_mat_vec_mul(G, x) = Zero,
              NEW c \in Index, c < n
       PROVE  x[c] = 0
  <2>1. PICK i \in DOMAIN s.pivots : s.pivots[i] = c
    BY <1>10 DEF PivotColumns
  <2>2. i \in Nat /\ i - 1 \in Index
    BY <1>3, PivotRows
  <2>3. Dot(s.A[i - 1], x) = 0
    BY <1>4, <1>10, <2>2
  <2>4. ASSUME NEW k \in Index
        PROVE  s.A[i - 1][k] = pmod_mat_identity[c][k]
    <3>1. CASE k < n
      <4>1. PICK j \in DOMAIN s.pivots : s.pivots[j] = k
        BY <1>10, <3>1 DEF PivotColumns
      <4>2. s.A[i - 1][k] = IF i - 1 = j - 1 THEN 1 ELSE 0
        BY <1>3, <2>2, <4>1 DEF Reduced
      <4>3. PivotRow(s, s.pivots[i]) = {i} /\ j \in Nat
        BY <1>3, PivotRows
      <4>4. k = c <=> j = i
        BY <2>1, <4>1, <4>3 DEF PivotRow
      <4> QED
        BY <2>2, <4>2, <4>3, <4>4, IdentityFacts
    <3>2. CASE ~ k < n
      <4>1. k # c
        BY <1>10, <3>2
      <4> QED
        BY <1>6, <2>2, <3>2, <4>1, IdentityFacts
    <3> QED
      BY <3>1, <3>2
  <2>5. s.A[i - 1] = pmod_mat_identity[c]
    <3>1. s.A[i - 1] \in Vectors /\ pmod_mat_identity[c] \in Vectors
      BY <1>3, <2>2, IdentityFacts, MatrixFacts
    <3> QED
      BY <2>4, <3>1 DEF Vectors
  <2> QED
    BY <2>3, <2>5, UnitRow
<1>11. ASSUME Independent(list), PivotColumns(s) # first
       PROVE  FALSE
  <2>1. PICK c \in first : c \notin PivotColumns(s)
    BY <1>7, <1>11
  <2>2. c \in Free(s) /\ c \in Index /\ c < n
    BY <2>1 DEF Free
  <2>3. FreeVector(s, c) \in Vectors /\ FreeVector(s, c)[c] = 1
    BY <1>3, <2>2, FreeVectorFacts
  <2>4. \A r \in Index : Dot(s.A[r], FreeVector(s, c)) = 0
    BY <1>3, <2>2, FreeVectorInKernel
  <2>5. pmod_mat_vec_mul(G, FreeVector(s, c)) = Zero
    BY <1>4, <2>3, <2>4
  <2> QED
    BY <1>11, <2>2, <2>3, <2>5 DEF Independent, G
<1>12. PivotColumns(s) = first <=> Independent(list)
  BY <1>10, <1>11 DEF Independent, G
<1> QED
  BY <1>9, <1>12 DEF pmod_mat_rank, s, G

\* The list of no vectors is independent, and that of one that is not zero.
LEMMA ShortLists ==
  /\ pmod_mat_rank(vector_list_to_matrix(<<>>)) = Len(<<>>)
  /\ \A u \in Vectors \ {Zero} : pmod_mat_rank(vector_list_to_matrix(<<u>>)) = Len(<<u>>)
<1>1. N \in Nat /\ N >= 1 /\ 0 \in Index /\ \A c \in Index : c \in Nat
  <2>1. N \in Nat /\ N >= 1 /\ 0 \in Index
    BY FieldFacts
  <2> QED
    BY <2>1 DEF Index
<1>2. pmod_mat_rank(vector_list_to_matrix(<<>>)) = Len(<<>>)
  <2>1. <<>> \in Seq(Vectors) /\ Len(<<>>) = 0
    OBVIOUS
  <2>2. Independent(<<>>)
    <3>1. \A c \in Index : ~ c < Len(<<>>)
      BY <1>1, <2>1
    <3> QED
      BY <3>1 DEF Independent
  <2>3. Len(<<>>) <= N
    BY <1>1, <2>1
  <2> QED
    BY <2>1, <2>2, <2>3, RankOfList
<1>3. ASSUME NEW u \in Vectors \ {Zero}
      PROVE  pmod_mat_rank(vector_list_to_matrix(<<u>>)) = Len(<<u>>)
  <2> DEFINE G == vector_list_to_matrix(<<u>>)
  <2>1. <<u>> \in Seq(Vectors) /\ Len(<<u>>) = 1 /\ <<u>>[1] = u
    OBVIOUS
  <2>2. G \in Matrices /\ Column(G, 0) = u /\ \A c \in Index : c # 0 => Column(G, c) = Zero
    <3>1. \A c \in Index : c < 1 <=> c = 0
      BY <1>1
    <3>2. 0 + 1 = 1
      OBVIOUS
    <3> QED
      BY <1>1, <2>1, <3>1, <3>2, ListMatrix
  <2> HIDE DEF G
  <2>3. ASSUME NEW x \in Vectors, pmod_mat_vec_mul(G, x) = Zero
        PROVE  x[0] = 0
    <3>1. PICK r \in Index : u[r] # 0
      BY DEF Vectors, Zero
    <3>2. Dot(G[r], x) = 0
      BY <2>2, <2>3, <3>1, MatrixLinear, LinearAtZero
    <3>3. G[r] \in Vectors /\ pmod_mat_identity[0] \in Vectors /\ u[r] \in Fq /\ x[0] \in Fq /\ 0 \in Fq
      BY <1>1, <2>2, FieldFacts, IdentityFacts, MatrixFacts DEF Vectors
    <3> DEFINE c == Multiple(u[r], pmod_mat_identity[0])
    <3>4. \A k \in Index : G[r][k] = IF k = 0 THEN u[r] ELSE 0
      <4>1. \A k \in Index : Column(G, k)[r] = G[r][k]
        BY <2>2, MatrixFacts
      <4>2. \A k \in Index : Zero[r] = 0
        BY LinearAtZero
      <4> QED
        BY <2>2, <4>1, <4>2
    <3>5. G[r] = c
      <4>1. c \in Vectors /\ \A k \in Index : c[k] = GF_mul(u[r], pmod_mat_identity[0][k])
        BY <3>3, MultipleFacts
      <4>2. \A k \in Index : c[k] = IF k = 0 THEN u[r] ELSE 0
        BY <1>1, <3>3, <4>1, IdentityFacts, FieldZero
      <4> HIDE DEF c
      <4> QED
        BY <3>3, <3>4, <4>1, <4>2 DEF Vectors
    <3>6. Dot(c, x) = Mixed(u[r], x[0], 0, x[0])
      <4>1. c = Combination(u[r], pmod_mat_identity[0], 0, pmod_mat_identity[0])
        BY <3>3, MultipleFacts
      <4>2. Dot(pmod_mat_identity[0], x) = x[0]
        BY <1>1, UnitRow
      <4> HIDE DEF c
      <4> QED
        BY <3>3, <4>1, <4>2, DotLinear
    <3>7. GF_mul(u[r], x[0]) = 0
      <4>1. u[r] \in Int /\ x[0] \in Int
        BY <3>3, FieldFacts
      <4>2. u[r] * x[0] + 0 * x[0] = u[r] * x[0]
        BY <4>1
      <4> QED
        BY <3>2, <3>5, <3>6, <4>2 DEF GF_mul, Mixed
    <3> QED
      BY <3>1, <3>3, <3>7, ProductsNotZero
  <2>4. Independent(<<u>>)
    <3>1. \A c \in Index : c < 1 => c = 0
      BY <1>1
    <3> QED
      BY <2>1, <2>3, <3>1 DEF Independent, G
  <2> QED
    BY <1>1, <2>1, <2>4, RankOfList
<1> QED
  BY <1>2, <1>3

-----------------------------------------------------------------------------
(* The kernels of a form.                                                  *)

\* The arguments that make the form zero next to a given one, whatever the
\* third: phi(u, v, .), phi(., v, w) and phi(u, ., w).
KilledByU(F, u) == {v \in Vectors : \A w \in Vectors : triform_eval(F, u, v, w) = 0}
KilledByV(F, v) == {w \in Vectors : \A u \in Vectors : triform_eval(F, u, v, w) = 0}
KilledByW(F, w) == {u \in Vectors : \A v \in Vectors : triform_eval(F, u, v, w) = 0}

\* A linear function is zero if it is at the unit vectors.
LEMMA LinearVanishes ==
  ASSUME NEW f \in Linear
  PROVE  (\A v \in Vectors : f[v] = 0) <=> \A k \in Index : f[pmod_mat_identity[k]] = 0
<1>1. \A k \in Index : pmod_mat_identity[k] \in Vectors
  BY IdentityFacts, MatrixFacts
<1>2. ASSUME \A k \in Index : f[pmod_mat_identity[k]] = 0, NEW v \in Vectors
      PROVE  f[v] = 0
  <2>1. [k \in Index |-> f[pmod_mat_identity[k]]] = Zero
    BY <1>2 DEF Zero
  <2>2. f[v] = Dot(v, [k \in Index |-> f[pmod_mat_identity[k]]])
    BY LinearIsDot
  <2> QED
    BY <2>1, <2>2, DotZero
<1> QED
  BY <1>1, <1>2

\* The zero vector, element by element.
LEMMA VectorIsZero ==
  ASSUME NEW v \in Vectors
  PROVE  v = Zero <=> \A k \in Index : v[k] = 0
BY LinearAtZero DEF Vectors

\* The rows of a transposed matrix are the columns.
LEMMA TransposedMatrix ==
  ASSUME NEW A \in Matrices
  PROVE  /\ pmod_mat_transpose(A) \in Matrices
         /\ \A c \in Index : pmod_mat_transpose(A)[c] = Column(A, c)
         /\ pmod_mat_transpose(pmod_mat_transpose(A)) = A
<1>1. \A c \in Index : Column(A, c) \in Vectors /\ \A r \in Index : Column(A, c)[r] = A[r][c]
  BY MatrixFacts
<1>2. pmod_mat_transpose(A) \in Matrices /\ \A c \in Index : pmod_mat_transpose(A)[c] = Column(A, c)
  BY <1>1 DEF pmod_mat_transpose, Matrices
<1>3. ASSUME NEW r \in Index
      PROVE  Column(pmod_mat_transpose(A), r) = A[r]
  <2>1. A[r] \in Vectors /\ A[r] = [c \in Index |-> A[r][c]]
    BY MatrixFacts DEF Vectors
  <2>2. \A c \in Index : pmod_mat_transpose(A)[c][r] = A[r][c]
    BY <1>1, <1>2
  <2> QED
    BY <2>1, <2>2 DEF Column
<1>4. A = [r \in Index |-> A[r]]
  BY DEF Matrices
<1> QED
  BY <1>2, <1>3, <1>4 DEF pmod_mat_transpose

\* What triform_phi_u_lker_corank1 finds spans the kernel next to u.
LEMMA KernelAtU ==
  ASSUME NEW F \in TriForms, NEW u \in Vectors
  PROVE  SpansLine(KilledByU(F, u), triform_phi_u_lker_corank1(F, u))
<1> DEFINE X == [slice \in Index |-> pmod_mat_transpose_vec_mul(F[slice], u)]
<1>1. \A s \in Index : F[s] \in Matrices
  BY DEF TriForms
<1>2. ASSUME NEW s \in Index
      PROVE  /\ X[s] \in Vectors
             /\ \A v \in Vectors : Dot(X[s], v) = Dot(u, pmod_mat_vec_mul(F[s], v))
  <2>1. \A c \in Index : Column(F[s], c) \in Vectors
    BY <1>1, MatrixFacts
  <2>2. \A c \in Index : Dot(Column(F[s], c), u) = Dot(u, Column(F[s], c))
    BY <2>1, DotCommutes
  <2>3. X[s] = [c \in Index |-> Dot(u, Column(F[s], c))]
    BY <2>2 DEF pmod_mat_transpose_vec_mul
  <2>4. \A v \in Vectors :
          /\ [c \in Index |-> Dot(u, Column(F[s], c))] \in Vectors
          /\ Dot([c \in Index |-> Dot(u, Column(F[s], c))], v) = Dot(u, pmod_mat_vec_mul(F[s], v))
    BY <1>1, Transposed
  <2> HIDE DEF X
  <2> QED
    BY <2>3, <2>4, LinearAtZero
<1>3. X \in Matrices
  BY <1>2 DEF Matrices
<1>4. triform_phi_u_lker_corank1(F, u) = pmod_mat_right_kernel_corank1(X)
  <2>1. triform_phi_u(F, u) = pmod_mat_transpose(X)
    BY DEF triform_phi_u
  <2> HIDE DEF X
  <2> QED
    BY <1>3, <2>1, TransposedMatrix DEF triform_phi_u_lker_corank1, pmod_mat_left_kernel_corank1
<1> HIDE DEF X
<1>5. ASSUME NEW v \in Vectors
      PROVE  pmod_mat_vec_mul(X, v) = Zero <=> \A w \in Vectors : triform_eval(F, u, v, w) = 0
  <2> DEFINE S == Slices(F, u, v)
             f == [w \in Vectors |-> triform_eval(F, u, v, w)]
  <2>1. S \in Vectors /\ \A w \in Vectors : triform_eval(F, u, v, w) = Dot(w, S)
    BY SlicesFacts
  <2>2. pmod_mat_vec_mul(X, v) = S
    BY <1>2 DEF pmod_mat_vec_mul, Slices
  <2>3. \A k \in Index : f[pmod_mat_identity[k]] = S[k]
    <3>1. \A k \in Index : pmod_mat_identity[k] \in Vectors
      BY IdentityFacts, MatrixFacts
    <3>2. \A k \in Index : Dot(pmod_mat_identity[k], S) = S[k]
      <4> HIDE DEF S
      <4> QED
        BY <2>1, UnitRow
    <3> HIDE DEF S
    <3> QED
      BY <2>1, <3>1, <3>2
  <2>4. \A w \in Vectors : f[w] = triform_eval(F, u, v, w)
    OBVIOUS
  <2>5. f \in Linear
    BY FormPartials
  <2> HIDE DEF S, f
  <2>6. (\A w \in Vectors : f[w] = 0) <=> \A k \in Index : S[k] = 0
    BY <2>3, <2>5, LinearVanishes
  <2> QED
    BY <2>1, <2>2, <2>4, <2>6, VectorIsZero
<1>6. KernelSet(X) = KilledByU(F, u)
  BY <1>5 DEF KernelSet, KilledByU
<1> QED
  BY <1>3, <1>4, <1>6, KernelOfLine

\* What triform_phi_v_rker_corank1 finds spans the kernel next to v.
LEMMA KernelAtV ==
  ASSUME NEW F \in TriForms, NEW v \in Vectors
  PROVE  SpansLine(KilledByV(F, v), triform_phi_v_rker_corank1(F, v))
<1> DEFINE Y == [slice \in Index |-> pmod_mat_vec_mul(F[slice], v)]
           X == pmod_mat_transpose(Y)
<1>1. \A s \in Index : F[s] \in Matrices
  BY DEF TriForms
<1>2. \A s \in Index : pmod_mat_vec_mul(F[s], v) \in Vectors
  BY <1>1, MatrixLinear
<1>3. Y \in Matrices /\ \A s \in Index : Y[s] = pmod_mat_vec_mul(F[s], v)
  BY <1>2 DEF Matrices
<1>4. triform_phi_v_rker_corank1(F, v) = pmod_mat_right_kernel_corank1(X)
  BY DEF triform_phi_v_rker_corank1, triform_phi_v
<1> HIDE DEF Y
<1>5. X \in Matrices /\ \A r \in Index : X[r] = Column(Y, r)
  BY <1>3, TransposedMatrix
<1> HIDE DEF X
<1>6. ASSUME NEW r \in Index
      PROVE  X[r] = Slices(F, pmod_mat_identity[r], v)
  <2>1. \A s \in Index : Dot(pmod_mat_identity[r], Y[s]) = Y[s][r]
    BY <1>2, <1>3, UnitRow
  <2> QED
    BY <1>3, <1>5, <2>1 DEF Column, Slices
<1>7. ASSUME NEW w \in Vectors
      PROVE  pmod_mat_vec_mul(X, w) = Zero <=> \A u \in Vectors : triform_eval(F, u, v, w) = 0
  <2> DEFINE f == [u \in Vectors |-> triform_eval(F, u, v, w)]
  <2>1. pmod_mat_vec_mul(X, w) \in Vectors
        /\ \A r \in Index : pmod_mat_vec_mul(X, w)[r] = Dot(X[r], w)
    BY <1>5, MatrixLinear
  <2>2. \A r \in Index : f[pmod_mat_identity[r]] = Dot(X[r], w)
    <3> SUFFICES ASSUME NEW r \in Index
                 PROVE  f[pmod_mat_identity[r]] = Dot(X[r], w)
      OBVIOUS
    <3>1. pmod_mat_identity[r] \in Vectors
      BY IdentityFacts, MatrixFacts
    <3>2. Slices(F, pmod_mat_identity[r], v) \in Vectors
          /\ triform_eval(F, pmod_mat_identity[r], v, w) = Dot(w, Slices(F, pmod_mat_identity[r], v))
      BY <3>1, SlicesFacts
    <3> QED
      BY <1>6, <3>1, <3>2, DotCommutes
  <2>3. \A u \in Vectors : f[u] = triform_eval(F, u, v, w)
    OBVIOUS
  <2>4. f \in Linear
    BY FormPartials
  <2> HIDE DEF f
  <2>5. (\A u \in Vectors : f[u] = 0) <=> \A k \in Index : pmod_mat_vec_mul(X, w)[k] = 0
    BY <2>1, <2>2, <2>4, LinearVanishes
  <2> QED
    BY <2>1, <2>3, <2>5, VectorIsZero
<1>8. KernelSet(X) = KilledByV(F, v)
  BY <1>7 DEF KernelSet, KilledByV
<1> QED
  BY <1>4, <1>5, <1>8, KernelOfLine

\* What triform_matrix_at_w_lker_corank1 finds spans the kernel next to w.
LEMMA KernelAtW ==
  ASSUME NEW F \in TriForms, NEW w \in Vectors
  PROVE  SpansLine(KilledByW(F, w), triform_matrix_at_w_lker_corank1(F, w))
<1> DEFINE L == pmod_mat_linear_combination(F, w)
           X == pmod_mat_transpose(L)
<1>1. L \in Matrices
      /\ \A u, v \in Vectors : Dot(u, pmod_mat_vec_mul(L, v)) = triform_eval(F, u, v, w)
  BY FormAtLast
<1>2. triform_matrix_at_w_lker_corank1(F, w) = pmod_mat_right_kernel_corank1(X)
  BY DEF triform_matrix_at_w_lker_corank1, triform_matrix_at_w, pmod_mat_left_kernel_corank1
<1> HIDE DEF L
<1>3. X \in Matrices /\ \A r \in Index : X[r] = Column(L, r)
  BY <1>1, TransposedMatrix
<1> HIDE DEF X
<1>4. ASSUME NEW u \in Vectors
      PROVE  pmod_mat_vec_mul(X, u) = Zero <=> \A v \in Vectors : triform_eval(F, u, v, w) = 0
  <2> DEFINE f == [v \in Vectors |-> triform_eval(F, u, v, w)]
  <2>1. pmod_mat_vec_mul(X, u) \in Vectors
        /\ \A r \in Index : pmod_mat_vec_mul(X, u)[r] = Dot(X[r], u)
    BY <1>3, MatrixLinear
  <2>2. \A r \in Index : f[pmod_mat_identity[r]] = Dot(X[r], u)
    <3> SUFFICES ASSUME NEW r \in Index
                 PROVE  f[pmod_mat_identity[r]] = Dot(X[r], u)
      OBVIOUS
    <3>1. pmod_mat_identity[r] \in Vectors /\ X[r] \in Vectors
      BY <1>3, IdentityFacts, MatrixFacts
    <3>2. pmod_mat_vec_mul(L, pmod_mat_identity[r]) = X[r]
      BY <1>1, <1>3, MatrixLinear
    <3> QED
      BY <1>1, <3>1, <3>2, DotCommutes
  <2>3. \A v \in Vectors : f[v] = triform_eval(F, u, v, w)
    OBVIOUS
  <2>4. f \in Linear
    BY FormPartials
  <2> HIDE DEF f
  <2>5. (\A v \in Vectors : f[v] = 0) <=> \A k \in Index : pmod_mat_vec_mul(X, u)[k] = 0
    BY <2>1, <2>2, <2>4, LinearVanishes
  <2> QED
    BY <2>1, <2>3, <2>5, VectorIsZero
<1>5. KernelSet(X) = KilledByW(F, w)
  BY <1>4 DEF KernelSet, KilledByW
<1> QED
  BY <1>2, <1>3, <1>5, KernelOfLine

-----------------------------------------------------------------------------
(* What matrices with an inverse carry over.                               *)

\* One vector is sent to a multiple of another.
Carried(A, x, y) == \E m \in Fq \ {0} : pmod_mat_vec_mul(A, x) = Multiple(m, y)

\* A product of matrices is one after the other.
LEMMA ProductApplied ==
  ASSUME NEW A \in Matrices, NEW B \in Matrices, NEW v \in Vectors
  PROVE  pmod_mat_vec_mul(pmod_mat_mul(A, B), v) = pmod_mat_vec_mul(A, pmod_mat_vec_mul(B, v))
<1>1. ASSUME NEW r \in Index
      PROVE  Dot(pmod_mat_mul(A, B)[r], v) = Dot(A[r], pmod_mat_vec_mul(B, v))
  <2>1. pmod_mat_mul(A, B)[r] = [c \in Index |-> Dot(A[r], Column(B, c))]
    BY MulEntries
  <2>2. A[r] \in Vectors
    BY MatrixFacts
  <2> QED
    BY <2>1, <2>2, Transposed
<1> QED
  BY <1>1 DEF pmod_mat_vec_mul

\* The identity leaves a vector.
LEMMA IdentityApplied ==
  ASSUME NEW v \in Vectors
  PROVE  pmod_mat_vec_mul(pmod_mat_identity, v) = v
<1>1. \A r \in Index : Dot(pmod_mat_identity[r], v) = v[r]
  BY UnitRow
<1>2. v = [r \in Index |-> v[r]]
  BY DEF Vectors
<1> QED
  BY <1>1, <1>2 DEF pmod_mat_vec_mul

\* The inverse undoes the matrix, and the matrix the inverse.
LEMMA InverseUndoes ==
  ASSUME NEW A \in Matrices, pmod_mat_is_invertible(A), NEW v \in Vectors
  PROVE  /\ pmod_mat_vec_mul(pmod_mat_inv(A), v) \in Vectors
         /\ pmod_mat_vec_mul(A, pmod_mat_vec_mul(pmod_mat_inv(A), v)) = v
         /\ pmod_mat_vec_mul(pmod_mat_inv(A), pmod_mat_vec_mul(A, v)) = v
<1>1. /\ pmod_mat_inv(A) \in Matrices
      /\ pmod_mat_mul(pmod_mat_inv(A), A) = pmod_mat_identity
      /\ pmod_mat_mul(A, pmod_mat_inv(A)) = pmod_mat_identity
  BY InverseIsTwoSided
<1>2. pmod_mat_vec_mul(pmod_mat_mul(pmod_mat_inv(A), A), v)
        = pmod_mat_vec_mul(pmod_mat_inv(A), pmod_mat_vec_mul(A, v))
  BY <1>1, ProductApplied
<1>3. pmod_mat_vec_mul(pmod_mat_mul(A, pmod_mat_inv(A)), v)
        = pmod_mat_vec_mul(A, pmod_mat_vec_mul(pmod_mat_inv(A), v))
  BY <1>1, ProductApplied
<1> QED
  BY <1>1, <1>2, <1>3, IdentityApplied, MatrixLinear

\* A matrix takes multiples to multiples.
LEMMA MultipleCarried ==
  ASSUME NEW A \in Matrices, NEW m \in Fq, NEW v \in Vectors
  PROVE  pmod_mat_vec_mul(A, Multiple(m, v)) = Multiple(m, pmod_mat_vec_mul(A, v))
<1>1. pmod_mat_vec_mul(A, v) \in Vectors
  BY MatrixLinear
<1>2. Multiple(m, v) = Combination(m, v, 0, v) /\ 0 \in Fq
  BY MultipleFacts, FieldFacts
<1>3. Multiple(m, pmod_mat_vec_mul(A, v))
        = Combination(m, pmod_mat_vec_mul(A, v), 0, pmod_mat_vec_mul(A, v))
  BY <1>1, MultipleFacts
<1> QED
  BY <1>2, <1>3, MatrixLinear

\* One time a vector, and zero times; no other multiple is zero.
LEMMA MultipleOfOne ==
  ASSUME NEW v \in Vectors
  PROVE  /\ Multiple(1, v) = v /\ Multiple(0, v) = Zero
         /\ \A m \in Fq \ {0} : Multiple(m, v) = Zero => v = Zero
<1>1. \A k \in Index : v[k] \in Fq
  BY DEF Vectors
<1>2. \A m \in Fq : Multiple(m, v) \in Vectors /\ \A k \in Index : Multiple(m, v)[k] = GF_mul(m, v[k])
  BY MultipleFacts
<1>3. Multiple(1, v) = v
  <2>1. \A k \in Index : Multiple(1, v)[k] = v[k]
    BY <1>1, <1>2, FieldZero, FieldFacts
  <2> QED
    BY <1>2, <2>1, FieldFacts DEF Vectors
<1>4. Multiple(0, v) = Zero
  <2>1. \A k \in Index : GF_mul(0, v[k]) = 0
    BY <1>1, FieldZero
  <2>2. \A k \in Index : Multiple(0, v)[k] = GF_mul(0, v[k])
    BY <1>2, FieldFacts
  <2> QED
    BY <1>2, <2>1, <2>2, FieldFacts, VectorIsZero
<1>5. ASSUME NEW m \in Fq \ {0}, Multiple(m, v) = Zero
      PROVE  v = Zero
  <2>1. \A k \in Index : GF_mul(m, v[k]) = 0
    BY <1>2, <1>5, LinearAtZero
  <2>2. \A k \in Index : v[k] = 0
    BY <1>1, <2>1, ProductsNotZero
  <2> QED
    BY <2>2, VectorIsZero
<1> QED
  BY <1>3, <1>4, <1>5

\* A line and the vectors that are sent into it: they form a line too.
LEMMA LineCarried ==
  ASSUME NEW B \in Matrices, pmod_mat_is_invertible(B),
         NEW S, NEW K, K # None, SpansLine(S, K),
         NEW J, SpansLine({v \in Vectors : pmod_mat_vec_mul(B, v) \in S}, J)
  PROVE  J # None /\ J \in Vectors /\ K \in Vectors /\ Carried(B, J, K)
<1> DEFINE T == {v \in Vectors : pmod_mat_vec_mul(B, v) \in S}
           g == pmod_mat_vec_mul(pmod_mat_inv(B), K)
<1>1. K \in Vectors /\ K # Zero /\ S = Line(K)
  BY DEF SpansLine
<1>2. g \in Vectors /\ pmod_mat_vec_mul(B, g) = K
  BY <1>1, InverseUndoes
<1>3. pmod_mat_vec_mul(B, Zero) = Zero
  <2>1. \A r \in Index : B[r] \in Vectors
    BY MatrixFacts
  <2>2. \A r \in Index : Dot(B[r], Zero) = 0
    BY <2>1, DotZero
  <2> QED
    BY <2>2 DEF pmod_mat_vec_mul, Zero
<1>4. g # Zero
  BY <1>1, <1>2, <1>3
<1> HIDE DEF g
<1>5. \A v \in Vectors : pmod_mat_vec_mul(pmod_mat_inv(B), pmod_mat_vec_mul(B, v)) = v
  BY InverseUndoes
<1>6. \A m \in Fq : Multiple(m, g) \in Vectors /\ pmod_mat_vec_mul(B, Multiple(m, g)) = Multiple(m, K)
  BY <1>2, MultipleFacts, MultipleCarried
<1>7. T = Line(g)
  <2>1. ASSUME NEW v \in T
        PROVE  v \in Line(g)
    <3>1. v \in Vectors /\ pmod_mat_vec_mul(B, v) \in Line(K)
      BY <1>1
    <3>2. PICK m \in Fq : pmod_mat_vec_mul(B, v) = Multiple(m, K)
      BY <3>1 DEF Line
    <3>3. v = Multiple(m, g)
      BY <1>5, <1>6, <3>1, <3>2
    <3> QED
      BY <3>3 DEF Line
  <2>2. ASSUME NEW m \in Fq
        PROVE  Multiple(m, g) \in T
    BY <1>1, <1>6 DEF Line
  <2> QED
    BY <2>1, <2>2 DEF Line
<1>8. SpansLine(T, J)
  OBVIOUS
<1>9. J # None /\ J \in Vectors \ {Zero} /\ T = Line(J)
  <2> HIDE DEF T
  <2> QED
    BY <1>2, <1>4, <1>7, <1>8 DEF SpansLine
<1>10. J \in T
  <2>1. J = Multiple(1, J) /\ 1 \in Fq
    BY <1>9, MultipleOfOne, FieldFacts
  <2> HIDE DEF T
  <2> QED
    BY <1>9, <2>1 DEF Line
<1>11. PICK m \in Fq : pmod_mat_vec_mul(B, J) = Multiple(m, K)
  BY <1>1, <1>10 DEF Line
<1>12. m # 0
  <2> SUFFICES ASSUME m = 0 PROVE FALSE
    OBVIOUS
  <2>1. pmod_mat_vec_mul(B, J) = Zero
    BY <1>1, <1>11, MultipleOfOne
  <2>2. J = Zero
    BY <1>3, <1>5, <1>9, <2>1, LinearAtZero
  <2> QED
    BY <1>9, <2>2
<1> QED
  BY <1>1, <1>9, <1>11, <1>12 DEF Carried

\* A form is zero at multiples exactly where it is at the vectors.
LEMMA FormOfMultiple ==
  ASSUME NEW F \in TriForms, NEW m \in Fq, NEW p \in Vectors, NEW s \in Vectors, NEW t \in Vectors
  PROVE  /\ triform_eval(F, Multiple(m, p), s, t) = GF_mul(m, triform_eval(F, p, s, t))
         /\ triform_eval(F, s, Multiple(m, p), t) = GF_mul(m, triform_eval(F, s, p, t))
         /\ triform_eval(F, s, t, Multiple(m, p)) = GF_mul(m, triform_eval(F, s, t, p))
         /\ {triform_eval(F, p, s, t), triform_eval(F, s, p, t), triform_eval(F, s, t, p)} \subseteq Fq
<1>1. Multiple(m, p) = Combination(m, p, 0, p) /\ 0 \in Fq
  BY MultipleFacts, FieldFacts
<1>2. ASSUME NEW x \in Fq
      PROVE  Mixed(m, x, 0, x) = GF_mul(m, x)
  <2>1. m \in Int /\ x \in Int
    BY FieldFacts
  <2>2. m * x + 0 * x = m * x
    BY <2>1
  <2> QED
    BY <2>2 DEF Mixed, GF_mul
<1>3. /\ triform_eval(F, p, s, t) \in Fq /\ triform_eval(F, s, p, t) \in Fq
      /\ triform_eval(F, s, t, p) \in Fq
  BY SlicesFacts
<1>4. triform_eval(F, Combination(m, p, 0, p), s, t)
        = Mixed(m, triform_eval(F, p, s, t), 0, triform_eval(F, p, s, t))
  BY <1>1, FormLinear
<1>5. triform_eval(F, s, Combination(m, p, 0, p), t)
        = Mixed(m, triform_eval(F, s, p, t), 0, triform_eval(F, s, p, t))
  BY <1>1, FormLinear
<1>6. triform_eval(F, s, t, Combination(m, p, 0, p))
        = Mixed(m, triform_eval(F, s, t, p), 0, triform_eval(F, s, t, p))
  BY <1>1, FormLinear
<1> QED
  BY <1>1, <1>2, <1>3, <1>4, <1>5, <1>6

\* The step of the path from u to v, in a form and in one it is pulled back to.
LEMMA StepFromU ==
  ASSUME NEW F \in TriForms, NEW P \in TriForms,
         NEW A \in Matrices, NEW B \in Matrices, NEW C \in Matrices,
         pmod_mat_is_invertible(B), pmod_mat_is_invertible(C), FormBehind(P, F, A, B, C),
         NEW u \in Vectors, NEW x \in Vectors, Carried(A, x, u),
         triform_phi_u_lker_corank1(F, u) # None
  PROVE  /\ triform_phi_u_lker_corank1(P, x) # None
         /\ triform_phi_u_lker_corank1(P, x) \in Vectors
         /\ triform_phi_u_lker_corank1(F, u) \in Vectors
         /\ Carried(B, triform_phi_u_lker_corank1(P, x), triform_phi_u_lker_corank1(F, u))
<1>1. PICK m \in Fq \ {0} : pmod_mat_vec_mul(A, x) = Multiple(m, u)
  BY DEF Carried
<1>2. \A v \in Vectors : pmod_mat_vec_mul(B, v) \in Vectors /\ pmod_mat_vec_mul(C, v) \in Vectors
  BY MatrixLinear
<1>3. ASSUME NEW v \in Vectors, NEW w \in Vectors
      PROVE  triform_eval(P, x, v, w) = 0
               <=> triform_eval(F, u, pmod_mat_vec_mul(B, v), pmod_mat_vec_mul(C, w)) = 0
  <2> DEFINE s == pmod_mat_vec_mul(B, v)
             t == pmod_mat_vec_mul(C, w)
  <2>1. triform_eval(P, x, v, w) = triform_eval(F, Multiple(m, u), s, t)
    BY <1>1 DEF FormBehind
  <2>2. s \in Vectors /\ t \in Vectors
    BY <1>2
  <2> HIDE DEF s, t
  <2>3. triform_eval(F, Multiple(m, u), s, t) = GF_mul(m, triform_eval(F, u, s, t))
    BY <2>2, FormOfMultiple
  <2>4. triform_eval(F, u, s, t) \in Fq
    BY <2>2, SlicesFacts
  <2> QED
    BY <2>1, <2>3, <2>4, FieldZero, ProductsNotZero DEF s, t
<1>4. \A w \in Vectors : \E z \in Vectors : pmod_mat_vec_mul(C, z) = w
  BY InverseUndoes
<1>5. KilledByU(P, x) = {v \in Vectors : pmod_mat_vec_mul(B, v) \in KilledByU(F, u)}
  <2>1. ASSUME NEW v \in Vectors
        PROVE  (\A w \in Vectors : triform_eval(P, x, v, w) = 0)
                 <=> \A w \in Vectors : triform_eval(F, u, pmod_mat_vec_mul(B, v), w) = 0
    <3>1. ASSUME \A w \in Vectors : triform_eval(P, x, v, w) = 0, NEW w \in Vectors
          PROVE  triform_eval(F, u, pmod_mat_vec_mul(B, v), w) = 0
      <4>1. PICK e \in Vectors : pmod_mat_vec_mul(C, e) = w
        BY <1>4
      <4> QED
        BY <1>3, <3>1, <4>1
    <3>2. ASSUME \A w \in Vectors : triform_eval(F, u, pmod_mat_vec_mul(B, v), w) = 0, NEW w \in Vectors
          PROVE  triform_eval(P, x, v, w) = 0
      BY <1>2, <1>3, <3>2
    <3> QED
      BY <3>1, <3>2
  <2> QED
    BY <1>2, <2>1 DEF KilledByU
<1>6. SpansLine(KilledByU(F, u), triform_phi_u_lker_corank1(F, u))
      /\ SpansLine(KilledByU(P, x), triform_phi_u_lker_corank1(P, x))
  BY KernelAtU
<1> QED
  BY <1>5, <1>6, LineCarried

\* The step from v to w.
LEMMA StepFromV ==
  ASSUME NEW F \in TriForms, NEW P \in TriForms,
         NEW A \in Matrices, NEW B \in Matrices, NEW C \in Matrices,
         pmod_mat_is_invertible(A), pmod_mat_is_invertible(C), FormBehind(P, F, A, B, C),
         NEW v \in Vectors, NEW y \in Vectors, Carried(B, y, v),
         triform_phi_v_rker_corank1(F, v) # None
  PROVE  /\ triform_phi_v_rker_corank1(P, y) # None
         /\ triform_phi_v_rker_corank1(P, y) \in Vectors
         /\ triform_phi_v_rker_corank1(F, v) \in Vectors
         /\ Carried(C, triform_phi_v_rker_corank1(P, y), triform_phi_v_rker_corank1(F, v))
<1>1. PICK m \in Fq \ {0} : pmod_mat_vec_mul(B, y) = Multiple(m, v)
  BY DEF Carried
<1>2. \A w \in Vectors : pmod_mat_vec_mul(A, w) \in Vectors /\ pmod_mat_vec_mul(C, w) \in Vectors
  BY MatrixLinear
<1>3. ASSUME NEW u \in Vectors, NEW w \in Vectors
      PROVE  triform_eval(P, u, y, w) = 0
               <=> triform_eval(F, pmod_mat_vec_mul(A, u), v, pmod_mat_vec_mul(C, w)) = 0
  <2> DEFINE s == pmod_mat_vec_mul(A, u)
             t == pmod_mat_vec_mul(C, w)
  <2>1. triform_eval(P, u, y, w) = triform_eval(F, s, Multiple(m, v), t)
    BY <1>1 DEF FormBehind
  <2>2. s \in Vectors /\ t \in Vectors
    BY <1>2
  <2> HIDE DEF s, t
  <2>3. triform_eval(F, s, Multiple(m, v), t) = GF_mul(m, triform_eval(F, s, v, t))
    BY <2>2, FormOfMultiple
  <2>4. triform_eval(F, s, v, t) \in Fq
    BY <2>2, SlicesFacts
  <2> QED
    BY <2>1, <2>3, <2>4, FieldZero, ProductsNotZero DEF s, t
<1>4. \A w \in Vectors : \E z \in Vectors : pmod_mat_vec_mul(A, z) = w
  BY InverseUndoes
<1>5. KilledByV(P, y) = {w \in Vectors : pmod_mat_vec_mul(C, w) \in KilledByV(F, v)}
  <2>1. ASSUME NEW w \in Vectors
        PROVE  (\A u \in Vectors : triform_eval(P, u, y, w) = 0)
                 <=> \A u \in Vectors : triform_eval(F, u, v, pmod_mat_vec_mul(C, w)) = 0
    <3>1. ASSUME \A u \in Vectors : triform_eval(P, u, y, w) = 0, NEW u \in Vectors
          PROVE  triform_eval(F, u, v, pmod_mat_vec_mul(C, w)) = 0
      <4>1. PICK z \in Vectors : pmod_mat_vec_mul(A, z) = u
        BY <1>4
      <4> QED
        BY <1>3, <3>1, <4>1
    <3>2. ASSUME \A u \in Vectors : triform_eval(F, u, v, pmod_mat_vec_mul(C, w)) = 0,
                 NEW u \in Vectors
          PROVE  triform_eval(P, u, y, w) = 0
      BY <1>2, <1>3, <3>2
    <3> QED
      BY <3>1, <3>2
  <2> QED
    BY <1>2, <2>1 DEF KilledByV
<1>6. SpansLine(KilledByV(F, v), triform_phi_v_rker_corank1(F, v))
      /\ SpansLine(KilledByV(P, y), triform_phi_v_rker_corank1(P, y))
  BY KernelAtV
<1> QED
  BY <1>5, <1>6, LineCarried

\* The step from w to the next u.
LEMMA StepFromW ==
  ASSUME NEW F \in TriForms, NEW P \in TriForms,
         NEW A \in Matrices, NEW B \in Matrices, NEW C \in Matrices,
         pmod_mat_is_invertible(A), pmod_mat_is_invertible(B), FormBehind(P, F, A, B, C),
         NEW w \in Vectors, NEW z \in Vectors, Carried(C, z, w),
         triform_matrix_at_w_lker_corank1(F, w) # None
  PROVE  /\ triform_matrix_at_w_lker_corank1(P, z) # None
         /\ triform_matrix_at_w_lker_corank1(P, z) \in Vectors
         /\ triform_matrix_at_w_lker_corank1(F, w) \in Vectors
         /\ Carried(A, triform_matrix_at_w_lker_corank1(P, z),
                       triform_matrix_at_w_lker_corank1(F, w))
<1>1. PICK m \in Fq \ {0} : pmod_mat_vec_mul(C, z) = Multiple(m, w)
  BY DEF Carried
<1>2. \A v \in Vectors : pmod_mat_vec_mul(A, v) \in Vectors /\ pmod_mat_vec_mul(B, v) \in Vectors
  BY MatrixLinear
<1>3. ASSUME NEW u \in Vectors, NEW v \in Vectors
      PROVE  triform_eval(P, u, v, z) = 0
               <=> triform_eval(F, pmod_mat_vec_mul(A, u), pmod_mat_vec_mul(B, v), w) = 0
  <2> DEFINE s == pmod_mat_vec_mul(A, u)
             t == pmod_mat_vec_mul(B, v)
  <2>1. triform_eval(P, u, v, z) = triform_eval(F, s, t, Multiple(m, w))
    BY <1>1 DEF FormBehind
  <2>2. s \in Vectors /\ t \in Vectors
    BY <1>2
  <2> HIDE DEF s, t
  <2>3. triform_eval(F, s, t, Multiple(m, w)) = GF_mul(m, triform_eval(F, s, t, w))
    BY <2>2, FormOfMultiple
  <2>4. triform_eval(F, s, t, w) \in Fq
    BY <2>2, SlicesFacts
  <2> QED
    BY <2>1, <2>3, <2>4, FieldZero, ProductsNotZero DEF s, t
<1>4. \A v \in Vectors : \E t \in Vectors : pmod_mat_vec_mul(B, t) = v
  BY InverseUndoes
<1>5. KilledByW(P, z) = {u \in Vectors : pmod_mat_vec_mul(A, u) \in KilledByW(F, w)}
  <2>1. ASSUME NEW u \in Vectors
        PROVE  (\A v \in Vectors : triform_eval(P, u, v, z) = 0)
                 <=> \A v \in Vectors : triform_eval(F, pmod_mat_vec_mul(A, u), v, w) = 0
    <3>1. ASSUME \A v \in Vectors : triform_eval(P, u, v, z) = 0, NEW v \in Vectors
          PROVE  triform_eval(F, pmod_mat_vec_mul(A, u), v, w) = 0
      <4>1. PICK t \in Vectors : pmod_mat_vec_mul(B, t) = v
        BY <1>4
      <4> QED
        BY <1>3, <3>1, <4>1
    <3>2. ASSUME \A v \in Vectors : triform_eval(F, pmod_mat_vec_mul(A, u), v, w) = 0,
                 NEW v \in Vectors
          PROVE  triform_eval(P, u, v, z) = 0
      BY <1>2, <1>3, <3>2
    <3> QED
      BY <3>1, <3>2
  <2> QED
    BY <1>2, <2>1 DEF KilledByW
<1>6. SpansLine(KilledByW(F, w), triform_matrix_at_w_lker_corank1(F, w))
      /\ SpansLine(KilledByW(P, z), triform_matrix_at_w_lker_corank1(P, z))
  BY KernelAtW
<1> QED
  BY <1>5, <1>6, LineCarried

\* Products that agree in the field make equal dots.
LEMMA EqualProducts ==
  ASSUME NEW r \in Vectors, NEW v \in Vectors, NEW b \in Vectors, NEW w \in Vectors,
         \A k \in Index : GF_mul(r[k], v[k]) = GF_mul(b[k], w[k])
  PROVE  Dot(r, v) = Dot(b, w)
<1> DEFINE s == [k \in Index |-> r[k] * v[k]]
           t == [k \in Index |-> b[k] * w[k]]
<1>1. r \in [Index -> Int] /\ v \in [Index -> Int] /\ b \in [Index -> Int] /\ w \in [Index -> Int]
  BY FieldFacts DEF Vectors
<1>2. /\ \A k \in 0 .. N - 1 : s[k] = r[k] * v[k] /\ s[k] \in Int
      /\ Sum(s, N) \in Int /\ Dot(r, v) = Sum(s, N) % Q
  BY <1>1, DotTerms
<1>3. /\ \A k \in 0 .. N - 1 : t[k] = b[k] * w[k] /\ t[k] \in Int
      /\ Sum(t, N) \in Int /\ Dot(b, w) = Sum(t, N) % Q
  BY <1>1, DotTerms
<1>4. \A k \in 0 .. N - 1 : s[k] % Q = t[k] % Q
  <2>1. \A k \in 0 .. N - 1 : (r[k] * v[k]) % Q = (b[k] * w[k]) % Q
    BY DEF GF_mul, Index
  <2> HIDE DEF s, t
  <2> QED
    BY <1>2, <1>3, <2>1
<1> HIDE DEF s, t
<1>5. Combines(Q, N, 1, 0, s, t, t)
  <2>1. \A k \in 0 .. N - 1 : 1 * t[k] + 0 * t[k] = t[k]
    BY <1>3
  <2> QED
    BY <1>2, <1>3, <1>4, <2>1 DEF Combines
<1>6. Sum(s, N) % Q = (1 * Sum(t, N) + 0 * Sum(t, N)) % Q
  BY <1>5, SumCombines, FieldFacts
<1>7. 1 * Sum(t, N) + 0 * Sum(t, N) = Sum(t, N)
  BY <1>3
<1> QED
  BY <1>2, <1>3, <1>6, <1>7

\* A list whose members are sent to multiples of those of an independent one is
\* independent.
LEMMA IndependentCarried ==
  ASSUME NEW A \in Matrices, NEW list \in Seq(Vectors), NEW from \in Seq(Vectors),
         Len(from) = Len(list), Len(list) <= N,
         \A i \in DOMAIN list : Carried(A, from[i], list[i]),
         Independent(list)
  PROVE  Independent(from)
<1> DEFINE n == Len(list)
           G == vector_list_to_matrix(list)
           H == vector_list_to_matrix(from)
<1>1. /\ G \in Matrices
      /\ \A c \in Index : c < n => c + 1 \in DOMAIN list /\ Column(G, c) = list[c + 1]
      /\ \A c \in Index : ~ c < n => Column(G, c) = Zero
  BY ListMatrix
<1>2. /\ H \in Matrices
      /\ \A c \in Index : c < n => c + 1 \in DOMAIN from /\ Column(H, c) = from[c + 1]
      /\ \A c \in Index : ~ c < n => Column(H, c) = Zero
  BY ListMatrix
<1> DEFINE f == [c \in Index |-> IF c < n
                   THEN CHOOSE m \in Fq \ {0} :
                          pmod_mat_vec_mul(A, from[c + 1]) = Multiple(m, list[c + 1])
                   ELSE 1]
<1>3. ASSUME NEW c \in Index
      PROVE  /\ f[c] \in Fq \ {0}
             /\ c < n => pmod_mat_vec_mul(A, from[c + 1]) = Multiple(f[c], list[c + 1])
  <2>1. CASE c < n
    <3>1. \E m \in Fq \ {0} : pmod_mat_vec_mul(A, from[c + 1]) = Multiple(m, list[c + 1])
      BY <1>1, <2>1 DEF Carried
    <3> QED
      BY <2>1, <3>1
  <2>2. CASE ~ c < n
    BY <2>2, FieldFacts
  <2> QED
    BY <2>1, <2>2
<1> HIDE DEF G, H, f
<1> SUFFICES ASSUME NEW x \in Vectors, pmod_mat_vec_mul(H, x) = Zero,
                    NEW c \in Index, c < n
             PROVE  x[c] = 0
  BY DEF Independent, H
<1> DEFINE y == [k \in Index |-> GF_mul(f[k], x[k])]
<1>4. \A k \in Index : x[k] \in Fq /\ f[k] \in Fq
  BY <1>3 DEF Vectors
<1>5. y \in Vectors /\ \A k \in Index : y[k] = GF_mul(f[k], x[k])
  BY <1>4, FieldFacts DEF Vectors
<1> HIDE DEF y
<1>6. ASSUME NEW r \in Index
      PROVE  Dot(G[r], y) = 0
  <2> DEFINE b == [k \in Index |-> Dot(A[r], Column(H, k))]
  <2>1. A[r] \in Vectors /\ G[r] \in Vectors /\ \A k \in Index : G[r][k] \in Fq /\ Column(G, k)[r] = G[r][k]
    BY <1>1, MatrixFacts
  <2>2. b \in Vectors /\ Dot(b, x) = Dot(A[r], pmod_mat_vec_mul(H, x))
    BY <1>2, <2>1, Transposed
  <2>3. Dot(b, x) = 0
    BY <2>1, <2>2, DotZero
  <2>4. ASSUME NEW k \in Index
        PROVE  b[k] = GF_mul(f[k], G[r][k])
    <3>1. CASE k < n
      <4>1. from[k + 1] \in Vectors /\ list[k + 1] \in Vectors
        BY <1>1, <1>2, <3>1
      <4>2. Dot(A[r], from[k + 1]) = pmod_mat_vec_mul(A, from[k + 1])[r]
        BY <4>1, MatrixLinear
      <4>3. Multiple(f[k], list[k + 1])[r] = GF_mul(f[k], list[k + 1][r])
        BY <1>4, <4>1, MultipleFacts
      <4>4. list[k + 1][r] = G[r][k] /\ Column(H, k) = from[k + 1]
        BY <1>1, <1>2, <2>1, <3>1
      <4> QED
        BY <1>3, <3>1, <4>2, <4>3, <4>4
    <3>2. CASE ~ k < n
      <4>1. Column(H, k) = Zero /\ G[r][k] = 0
        <5>1. Zero[r] = 0
          BY LinearAtZero
        <5> QED
          BY <1>1, <1>2, <2>1, <3>2, <5>1
      <4>2. Dot(A[r], Zero) = 0
        BY <2>1, DotZero
      <4> QED
        BY <1>4, <4>1, <4>2, FieldZero
    <3> QED
      BY <3>1, <3>2
  <2> HIDE DEF b
  <2>5. ASSUME NEW k \in Index
        PROVE  GF_mul(G[r][k], y[k]) = GF_mul(b[k], x[k])
    <3> DEFINE g == G[r][k]
               h == f[k]
               z == x[k]
    <3>1. g \in Fq /\ h \in Fq /\ z \in Fq
      BY <1>4, <2>1
    <3>2. y[k] = GF_mul(h, z) /\ b[k] = GF_mul(h, g)
      BY <1>5, <2>4
    <3> HIDE DEF g, h, z
    <3>3. GF_mul(GF_mul(g, h), z) = GF_mul(g, GF_mul(h, z)) /\ GF_mul(g, h) = GF_mul(h, g)
      BY <3>1, ProductsAssociate, ProductsCommute
    <3> QED
      BY <3>2, <3>3 DEF g, z
  <2>6. Dot(G[r], y) = Dot(b, x)
    <3>1. G[r] \in Vectors /\ y \in Vectors /\ b \in Vectors
      BY <1>5, <2>1, <2>2
    <3> DEFINE g == G[r]
    <3>2. \A k \in Index : GF_mul(g[k], y[k]) = GF_mul(b[k], x[k])
      BY <2>5
    <3> HIDE DEF g
    <3>3. Dot(g, y) = Dot(b, x)
      <4>1. g \in Vectors
        BY <2>1 DEF g
      <4> QED
        BY <3>1, <3>2, <4>1, EqualProducts
    <3> QED
      BY <3>3 DEF g
  <2> QED
    BY <2>3, <2>6
<1>7. pmod_mat_vec_mul(G, y) = Zero
  BY <1>6 DEF pmod_mat_vec_mul, Zero
<1>8. y[c] = 0
  BY <1>5, <1>7 DEF Independent, G
<1> QED
  BY <1>3, <1>4, <1>5, <1>8, ProductsNotZero

-----------------------------------------------------------------------------
(* The normalization.                                                      *)

\* The elements with an inverse.
Units == Fq \ {0}

\* An element of the field that is the remainder of an integer: the product of
\* two is that of the product.
Stands(v, m) == m \in Int /\ v = m % Q

\* GF_mul reduces the product of what its arguments stand for.
LEMMA ProductStands ==
  /\ \A x \in Fq : Stands(x, x)
  /\ \A v, w, m, n : Stands(v, m) /\ Stands(w, n) => Stands(GF_mul(v, w), m * n)
<1>1. Q \in Nat \ {0} /\ Fq \subseteq Int
  BY FieldFacts
<1>2. ASSUME NEW x \in Fq
      PROVE  Stands(x, x)
  <2>1. x % Q = x
    BY FieldFacts, ReducedProduct
  <2> QED
    BY <1>1, <2>1 DEF Stands
<1>3. ASSUME NEW v, NEW w, NEW m, NEW n, Stands(v, m), Stands(w, n)
      PROVE  Stands(GF_mul(v, w), m * n)
  <2>1. m \in Int /\ n \in Int /\ v = m % Q /\ w = n % Q
    BY <1>3 DEF Stands
  <2>2. (m * n) % Q = ((m % Q) * (n % Q)) % Q
    BY <1>1, <2>1, ReducedFirst
  <2>3. m * n \in Int
    BY <2>1
  <2> QED
    BY <2>1, <2>2, <2>3 DEF Stands, GF_mul
<1> QED
  BY <1>2, <1>3

\* Units can be inverted and cancelled.
LEMMA UnitFacts ==
  /\ 1 \in Units /\ Units \subseteq Fq
  /\ \A x, y \in Units : GF_mul(x, y) \in Units
  /\ \A y \in Units : GF_inv(y) \in Units /\ GF_mul(y, GF_inv(y)) = 1 /\ GF_mul(GF_inv(y), y) = 1
  /\ \A x \in Fq, y \in Units : /\ GF_mul(GF_mul(x, GF_inv(y)), y) = x
                                /\ GF_mul(GF_mul(x, y), GF_inv(y)) = x
  /\ \A x, y \in Fq, z \in Units : GF_mul(x, z) = GF_mul(y, z) => x = y
<1>1. 1 \in Units /\ Units \subseteq Fq
  BY FieldFacts DEF Units
<1>2. \A x, y \in Units : GF_mul(x, y) \in Units
  BY ProductsNotZero DEF Units
<1>3. ASSUME NEW y \in Units
      PROVE  GF_inv(y) \in Units /\ GF_mul(y, GF_inv(y)) = 1 /\ GF_mul(GF_inv(y), y) = 1
  <2>1. GF_inv(y) \in Fq /\ GF_mul(y, GF_inv(y)) = 1 /\ y \in Fq
    BY InverseInField, InverseAssumption DEF Units
  <2>2. GF_inv(y) # 0
    BY <2>1, FieldZero
  <2> QED
    BY <2>1, <2>2, ProductsCommute DEF Units
<1>4. ASSUME NEW x \in Fq, NEW y \in Units
      PROVE  GF_mul(GF_mul(x, GF_inv(y)), y) = x /\ GF_mul(GF_mul(x, y), GF_inv(y)) = x
  <2>1. GF_inv(y) \in Fq /\ y \in Fq
    BY <1>1, <1>3
  <2>2. GF_mul(GF_mul(x, GF_inv(y)), y) = GF_mul(x, GF_mul(GF_inv(y), y))
    BY <2>1, ProductsAssociate
  <2>3. GF_mul(GF_mul(x, y), GF_inv(y)) = GF_mul(x, GF_mul(y, GF_inv(y)))
    BY <2>1, ProductsAssociate
  <2> QED
    BY <1>3, <2>2, <2>3, FieldZero
<1>5. ASSUME NEW x \in Fq, NEW y \in Fq, NEW z \in Units, GF_mul(x, z) = GF_mul(y, z)
      PROVE  x = y
  <2>1. GF_mul(GF_mul(x, z), GF_inv(z)) = x /\ GF_mul(GF_mul(y, z), GF_inv(z)) = y
    BY <1>4
  <2> QED
    BY <1>5, <2>1
<1> QED
  BY <1>1, <1>2, <1>3, <1>4, <1>5

\* An element of a form, scaled, and the product of three factors.
Scale(h, f, g, t) == GF_mul(h, GF_mul(GF_mul(f, t), g))
Weight(x, y, z) == GF_mul(GF_mul(x, y), z)

ScalesTwice(h, f, g, t, x, y, z) ==
  /\ Scale(GF_mul(z, h), GF_mul(x, f), GF_mul(y, g), t)
       = GF_mul(Weight(x, y, z), Scale(h, f, g, t))
  /\ Scale(h, f, g, GF_mul(Weight(x, y, z), t)) = GF_mul(Weight(x, y, z), Scale(h, f, g, t))

\* Factors of an element may be taken before or after it is scaled.
LEMMA ScaleTwice ==
  ASSUME NEW h \in Fq, NEW f \in Fq, NEW g \in Fq, NEW t \in Fq,
         NEW x \in Fq, NEW y \in Fq, NEW z \in Fq
  PROVE  ScalesTwice(h, f, g, t, x, y, z)
<1> DEFINE hf == h * ((f * t) * g)
           w == (x * y) * z
           zxy == (z * h) * (((x * f) * t) * (y * g))
           hw == h * ((f * (w * t)) * g)
<1>1. /\ Stands(h, h) /\ Stands(f, f) /\ Stands(g, g) /\ Stands(t, t)
      /\ Stands(x, x) /\ Stands(y, y) /\ Stands(z, z)
  BY ProductStands
<1>2. /\ h \in Int /\ f \in Int /\ g \in Int /\ t \in Int
      /\ x \in Int /\ y \in Int /\ z \in Int
  BY <1>1 DEF Stands
<1>3. Stands(Scale(h, f, g, t), hf)
  <2>1. Stands(GF_mul(f, t), f * t)
    BY <1>1, ProductStands
  <2>2. Stands(GF_mul(GF_mul(f, t), g), (f * t) * g)
    BY <1>1, <2>1, ProductStands
  <2> QED
    BY <1>1, <2>2, ProductStands DEF Scale
<1>4. Stands(Weight(x, y, z), w)
  <2>1. Stands(GF_mul(x, y), x * y)
    BY <1>1, ProductStands
  <2> QED
    BY <1>1, <2>1, ProductStands DEF Weight
<1>5. Stands(Scale(GF_mul(z, h), GF_mul(x, f), GF_mul(y, g), t), zxy)
  <2>1. Stands(GF_mul(z, h), z * h) /\ Stands(GF_mul(x, f), x * f) /\ Stands(GF_mul(y, g), y * g)
    BY <1>1, ProductStands
  <2>2. Stands(GF_mul(GF_mul(x, f), t), (x * f) * t)
    BY <1>1, <2>1, ProductStands
  <2>3. Stands(GF_mul(GF_mul(GF_mul(x, f), t), GF_mul(y, g)), ((x * f) * t) * (y * g))
    BY <2>1, <2>2, ProductStands
  <2> QED
    BY <2>1, <2>3, ProductStands DEF Scale
<1>6. Stands(Scale(h, f, g, GF_mul(Weight(x, y, z), t)), hw)
  <2> HIDE DEF w
  <2>1. Stands(GF_mul(Weight(x, y, z), t), w * t)
    BY <1>1, <1>4, ProductStands
  <2>2. Stands(GF_mul(f, GF_mul(Weight(x, y, z), t)), f * (w * t))
    BY <1>1, <2>1, ProductStands
  <2>3. Stands(GF_mul(GF_mul(f, GF_mul(Weight(x, y, z), t)), g), (f * (w * t)) * g)
    BY <1>1, <2>2, ProductStands
  <2> QED
    BY <1>1, <2>3, ProductStands DEF Scale
<1>7. Stands(GF_mul(Weight(x, y, z), Scale(h, f, g, t)), w * hf)
  <2> HIDE DEF w, hf
  <2> QED
    BY <1>3, <1>4, ProductStands
<1>8. zxy = w * hf /\ hw = w * hf
  BY <1>2
<1> HIDE DEF zxy, hw, w, hf
<1> QED
  BY <1>5, <1>6, <1>7, <1>8 DEF Stands, ScalesTwice

\* Products of four, in other orders.
LEMMA FourFactors ==
  ASSUME NEW e \in Fq, NEW b \in Fq, NEW c \in Fq, NEW d \in Fq
  PROVE  /\ GF_mul(GF_mul(GF_mul(e, b), c), d) = GF_mul(b, GF_mul(GF_mul(d, c), e))
         /\ GF_mul(e, GF_mul(GF_mul(b, c), d)) = GF_mul(GF_mul(b, d), GF_mul(c, e))
<1>1. Stands(e, e) /\ Stands(b, b) /\ Stands(c, c) /\ Stands(d, d)
  BY ProductStands
<1>2. e \in Int /\ b \in Int /\ c \in Int /\ d \in Int
  BY <1>1 DEF Stands
<1>3. /\ Stands(GF_mul(e, b), e * b) /\ Stands(GF_mul(d, c), d * c) /\ Stands(GF_mul(b, c), b * c)
      /\ Stands(GF_mul(b, d), b * d) /\ Stands(GF_mul(c, e), c * e)
  BY <1>1, ProductStands
<1>4. /\ Stands(GF_mul(GF_mul(e, b), c), (e * b) * c)
      /\ Stands(GF_mul(GF_mul(d, c), e), (d * c) * e)
      /\ Stands(GF_mul(GF_mul(b, c), d), (b * c) * d)
  BY <1>1, <1>3, ProductStands
<1>5. Stands(GF_mul(GF_mul(GF_mul(e, b), c), d), ((e * b) * c) * d)
  BY <1>1, <1>4, ProductStands
<1>6. Stands(GF_mul(b, GF_mul(GF_mul(d, c), e)), b * ((d * c) * e))
  BY <1>1, <1>4, ProductStands
<1>7. Stands(GF_mul(e, GF_mul(GF_mul(b, c), d)), e * ((b * c) * d))
  BY <1>1, <1>4, ProductStands
<1>8. Stands(GF_mul(GF_mul(b, d), GF_mul(c, e)), (b * d) * (c * e))
  BY <1>3, ProductStands
<1>9. ((e * b) * c) * d = b * ((d * c) * e) /\ e * ((b * c) * d) = (b * d) * (c * e)
  BY <1>2
<1> QED
  BY <1>5, <1>6, <1>7, <1>8, <1>9 DEF Stands

\* All anchors of a form are 1.
AnchorsOne(S) ==
  /\ \A i \in 2 .. N - 1 : S[0][i][1] = 1 /\ S[0][0][i] = 1 /\ S[i][0][1] = 1
  /\ S[0][0][1] = 1 /\ S[4][1][2] = 1 /\ S[1][0][2] = 1 /\ S[1][1][0] = 1

\* The dimension leaves room for the anchors.
LEMMA SmallIndices ==
  /\ 0 \in Index /\ 1 \in Index /\ 2 \in Index /\ 4 \in Index
  /\ 2 \in 2 .. N - 1 /\ 4 \in 2 .. N - 1 /\ 2 .. N - 1 \subseteq Index
  /\ \A i \in 2 .. N - 1 : i # 0 /\ i # 1
  /\ \A i \in Index : i = 0 \/ i = 1 \/ i \in 2 .. N - 1
<1>1. N \in Nat /\ N >= 5
  BY FieldFacts, DimensionAssumption
<1> QED
  BY <1>1 DEF Index

\* The elements of a form that is scaled.
LEMMA NormalizationElements ==
  ASSUME NEW T \in TriForms, NEW D, D.f \in [Index -> Units], D.g \in [Index -> Units],
         D.h \in [Index -> Units]
  PROVE  /\ apply_normalization(T, D) \in TriForms
         /\ \A k, i, j \in Index :
              apply_normalization(T, D)[k][i][j] = Scale(D.h[k], D.f[i], D.g[j], T[k][i][j])
<1>1. ASSUME NEW k \in Index, NEW i \in Index, NEW j \in Index
      PROVE  /\ apply_normalization(T, D)[k][i][j] = Scale(D.h[k], D.f[i], D.g[j], T[k][i][j])
             /\ Scale(D.h[k], D.f[i], D.g[j], T[k][i][j]) \in Fq
  <2>1. T[k][i][j] \in Fq /\ D.f[i] \in Fq /\ D.g[j] \in Fq /\ D.h[k] \in Fq
    <3>1. T[k] \in Matrices
      BY DEF TriForms
    <3>2. T[k][i][j] \in Fq
      BY <3>1, MatrixFacts
    <3> QED
      BY <3>2 DEF Units
  <2>2. GF_mul(D.f[i], T[k][i][j]) \in Fq
    BY <2>1, FieldFacts
  <2>3. GF_mul(GF_mul(D.f[i], T[k][i][j]), D.g[j]) \in Fq
    BY <2>1, <2>2, FieldFacts
  <2>4. Scale(D.h[k], D.f[i], D.g[j], T[k][i][j]) \in Fq
    BY <2>1, <2>3, FieldFacts DEF Scale
  <2>5. apply_normalization(T, D)[k][i][j] = Scale(D.h[k], D.f[i], D.g[j], T[k][i][j])
    BY DEF apply_normalization, pmod_mat_diag_scale, Scale
  <2> QED
    BY <2>4, <2>5
<1>2. apply_normalization(T, D)
        = [k \in Index |-> [i \in Index |-> [j \in Index |->
             Scale(D.h[k], D.f[i], D.g[j], T[k][i][j])]]]
  BY DEF apply_normalization, pmod_mat_diag_scale, Scale
<1> QED
  BY <1>1, <1>2 DEF TriForms, Matrices, Vectors

\* The diagonal matrices that are found have no zero, and they make all
\* anchors 1.
LEMMA NormalizedIsOne ==
  ASSUME NEW T \in TriForms, ~ AnyZero(Anchors(T))
  PROVE  LET D == Diagonals(Anchors(T))
         IN /\ D.f \in [Index -> Units] /\ D.g \in [Index -> Units] /\ D.h \in [Index -> Units]
            /\ AnchorsOne(apply_normalization(T, D))
<1> DEFINE D == Diagonals(Anchors(T))
           la == [i \in 2 .. N - 1 |-> T[0][i][1]]
           b == [i \in 2 .. N - 1 |-> T[0][0][i]]
           c == [i \in 2 .. N - 1 |-> T[i][0][1]]
           d1 == T[0][0][1]
           d2 == T[4][1][2]
           d3 == T[1][0][2]
           d4 == T[1][1][0]
           g2 == GF_mul(d1, GF_inv(b[2]))
           x == GF_mul(GF_mul(g2, GF_inv(c[4])), d2)
           y == GF_mul(g2, d3)
           f1 == GF_mul(GF_mul(GF_mul(b[2], c[4]), GF_inv(d1)), GF_inv(d2))
           h1 == GF_mul(GF_mul(b[2], GF_inv(d1)), GF_inv(d3))
           g0 == GF_mul(GF_mul(x, y), GF_inv(d4))
           f == [i \in Index |-> IF i = 0 THEN 1 ELSE IF i = 1 THEN f1
                                 ELSE GF_mul(d1, GF_inv(la[i]))]
           g == [i \in Index |-> IF i = 0 THEN g0 ELSE IF i = 1 THEN 1
                                 ELSE GF_mul(d1, GF_inv(b[i]))]
           h == [i \in Index |-> IF i = 0 THEN GF_inv(d1) ELSE IF i = 1 THEN h1
                                 ELSE GF_inv(c[i])]
<1>1. /\ 0 \in Index /\ 1 \in Index /\ 2 \in Index /\ 4 \in Index
      /\ 2 \in 2 .. N - 1 /\ 4 \in 2 .. N - 1 /\ 2 .. N - 1 \subseteq Index
      /\ \A i \in 2 .. N - 1 : i # 0 /\ i # 1
      /\ \A i \in Index : i = 0 \/ i = 1 \/ i \in 2 .. N - 1
  BY SmallIndices
<1>2. \A k, i, j \in Index : T[k][i][j] \in Fq
  <2>1. \A k \in Index : T[k] \in Matrices
    BY DEF TriForms
  <2> QED
    BY <2>1, MatrixFacts
<1>3. \A i \in 2 .. N - 1 : la[i] \in Units /\ b[i] \in Units /\ c[i] \in Units
  <2> SUFFICES ASSUME NEW i \in 2 .. N - 1
               PROVE  la[i] \in Units /\ b[i] \in Units /\ c[i] \in Units
    OBVIOUS
  <2>1. 0 \notin {la[i], b[i], c[i]}
    BY DEF AnyZero, Anchors
  <2>2. la[i] \in Fq /\ b[i] \in Fq /\ c[i] \in Fq
    BY <1>1, <1>2
  <2> QED
    BY <2>1, <2>2 DEF Units
<1>4. d1 \in Units /\ d2 \in Units /\ d3 \in Units /\ d4 \in Units
  <2>1. d1 # 0 /\ d2 # 0 /\ d3 # 0 /\ d4 # 0
    <3> DEFINE d == <<d1, d2, d3, d4>>
    <3>1. Anchors(T).d = d
      BY DEF Anchors
    <3>2. \A i \in DOMAIN d : d[i] # 0
      BY <3>1 DEF AnyZero
    <3>3. DOMAIN d = 1 .. 4 /\ d[1] = d1 /\ d[2] = d2 /\ d[3] = d3 /\ d[4] = d4
      OBVIOUS
    <3>4. 1 \in 1 .. 4 /\ 2 \in 1 .. 4 /\ 3 \in 1 .. 4 /\ 4 \in 1 .. 4
      OBVIOUS
    <3> QED
      BY <3>2, <3>3, <3>4
  <2>2. d1 \in Fq /\ d2 \in Fq /\ d3 \in Fq /\ d4 \in Fq
    BY <1>1, <1>2
  <2> QED
    BY <2>1, <2>2 DEF Units
<1> DEFINE anchors == [a |-> la, b |-> b, c |-> c, d |-> <<d1, d2, d3, d4>>]
<1>5. Anchors(T) = anchors
  BY DEF Anchors
<1> HIDE DEF la, b, c, d1, d2, d3, d4
<1>6. /\ g2 \in Units /\ x \in Units /\ y \in Units
      /\ f1 \in Units /\ h1 \in Units /\ g0 \in Units
      /\ GF_mul(b[2], GF_inv(d1)) \in Units
      /\ GF_mul(GF_mul(b[2], c[4]), GF_inv(d1)) \in Units
  <2>1. b[2] \in Units /\ c[4] \in Units
    BY <1>1, <1>3
  <2>2. /\ GF_inv(d1) \in Units /\ GF_inv(d2) \in Units /\ GF_inv(d3) \in Units
        /\ GF_inv(d4) \in Units /\ GF_inv(b[2]) \in Units /\ GF_inv(c[4]) \in Units
    BY <1>4, <2>1, UnitFacts
  <2>3. g2 \in Units /\ GF_mul(b[2], GF_inv(d1)) \in Units /\ GF_mul(b[2], c[4]) \in Units
    BY <1>4, <2>1, <2>2, UnitFacts
  <2> HIDE DEF g2
  <2>4. GF_mul(g2, GF_inv(c[4])) \in Units /\ y \in Units /\ h1 \in Units
        /\ GF_mul(GF_mul(b[2], c[4]), GF_inv(d1)) \in Units
    BY <1>4, <2>2, <2>3, UnitFacts
  <2>5. x \in Units /\ f1 \in Units
    BY <1>4, <2>2, <2>4, UnitFacts
  <2> HIDE DEF x, y
  <2>6. GF_mul(x, y) \in Units
    BY <2>4, <2>5, UnitFacts
  <2>7. g0 \in Units
    BY <2>2, <2>6, UnitFacts
  <2> QED
    BY <2>3, <2>4, <2>5, <2>7
<1>7. D.f = f /\ D.g = g /\ D.h = h
  <2>1. /\ GF_mul(x, 1) = x /\ GF_mul(g0, 1) = g0 /\ GF_mul(h1, 1) = h1
    BY <1>6, FieldZero, UnitFacts
  <2>2. anchors.a = la /\ anchors.b = b /\ anchors.c = c /\ anchors.d = <<d1, d2, d3, d4>>
    OBVIOUS
  <2>3. LastDiagonal(anchors, g2) = g0
    <3> HIDE DEF g2, anchors
    <3> QED
      BY <2>1, <2>2 DEF LastDiagonal, Times
  <2>4. Diagonals(anchors).f = f
    <3> HIDE DEF anchors
    <3> QED
      BY <2>2 DEF Diagonals, Times
  <2>5. Diagonals(anchors).h = h
    <3> HIDE DEF anchors
    <3> QED
      BY <2>1, <2>2 DEF Diagonals, Times
  <2>6. Diagonals(anchors).g = g
    <3> HIDE DEF anchors, g0
    <3> QED
      BY <2>2, <2>3 DEF Diagonals
  <2> QED
    BY <1>5, <2>4, <2>5, <2>6
<1>8. f \in [Index -> Units] /\ g \in [Index -> Units] /\ h \in [Index -> Units]
  <2> HIDE DEF f1, g0, h1
  <2>1. \A i \in 2 .. N - 1 : GF_inv(la[i]) \in Units /\ GF_inv(b[i]) \in Units /\ GF_inv(c[i]) \in Units
    BY <1>3, UnitFacts
  <2>2. \A i \in 2 .. N - 1 : GF_mul(d1, GF_inv(la[i])) \in Units /\ GF_mul(d1, GF_inv(b[i])) \in Units
    BY <1>4, <2>1, UnitFacts
  <2>3. GF_inv(d1) \in Units /\ 1 \in Units
    BY <1>4, UnitFacts
  <2>4. \A i \in Index : f[i] \in Units
    BY <1>1, <1>6, <2>2, <2>3
  <2>5. \A i \in Index : g[i] \in Units
    BY <1>1, <1>6, <2>2, <2>3
  <2>6. \A i \in Index : h[i] \in Units
    BY <1>1, <1>6, <2>1, <2>3
  <2> QED
    BY <2>4, <2>5, <2>6
<1>9. /\ f[0] = 1 /\ f[1] = f1 /\ \A i \in 2 .. N - 1 : f[i] = GF_mul(d1, GF_inv(la[i]))
      /\ g[0] = g0 /\ g[1] = 1 /\ \A i \in 2 .. N - 1 : g[i] = GF_mul(d1, GF_inv(b[i]))
      /\ h[0] = GF_inv(d1) /\ h[1] = h1 /\ \A i \in 2 .. N - 1 : h[i] = GF_inv(c[i])
  <2> HIDE DEF f1, g0, h1
  <2> QED
    BY <1>1
<1> HIDE DEF D, f, g, h
<1> DEFINE S == apply_normalization(T, D)
<1>10. \A k, i, j \in Index : S[k][i][j] = Scale(h[k], f[i], g[j], T[k][i][j])
  BY <1>7, <1>8, NormalizationElements
<1> HIDE DEF S
<1>11. \A u \in Fq : GF_mul(u, 1) = u /\ GF_mul(1, u) = u
  BY FieldZero
<1>12. \A u \in Units : u \in Fq
  BY UnitFacts
<1>13. ASSUME NEW i \in 2 .. N - 1
       PROVE  S[0][i][1] = 1 /\ S[0][0][i] = 1 /\ S[i][0][1] = 1
  <2>1. la[i] \in Units /\ b[i] \in Units /\ c[i] \in Units /\ i \in Index
    BY <1>1, <1>3
  <2>2. GF_mul(GF_mul(d1, GF_inv(la[i])), la[i]) = d1 /\ GF_mul(GF_mul(d1, GF_inv(b[i])), b[i]) = d1
    BY <1>4, <1>12, <2>1, UnitFacts
  <2>3. GF_mul(GF_inv(d1), d1) = 1 /\ GF_mul(GF_inv(c[i]), c[i]) = 1
    BY <1>4, <2>1, UnitFacts
  <2>4. S[0][i][1] = GF_mul(GF_inv(d1), GF_mul(GF_mul(GF_mul(d1, GF_inv(la[i])), la[i]), 1))
    BY <1>1, <1>9, <1>10, <2>1 DEF Scale, la
  <2>5. S[0][0][i] = GF_mul(GF_inv(d1), GF_mul(GF_mul(1, b[i]), GF_mul(d1, GF_inv(b[i]))))
    BY <1>1, <1>9, <1>10, <2>1 DEF Scale, b
  <2>6. S[i][0][1] = GF_mul(GF_inv(c[i]), GF_mul(GF_mul(1, c[i]), 1))
    BY <1>1, <1>9, <1>10, <2>1 DEF Scale, c
  <2>7. GF_mul(b[i], GF_mul(d1, GF_inv(b[i]))) = GF_mul(GF_mul(d1, GF_inv(b[i])), b[i])
    <3>1. GF_inv(b[i]) \in Fq
      BY <2>1, UnitFacts
    <3>2. GF_mul(d1, GF_inv(b[i])) \in Fq
      BY <1>4, <1>12, <3>1, FieldFacts
    <3> QED
      BY <1>12, <2>1, <3>2, ProductsCommute
  <2> QED
    BY <1>4, <1>11, <1>12, <2>1, <2>2, <2>3, <2>4, <2>5, <2>6, <2>7
<1>14. S[0][0][1] = 1
  <2>1. S[0][0][1] = GF_mul(GF_inv(d1), GF_mul(GF_mul(1, d1), 1))
    BY <1>1, <1>9, <1>10 DEF Scale, d1
  <2> QED
    BY <1>4, <1>11, <1>12, <2>1, UnitFacts
<1> DEFINE B == b[2]
           C == c[4]
           i1 == GF_inv(d1)
           iB == GF_inv(B)
           iC == GF_inv(C)
<1>15. B \in Units /\ C \in Units /\ i1 \in Units /\ iB \in Units /\ iC \in Units
  BY <1>1, <1>3, <1>4, UnitFacts
<1>16. g2 = GF_mul(d1, iB) /\ x = GF_mul(GF_mul(g2, iC), d2) /\ y = GF_mul(g2, d3)
       /\ f1 = GF_mul(GF_mul(GF_mul(B, C), i1), GF_inv(d2))
       /\ h1 = GF_mul(GF_mul(B, i1), GF_inv(d3)) /\ g0 = GF_mul(GF_mul(x, y), GF_inv(d4))
  OBVIOUS
<1>17. g[2] = g2 /\ h[4] = iC
  BY <1>1, <1>9
<1> HIDE DEF B, C, g2, x, y, f1, h1, g0
<1>18. GF_mul(GF_mul(f1, d2), g2) = C
  <2>1. GF_mul(B, C) \in Fq /\ GF_mul(GF_mul(B, C), i1) \in Fq
    BY <1>12, <1>15, UnitFacts
  <2>2. GF_mul(f1, d2) = GF_mul(GF_mul(B, C), i1)
    BY <1>4, <1>16, <2>1, UnitFacts
  <2>3. GF_mul(GF_mul(GF_mul(B, C), i1), GF_mul(d1, iB))
          = GF_mul(GF_mul(GF_mul(GF_mul(B, C), i1), d1), iB)
    BY <1>4, <1>12, <1>15, <2>1, ProductsAssociate
  <2>4. GF_mul(GF_mul(GF_mul(B, C), i1), d1) = GF_mul(B, C)
    BY <1>4, <2>1, UnitFacts
  <2>5. GF_mul(B, C) = GF_mul(C, B)
    BY <1>12, <1>15, ProductsCommute
  <2>6. GF_mul(GF_mul(C, B), iB) = C
    BY <1>12, <1>15, UnitFacts
  <2> QED
    BY <1>16, <2>2, <2>3, <2>4, <2>5, <2>6
<1>19. S[4][1][2] = 1
  <2>1. S[4][1][2] = GF_mul(iC, GF_mul(GF_mul(f1, d2), g2))
    BY <1>1, <1>9, <1>10, <1>17 DEF Scale, d2
  <2> QED
    BY <1>15, <1>18, <2>1, UnitFacts
<1>20. GF_mul(h1, GF_mul(d3, g2)) = 1
  <2>1. GF_mul(B, i1) \in Fq
    BY <1>12, <1>15, UnitFacts
  <2>2. GF_mul(h1, GF_mul(d3, g2)) = GF_mul(GF_mul(h1, d3), g2)
    BY <1>4, <1>6, <1>12, ProductsAssociate
  <2>3. GF_mul(h1, d3) = GF_mul(B, i1)
    BY <1>4, <1>16, <2>1, UnitFacts
  <2>4. GF_mul(GF_mul(B, i1), GF_mul(d1, iB)) = GF_mul(GF_mul(GF_mul(B, i1), d1), iB)
    BY <1>4, <1>12, <1>15, <2>1, ProductsAssociate
  <2>5. GF_mul(GF_mul(B, i1), d1) = B
    BY <1>4, <1>12, <1>15, UnitFacts
  <2> QED
    BY <1>15, <1>16, <2>2, <2>3, <2>4, <2>5, UnitFacts
<1>21. S[1][0][2] = 1
  <2>1. S[1][0][2] = GF_mul(h1, GF_mul(GF_mul(1, d3), g2))
    BY <1>1, <1>9, <1>10, <1>17 DEF Scale, d3
  <2> QED
    BY <1>4, <1>11, <1>12, <1>20, <2>1
<1>22. S[1][1][0] = 1
  <2> DEFINE z == GF_mul(x, y)
  <2>1. z \in Fq
    BY <1>6, <1>12, UnitFacts
  <2>2. S[1][1][0] = GF_mul(h1, GF_mul(GF_mul(f1, d4), g0))
    BY <1>1, <1>9, <1>10 DEF Scale, d4
  <2>3. GF_mul(GF_mul(f1, d4), g0) = GF_mul(z, f1)
    <3>1. g0 = GF_mul(z, GF_inv(d4))
      BY <1>16
    <3> HIDE DEF z
    <3>2. GF_mul(f1, d4) \in Fq
      BY <1>4, <1>6, <1>12, UnitFacts
    <3>3. GF_mul(GF_mul(f1, d4), g0) = GF_mul(g0, GF_mul(f1, d4))
      BY <1>6, <1>12, <3>2, ProductsCommute
    <3>4. GF_mul(f1, d4) = GF_mul(d4, f1)
      BY <1>4, <1>6, <1>12, ProductsCommute
    <3>5. GF_mul(g0, GF_mul(d4, f1)) = GF_mul(GF_mul(g0, d4), f1)
      BY <1>4, <1>6, <1>12, ProductsAssociate
    <3>6. GF_mul(g0, d4) = z
      BY <1>4, <2>1, <3>1, UnitFacts
    <3> QED
      BY <3>3, <3>4, <3>5, <3>6
  <2>4. GF_mul(x, f1) = 1
    <3>1. GF_mul(GF_mul(GF_mul(g2, iC), d2), f1) = GF_mul(iC, GF_mul(GF_mul(f1, d2), g2))
      BY <1>4, <1>6, <1>12, <1>15, FourFactors
    <3> QED
      BY <1>15, <1>16, <1>18, <3>1, UnitFacts
  <2>5. GF_mul(y, h1) = 1
    <3>1. GF_mul(d3, g2) \in Fq /\ GF_mul(d3, g2) = GF_mul(g2, d3)
      BY <1>4, <1>6, <1>12, UnitFacts, ProductsCommute
    <3>2. GF_mul(h1, y) = GF_mul(y, h1)
      BY <1>6, <1>12, ProductsCommute
    <3> QED
      BY <1>16, <1>20, <3>1, <3>2
  <2>6. GF_mul(h1, GF_mul(GF_mul(x, y), f1)) = GF_mul(GF_mul(x, f1), GF_mul(y, h1))
    BY <1>6, <1>12, FourFactors
  <2>7. GF_mul(1, 1) = 1
    BY <1>11, FieldFacts
  <2> QED
    BY <2>2, <2>3, <2>4, <2>5, <2>6, <2>7
<1>23. AnchorsOne(S)
  BY <1>13, <1>14, <1>19, <1>21, <1>22 DEF AnchorsOne
<1> QED
  BY <1>7, <1>8, <1>23 DEF D, S

\* A factor of a product is known from the product and the other factors.
LEMMA WeightCancels ==
  ASSUME NEW x \in Units, NEW y \in Units, NEW z \in Units, NEW w \in Units
  PROVE  /\ Weight(x, y, z) \in Units
         /\ Weight(x, y, z) = Weight(w, y, z) => x = w
         /\ Weight(x, y, z) = Weight(x, w, z) => y = w
         /\ Weight(x, y, z) = Weight(x, y, w) => z = w
<1>1. x \in Fq /\ y \in Fq /\ z \in Fq /\ w \in Fq
  BY UnitFacts
<1>2. GF_mul(x, y) \in Units /\ GF_mul(w, y) \in Units /\ GF_mul(x, w) \in Units
  BY UnitFacts
<1>3. GF_mul(x, y) \in Fq /\ GF_mul(w, y) \in Fq /\ GF_mul(x, w) \in Fq
  BY <1>2, UnitFacts
<1>4. Weight(x, y, z) \in Units
  BY <1>2, UnitFacts DEF Weight
<1>5. ASSUME Weight(x, y, z) = Weight(w, y, z)
      PROVE  x = w
  <2>1. GF_mul(x, y) = GF_mul(w, y)
    BY <1>3, <1>5, UnitFacts DEF Weight
  <2> QED
    BY <1>1, <2>1, UnitFacts
<1>6. ASSUME Weight(x, y, z) = Weight(x, w, z)
      PROVE  y = w
  <2>1. GF_mul(x, y) = GF_mul(x, w)
    BY <1>3, <1>6, UnitFacts DEF Weight
  <2>2. GF_mul(x, y) = GF_mul(y, x) /\ GF_mul(x, w) = GF_mul(w, x)
    BY <1>1, ProductsCommute
  <2>3. GF_mul(y, x) = GF_mul(w, x)
    BY <2>1, <2>2
  <2> QED
    BY <1>1, <2>3, UnitFacts
<1>7. ASSUME Weight(x, y, z) = Weight(x, y, w)
      PROVE  z = w
  <2>1. GF_mul(GF_mul(x, y), z) = GF_mul(z, GF_mul(x, y))
        /\ GF_mul(GF_mul(x, y), w) = GF_mul(w, GF_mul(x, y))
    BY <1>1, <1>3, ProductsCommute
  <2>2. GF_mul(z, GF_mul(x, y)) = GF_mul(w, GF_mul(x, y))
    BY <1>7, <2>1 DEF Weight
  <2> QED
    BY <1>1, <1>2, <2>2, UnitFacts
<1> QED
  BY <1>4, <1>5, <1>6, <1>7

\* The places of the anchors leave no freedom: weights that are 1 there are 1
\* everywhere.
LEMMA WeightsOne ==
  ASSUME NEW p \in [Index -> Units], NEW q \in [Index -> Units], NEW r \in [Index -> Units],
         \A i \in 2 .. N - 1 : /\ Weight(p[i], q[1], r[0]) = 1 /\ Weight(p[0], q[i], r[0]) = 1
                               /\ Weight(p[0], q[1], r[i]) = 1,
         Weight(p[0], q[1], r[0]) = 1, Weight(p[1], q[2], r[4]) = 1,
         Weight(p[0], q[2], r[1]) = 1, Weight(p[1], q[0], r[1]) = 1
  PROVE  \A i, j, k \in Index : Weight(p[i], q[j], r[k]) = 1
<1>1. /\ 0 \in Index /\ 1 \in Index /\ 2 \in Index /\ 4 \in Index
      /\ 2 \in 2 .. N - 1 /\ 4 \in 2 .. N - 1 /\ 2 .. N - 1 \subseteq Index
      /\ \A i \in Index : i = 0 \/ i = 1 \/ i \in 2 .. N - 1
  BY SmallIndices
<1>2. \A i \in Index : p[i] \in Units /\ q[i] \in Units /\ r[i] \in Units
  OBVIOUS
<1>3. ASSUME NEW i \in 2 .. N - 1
      PROVE  p[i] = p[0]
  <2>1. /\ p[i] \in Units /\ q[i] \in Units /\ r[i] \in Units
        /\ p[0] \in Units /\ q[1] \in Units /\ r[0] \in Units
    BY <1>1, <1>2
  <2>2. Weight(p[i], q[1], r[0]) = Weight(p[0], q[1], r[0])
    OBVIOUS
  <2> QED
    BY <2>1, <2>2, WeightCancels
<1>4. ASSUME NEW i \in 2 .. N - 1
      PROVE  q[i] = q[1]
  <2>1. /\ p[i] \in Units /\ q[i] \in Units /\ r[i] \in Units
        /\ p[0] \in Units /\ q[1] \in Units /\ r[0] \in Units
    BY <1>1, <1>2
  <2>2. Weight(p[0], q[i], r[0]) = Weight(p[0], q[1], r[0])
    OBVIOUS
  <2>3. \A x, y, z, w \in Units : Weight(x, y, z) = Weight(x, w, z) => y = w
    BY WeightCancels
  <2> QED
    BY <2>1, <2>2, <2>3
<1>5. ASSUME NEW i \in 2 .. N - 1
      PROVE  r[i] = r[0]
  <2>1. /\ p[i] \in Units /\ q[i] \in Units /\ r[i] \in Units
        /\ p[0] \in Units /\ q[1] \in Units /\ r[0] \in Units
    BY <1>1, <1>2
  <2>2. Weight(p[0], q[1], r[i]) = Weight(p[0], q[1], r[0])
    OBVIOUS
  <2> QED
    BY <2>1, <2>2, WeightCancels
<1>6. p[1] = p[0]
  <2>1. Weight(p[1], q[1], r[0]) = 1
    BY <1>1, <1>4, <1>5
  <2> QED
    BY <1>1, <1>2, <2>1, WeightCancels
<1>7. r[1] = r[0]
  <2>1. Weight(p[0], q[1], r[1]) = 1
    BY <1>1, <1>4
  <2> QED
    BY <1>1, <1>2, <2>1, WeightCancels
<1>8. q[0] = q[1]
  <2>1. Weight(p[0], q[0], r[0]) = 1
    BY <1>6, <1>7
  <2> QED
    BY <1>1, <1>2, <2>1, WeightCancels
<1>9. \A i \in Index : p[i] = p[0] /\ q[i] = q[1] /\ r[i] = r[0]
  BY <1>1, <1>3, <1>4, <1>5, <1>6, <1>7, <1>8
<1> QED
  BY <1>9

\* One form is another with its elements multiplied by a factor for the row,
\* one for the column and one for the slice.
Weighted(P, T, x, y, z) ==
  \A k, i, j \in Index : P[k][i][j] = GF_mul(Weight(x[i], y[j], z[k]), T[k][i][j])

\* Such forms have the same normalization.
LEMMA SameNormalization ==
  ASSUME NEW T \in TriForms, NEW P \in TriForms,
         NEW x \in [Index -> Units], NEW y \in [Index -> Units], NEW z \in [Index -> Units],
         Weighted(P, T, x, y, z), ~ AnyZero(Anchors(T))
  PROVE  /\ ~ AnyZero(Anchors(P))
         /\ apply_normalization(P, Diagonals(Anchors(P)))
              = apply_normalization(T, Diagonals(Anchors(T)))
<1>1. /\ 0 \in Index /\ 1 \in Index /\ 2 \in Index /\ 4 \in Index
      /\ 2 .. N - 1 \subseteq Index
  BY SmallIndices
<1>2. \A k, i, j \in Index : T[k][i][j] \in Fq /\ P[k][i][j] \in Fq
  <2>1. \A k \in Index : T[k] \in Matrices /\ P[k] \in Matrices
    BY DEF TriForms
  <2> QED
    BY <2>1, MatrixFacts
<1>3. ASSUME NEW k \in Index, NEW i \in Index, NEW j \in Index
      PROVE  Weight(x[i], y[j], z[k]) \in Units /\ (P[k][i][j] = 0 => T[k][i][j] = 0)
  <2>1. Weight(x[i], y[j], z[k]) \in Units
    BY WeightCancels
  <2>2. P[k][i][j] = GF_mul(Weight(x[i], y[j], z[k]), T[k][i][j])
    BY DEF Weighted
  <2> QED
    BY <1>2, <2>1, <2>2, ProductsNotZero DEF Units
<1>4. ~ AnyZero(Anchors(P))
  <2>1. \A i \in 2 .. N - 1 : T[0][i][1] # 0 /\ T[0][0][i] # 0 /\ T[i][0][1] # 0
    BY DEF AnyZero, Anchors
  <2>2. T[0][0][1] # 0 /\ T[4][1][2] # 0 /\ T[1][0][2] # 0 /\ T[1][1][0] # 0
    <3> DEFINE d == <<T[0][0][1], T[4][1][2], T[1][0][2], T[1][1][0]>>
    <3>1. Anchors(T).d = d
      BY DEF Anchors
    <3>2. \A i \in DOMAIN d : d[i] # 0
      BY <3>1 DEF AnyZero
    <3>3. DOMAIN d = 1 .. 4 /\ d[1] = T[0][0][1] /\ d[2] = T[4][1][2]
          /\ d[3] = T[1][0][2] /\ d[4] = T[1][1][0]
      OBVIOUS
    <3>4. 1 \in 1 .. 4 /\ 2 \in 1 .. 4 /\ 3 \in 1 .. 4 /\ 4 \in 1 .. 4
      OBVIOUS
    <3> QED
      BY <3>2, <3>3, <3>4
  <2>3. \A i \in 2 .. N - 1 : P[0][i][1] # 0 /\ P[0][0][i] # 0 /\ P[i][0][1] # 0
    BY <1>1, <1>3, <2>1
  <2>4. P[0][0][1] # 0 /\ P[4][1][2] # 0 /\ P[1][0][2] # 0 /\ P[1][1][0] # 0
    BY <1>1, <1>3, <2>2
  <2>5. \A i \in 2 .. N - 1 : 0 \notin {Anchors(P).a[i], Anchors(P).b[i], Anchors(P).c[i]}
    BY <2>3 DEF Anchors
  <2>6. \A i \in DOMAIN Anchors(P).d : Anchors(P).d[i] # 0
    <3> DEFINE d == <<P[0][0][1], P[4][1][2], P[1][0][2], P[1][1][0]>>
    <3>1. \A i \in DOMAIN d : d[i] # 0
      BY <2>4
    <3>2. Anchors(P).d = d
      BY DEF Anchors
    <3> QED
      BY <3>1, <3>2
  <2> QED
    BY <2>5, <2>6 DEF AnyZero
<1> DEFINE D == Diagonals(Anchors(T))
           E == Diagonals(Anchors(P))
           S == apply_normalization(T, D)
           R == apply_normalization(P, E)
<1>5. /\ D.f \in [Index -> Units] /\ D.g \in [Index -> Units] /\ D.h \in [Index -> Units]
      /\ AnchorsOne(S)
  BY NormalizedIsOne
<1>6. /\ E.f \in [Index -> Units] /\ E.g \in [Index -> Units] /\ E.h \in [Index -> Units]
      /\ AnchorsOne(R)
  BY <1>4, NormalizedIsOne
<1> HIDE DEF D, E
<1>7. /\ S \in TriForms
      /\ \A k, i, j \in Index : S[k][i][j] = Scale(D.h[k], D.f[i], D.g[j], T[k][i][j])
  BY <1>5, NormalizationElements
<1>8. /\ R \in TriForms
      /\ \A k, i, j \in Index : R[k][i][j] = Scale(E.h[k], E.f[i], E.g[j], P[k][i][j])
  BY <1>6, NormalizationElements
<1> HIDE DEF S, R
<1> DEFINE p == [i \in Index |-> GF_mul(GF_mul(x[i], E.f[i]), GF_inv(D.f[i]))]
           q == [i \in Index |-> GF_mul(GF_mul(y[i], E.g[i]), GF_inv(D.g[i]))]
           r == [i \in Index |-> GF_mul(GF_mul(z[i], E.h[i]), GF_inv(D.h[i]))]
<1>9. ASSUME NEW i \in Index
      PROVE  /\ p[i] \in Units /\ q[i] \in Units /\ r[i] \in Units
             /\ GF_mul(p[i], D.f[i]) = GF_mul(x[i], E.f[i])
             /\ GF_mul(q[i], D.g[i]) = GF_mul(y[i], E.g[i])
             /\ GF_mul(r[i], D.h[i]) = GF_mul(z[i], E.h[i])
  <2>1. /\ x[i] \in Units /\ y[i] \in Units /\ z[i] \in Units
        /\ D.f[i] \in Units /\ D.g[i] \in Units /\ D.h[i] \in Units
        /\ E.f[i] \in Units /\ E.g[i] \in Units /\ E.h[i] \in Units
    BY <1>5, <1>6
  <2>2. /\ GF_mul(x[i], E.f[i]) \in Units /\ GF_mul(y[i], E.g[i]) \in Units
        /\ GF_mul(z[i], E.h[i]) \in Units
    BY <2>1, UnitFacts
  <2>3. /\ GF_mul(x[i], E.f[i]) \in Fq /\ GF_mul(y[i], E.g[i]) \in Fq
        /\ GF_mul(z[i], E.h[i]) \in Fq
    BY <2>2, UnitFacts
  <2>4. GF_inv(D.f[i]) \in Units /\ GF_inv(D.g[i]) \in Units /\ GF_inv(D.h[i]) \in Units
    BY <2>1, UnitFacts
  <2> QED
    BY <2>1, <2>2, <2>3, <2>4, UnitFacts
<1>10. p \in [Index -> Units] /\ q \in [Index -> Units] /\ r \in [Index -> Units]
  BY <1>9
<1> HIDE DEF p, q, r
<1>11. ASSUME NEW k \in Index, NEW i \in Index, NEW j \in Index
       PROVE  R[k][i][j] = GF_mul(Weight(p[i], q[j], r[k]), S[k][i][j])
  <2>1. /\ x[i] \in Fq /\ y[j] \in Fq /\ z[k] \in Fq /\ T[k][i][j] \in Fq
        /\ D.f[i] \in Fq /\ D.g[j] \in Fq /\ D.h[k] \in Fq
        /\ E.f[i] \in Fq /\ E.g[j] \in Fq /\ E.h[k] \in Fq
        /\ p[i] \in Fq /\ q[j] \in Fq /\ r[k] \in Fq
    BY <1>2, <1>5, <1>6, <1>9 DEF Units
  <2>2. R[k][i][j] = Scale(E.h[k], E.f[i], E.g[j], GF_mul(Weight(x[i], y[j], z[k]), T[k][i][j]))
    BY <1>8 DEF Weighted
  <2> DEFINE xi == x[i]  yj == y[j]  zk == z[k]  t == T[k][i][j]
             f == D.f[i]  g == D.g[j]  h == D.h[k]
             m == E.f[i]  n == E.g[j]  o == E.h[k]
             pi == p[i]  qj == q[j]  rk == r[k]
  <2>3. /\ GF_mul(rk, h) = GF_mul(zk, o) /\ GF_mul(pi, f) = GF_mul(xi, m)
        /\ GF_mul(qj, g) = GF_mul(yj, n)
    BY <1>9
  <2>4. R[k][i][j] = Scale(o, m, n, GF_mul(Weight(xi, yj, zk), t)) /\ S[k][i][j] = Scale(h, f, g, t)
    BY <1>7, <2>2
  <2> HIDE DEF xi, yj, zk, t, f, g, h, m, n, o, pi, qj, rk
  <2>5. /\ xi \in Fq /\ yj \in Fq /\ zk \in Fq /\ t \in Fq /\ f \in Fq /\ g \in Fq /\ h \in Fq
        /\ m \in Fq /\ n \in Fq /\ o \in Fq /\ pi \in Fq /\ qj \in Fq /\ rk \in Fq
    BY <2>1 DEF xi, yj, zk, t, f, g, h, m, n, o, pi, qj, rk
  <2>6. ScalesTwice(o, m, n, t, xi, yj, zk)
    BY <2>5, ScaleTwice
  <2>7. ScalesTwice(h, f, g, t, pi, qj, rk)
    BY <2>5, ScaleTwice
  <2>8. R[k][i][j] = GF_mul(Weight(pi, qj, rk), S[k][i][j])
    BY <2>3, <2>4, <2>6, <2>7 DEF ScalesTwice
  <2> QED
    BY <2>8 DEF pi, qj, rk
<1>12. ASSUME NEW k \in Index, NEW i \in Index, NEW j \in Index, S[k][i][j] = 1, R[k][i][j] = 1
       PROVE  Weight(p[i], q[j], r[k]) = 1
  <2>1. Weight(p[i], q[j], r[k]) \in Units
    BY <1>9, WeightCancels
  <2>2. Weight(p[i], q[j], r[k]) \in Fq
    BY <2>1, UnitFacts
  <2> QED
    BY <1>11, <1>12, <2>2, FieldZero
<1>13. \A i, j, k \in Index : Weight(p[i], q[j], r[k]) = 1
  <2>1. \A i \in 2 .. N - 1 : /\ Weight(p[i], q[1], r[0]) = 1 /\ Weight(p[0], q[i], r[0]) = 1
                              /\ Weight(p[0], q[1], r[i]) = 1
    BY <1>1, <1>5, <1>6, <1>12 DEF AnchorsOne
  <2>2. /\ Weight(p[0], q[1], r[0]) = 1 /\ Weight(p[1], q[2], r[4]) = 1
        /\ Weight(p[0], q[2], r[1]) = 1 /\ Weight(p[1], q[0], r[1]) = 1
    BY <1>1, <1>5, <1>6, <1>12 DEF AnchorsOne
  <2> QED
    BY <1>10, <2>1, <2>2, WeightsOne
<1>14. ASSUME NEW k \in Index, NEW i \in Index, NEW j \in Index
       PROVE  R[k][i][j] = S[k][i][j]
  <2>1. S[k][i][j] \in Fq
    <3>1. S[k] \in Matrices
      BY <1>7 DEF TriForms
    <3> QED
      BY <3>1, MatrixFacts
  <2> QED
    BY <1>11, <1>13, <2>1, FieldZero
<1>15. R = S
  <2>1. \A k \in Index : R[k] = S[k]
    <3> SUFFICES ASSUME NEW k \in Index PROVE R[k] = S[k]
      OBVIOUS
    <3>1. R[k] \in Matrices /\ S[k] \in Matrices
      BY <1>7, <1>8 DEF TriForms
    <3>2. R[k] = [i \in Index |-> [j \in Index |-> R[k][i][j]]]
          /\ S[k] = [i \in Index |-> [j \in Index |-> S[k][i][j]]]
      BY <3>1, MatrixFacts
    <3> QED
      BY <1>14, <3>2
  <2>2. R = [k \in Index |-> R[k]] /\ S = [k \in Index |-> S[k]]
    BY <1>7, <1>8 DEF TriForms
  <2> QED
    BY <2>1, <2>2
<1> QED
  BY <1>4, <1>15 DEF R, S, D, E

-----------------------------------------------------------------------------
(* The path.                                                               *)

\* The form in the bases of three lists.
FormIn(F, U, V, W) ==
  triform_action_pullback(F, vector_list_to_matrix(U), vector_list_to_matrix(V),
                             vector_list_to_matrix(W))

\* The lists follow the path of a form from a point.
Chained(F, u, U, V, W) ==
  /\ U \in Seq(Vectors) /\ V \in Seq(Vectors) /\ W \in Seq(Vectors)
  /\ Len(W) <= Len(V) /\ Len(V) <= Len(U) /\ Len(U) <= Len(W) + 1 /\ Len(U) <= N
  /\ U # <<>> => U[1] = u /\ u # Zero
  /\ \A i \in DOMAIN V : V[i] = triform_phi_u_lker_corank1(F, U[i])
  /\ \A i \in DOMAIN W : W[i] = triform_phi_v_rker_corank1(F, V[i])
  /\ \A i \in DOMAIN U \ {1} : U[i] = triform_matrix_at_w_lker_corank1(F, W[i - 1])
  /\ \A list \in {U, V, W} : pmod_mat_rank(vector_list_to_matrix(list)) = Len(list)

\* They have come to their end, and to a canonical form.
Complete(F, u, U, V, W, form) ==
  /\ Chained(F, u, U, V, W) /\ Len(W) = N
  /\ ~ AnyZero(Anchors(FormIn(F, U, V, W)))
  /\ form = apply_normalization(FormIn(F, U, V, W), Diagonals(Anchors(FormIn(F, U, V, W))))

\* None is no vector.
LEMMA VectorsNotNone ==
  ASSUME NEW v \in Vectors
  PROVE  v # None
<1>1. DOMAIN v = Index /\ 0 \in Index
  BY FieldFacts DEF Vectors
<1>2. DOMAIN None = {}
  BY DEF None
<1> QED
  BY <1>1, <1>2

\* A kernel of the path is a vector, and it is killed.
LEMMA KernelsOfPath ==
  ASSUME NEW F \in TriForms, NEW x \in Vectors
  PROVE  /\ triform_phi_u_lker_corank1(F, x) # None
              => triform_phi_u_lker_corank1(F, x) \in KilledByU(F, x)
         /\ triform_phi_v_rker_corank1(F, x) # None
              => triform_phi_v_rker_corank1(F, x) \in KilledByV(F, x)
         /\ triform_matrix_at_w_lker_corank1(F, x) # None
              => triform_matrix_at_w_lker_corank1(F, x) \in KilledByW(F, x)
<1>1. ASSUME NEW S, NEW K, SpansLine(S, K), K # None
      PROVE  K \in S
  <2>1. K \in Vectors /\ S = Line(K)
    BY <1>1 DEF SpansLine
  <2>2. K = Multiple(1, K) /\ 1 \in Fq
    BY <2>1, MultipleOfOne, FieldFacts
  <2> QED
    BY <2>1, <2>2 DEF Line
<1>2. SpansLine(KilledByU(F, x), triform_phi_u_lker_corank1(F, x))
  BY KernelAtU
<1>3. SpansLine(KilledByV(F, x), triform_phi_v_rker_corank1(F, x))
  BY KernelAtV
<1>4. SpansLine(KilledByW(F, x), triform_matrix_at_w_lker_corank1(F, x))
  BY KernelAtW
<1> QED
  BY <1>1, <1>2, <1>3, <1>4

\* A sequence of vectors with one more.
LEMMA Appended ==
  ASSUME NEW s \in Seq(Vectors), NEW v \in Vectors
  PROVE  /\ Append(s, v) \in Seq(Vectors) /\ Len(s) \in Nat /\ DOMAIN s = 1 .. Len(s)
         /\ Len(Append(s, v)) = Len(s) + 1 /\ DOMAIN Append(s, v) = 1 .. Len(s) + 1
         /\ \A i \in 1 .. Len(s) : Append(s, v)[i] = s[i]
         /\ Append(s, v)[Len(s) + 1] = v
  OBVIOUS

\* The lists begin with the point.
LEMMA ChainStarts ==
  ASSUME NEW F, NEW u \in Vectors, u # Zero
  PROVE  Chained(F, u, <<u>>, <<>>, <<>>)
<1>1. <<u>> \in Seq(Vectors) /\ <<>> \in Seq(Vectors) /\ Len(<<u>>) = 1 /\ Len(<<>>) = 0
      /\ <<u>>[1] = u /\ DOMAIN <<u>> = {1} /\ DOMAIN <<>> = {}
  OBVIOUS
<1>2. N \in Nat /\ N >= 1
  BY FieldFacts
<1>3. pmod_mat_rank(vector_list_to_matrix(<<u>>)) = Len(<<u>>)
      /\ pmod_mat_rank(vector_list_to_matrix(<<>>)) = Len(<<>>)
  BY ShortLists
<1> QED
  BY <1>1, <1>2, <1>3 DEF Chained

\* A vector that extends an independent list, of the kernel it belongs to,
\* extends the chain.
LEMMA ChainTakesV ==
  ASSUME NEW F, NEW u, NEW U, NEW V, NEW W, Chained(F, u, U, V, W),
         Len(U) = Len(V) + 1, Len(V) = Len(W),
         NEW v \in Vectors, v = triform_phi_u_lker_corank1(F, U[Len(U)]),
         pmod_vec_extends_independent_set(v, V)
  PROVE  Chained(F, u, U, Append(V, v), W) /\ Len(Append(V, v)) = Len(V) + 1
<1>1. V \in Seq(Vectors) /\ U \in Seq(Vectors) /\ W \in Seq(Vectors) /\ Len(W) \in Nat
      /\ N \in Nat /\ Len(U) \in Nat
  BY FieldFacts DEF Chained
<1> DEFINE L == Append(V, v)
<1>2. /\ L \in Seq(Vectors) /\ Len(V) \in Nat /\ DOMAIN V = 1 .. Len(V)
      /\ Len(L) = Len(V) + 1 /\ DOMAIN L = 1 .. Len(V) + 1
      /\ \A i \in 1 .. Len(V) : L[i] = V[i]
      /\ L[Len(V) + 1] = v
  BY <1>1, Appended
<1>3. pmod_mat_rank(vector_list_to_matrix(L)) = Len(L)
  BY <1>2 DEF pmod_vec_extends_independent_set
<1> HIDE DEF L
<1>4. \A i \in DOMAIN L : L[i] = triform_phi_u_lker_corank1(F, U[i])
  BY <1>2 DEF Chained
<1>5. \A i \in DOMAIN W : W[i] = triform_phi_v_rker_corank1(F, L[i])
  BY <1>1, <1>2 DEF Chained
<1>6. Len(W) <= Len(L) /\ Len(L) <= Len(U)
  BY <1>1, <1>2
<1>7. Chained(F, u, U, L, W)
  BY <1>2, <1>3, <1>4, <1>5, <1>6 DEF Chained
<1> QED
  BY <1>2, <1>7 DEF L

\* A path takes the next w.
LEMMA ChainTakesW ==
  ASSUME NEW F, NEW u, NEW U, NEW V, NEW W, Chained(F, u, U, V, W),
         Len(U) = Len(V), Len(V) = Len(W) + 1,
         NEW w \in Vectors, w = triform_phi_v_rker_corank1(F, V[Len(V)]),
         pmod_vec_extends_independent_set(w, W)
  PROVE  Chained(F, u, U, V, Append(W, w)) /\ Len(Append(W, w)) = Len(W) + 1
<1>1. V \in Seq(Vectors) /\ U \in Seq(Vectors) /\ W \in Seq(Vectors) /\ Len(V) \in Nat
      /\ N \in Nat /\ Len(U) \in Nat /\ Len(U) <= N /\ DOMAIN U = 1 .. Len(U)
  BY FieldFacts DEF Chained
<1> DEFINE L == Append(W, w)
<1>2. /\ L \in Seq(Vectors) /\ Len(W) \in Nat /\ DOMAIN W = 1 .. Len(W)
      /\ Len(L) = Len(W) + 1 /\ DOMAIN L = 1 .. Len(W) + 1
      /\ \A i \in 1 .. Len(W) : L[i] = W[i]
      /\ L[Len(W) + 1] = w
  BY <1>1, Appended
<1>3. pmod_mat_rank(vector_list_to_matrix(L)) = Len(L)
  BY <1>2 DEF pmod_vec_extends_independent_set
<1> HIDE DEF L
<1>4. \A i \in DOMAIN L : L[i] = triform_phi_v_rker_corank1(F, V[i])
  BY <1>2 DEF Chained
<1>5. ASSUME NEW i \in DOMAIN U \ {1}
      PROVE  U[i] = triform_matrix_at_w_lker_corank1(F, L[i - 1])
  <2>1. i - 1 \in 1 .. Len(W)
    BY <1>1, <1>2
  <2> QED
    BY <1>2, <2>1 DEF Chained
<1>6. Len(L) <= Len(V) /\ Len(U) <= Len(L) + 1
  BY <1>1, <1>2
<1>7. Chained(F, u, U, V, L)
  BY <1>2, <1>3, <1>4, <1>5, <1>6 DEF Chained
<1> QED
  BY <1>2, <1>7 DEF L

\* A path takes the next u.
LEMMA ChainTakesU ==
  ASSUME NEW F, NEW u, NEW U, NEW V, NEW W, Chained(F, u, U, V, W),
         Len(U) = Len(W), Len(W) \in 1 .. N - 1,
         NEW x \in Vectors, x = triform_matrix_at_w_lker_corank1(F, W[Len(W)]),
         pmod_vec_extends_independent_set(x, U)
  PROVE  Chained(F, u, Append(U, x), V, W) /\ Len(Append(U, x)) = Len(U) + 1
         /\ Append(U, x)[Len(U) + 1] = x /\ Len(V) = Len(W)
<1>1. V \in Seq(Vectors) /\ U \in Seq(Vectors) /\ W \in Seq(Vectors) /\ Len(V) \in Nat
      /\ N \in Nat /\ Len(W) \in Nat /\ Len(V) = Len(W) /\ DOMAIN V = 1 .. Len(V)
  BY FieldFacts DEF Chained
<1> DEFINE L == Append(U, x)
<1>2. /\ L \in Seq(Vectors) /\ Len(U) \in Nat /\ DOMAIN U = 1 .. Len(U)
      /\ Len(L) = Len(U) + 1 /\ DOMAIN L = 1 .. Len(U) + 1
      /\ \A i \in 1 .. Len(U) : L[i] = U[i]
      /\ L[Len(U) + 1] = x
  BY <1>1, Appended
<1>3. pmod_mat_rank(vector_list_to_matrix(L)) = Len(L)
  BY <1>2 DEF pmod_vec_extends_independent_set
<1> HIDE DEF L
<1>4. \A i \in DOMAIN V : V[i] = triform_phi_u_lker_corank1(F, L[i])
  BY <1>1, <1>2 DEF Chained
<1>5. ASSUME NEW i \in DOMAIN L \ {1}
      PROVE  L[i] = triform_matrix_at_w_lker_corank1(F, W[i - 1])
  <2>1. CASE i = Len(U) + 1
    <3>1. i - 1 = Len(W)
      BY <1>2, <2>1
    <3> QED
      BY <1>2, <2>1, <3>1
  <2>2. CASE i \in 1 .. Len(U)
    BY <1>2, <1>5, <2>2 DEF Chained
  <2> QED
    BY <1>2, <1>5, <2>1, <2>2
<1>6. L[1] = u /\ u # Zero
  <2>1. 1 \in 1 .. Len(U) /\ U # <<>>
    BY <1>1, <1>2
  <2> QED
    BY <1>2, <2>1 DEF Chained
<1>7. Len(V) <= Len(L) /\ Len(L) <= Len(W) + 1 /\ Len(L) <= N
  BY <1>1, <1>2
<1>8. Chained(F, u, L, V, W)
  BY <1>2, <1>3, <1>4, <1>5, <1>6, <1>7 DEF Chained
<1> QED
  BY <1>1, <1>2, <1>8 DEF L

\* How far the lists are at each stage.
AtStage ==
  /\ stage \in {"idle", "start"} => LU = <<>> /\ LV = <<>> /\ LW = <<>>
  /\ stage = "v" => /\ Len(LU) = Len(LV) + 1 /\ Len(LV) = Len(LW)
                    /\ currentV \in Vectors
                    /\ currentV = triform_phi_u_lker_corank1(M, LU[Len(LU)])
  /\ stage = "w" => /\ Len(LU) = Len(LV) /\ Len(LV) = Len(LW) + 1
                    /\ currentV = LV[Len(LV)]
  /\ stage = "u" => Len(LU) = Len(LW) /\ Len(LW) \in 1 .. N - 1
  /\ stage \in {"bases", "normalize"} => Len(LW) = N

\* A call follows the path, and what it writes is the canonical form at its end.
CallInv ==
  /\ stage \in {"idle", "start", "v", "w", "u", "bases", "normalize", "done"}
  /\ stage # "idle" => M \in TriForms /\ u1 \in Vectors
  /\ Chained(M, u1, LU, LV, LW)
  /\ AtStage
  /\ out # None => stage = "done" /\ Complete(M, u1, LU, LV, LW, out)

\* Empty lists are a path.
LEMMA ChainEmpty ==
  ASSUME NEW F, NEW u
  PROVE  Chained(F, u, <<>>, <<>>, <<>>)
<1>1. <<>> \in Seq(Vectors) /\ Len(<<>>) = 0 /\ DOMAIN <<>> = {} /\ N \in Nat
  BY FieldFacts
<1> QED
  BY <1>1, ShortLists DEF Chained

\* A call starts with an empty path.
LEMMA CallStarts ==
  ASSUME NEW form \in TriForms, NEW point \in Vectors, Call(form, point)
  PROVE  CallInv'
<1>1. Chained(form, point, <<>>, <<>>, <<>>)
  BY ChainEmpty
<1>2. /\ M' = form /\ u1' = point /\ stage' = "start" /\ out' = None
      /\ LU' = <<>> /\ LV' = <<>> /\ LW' = <<>>
  BY DEF Call
<1>3. AtStage'
  BY <1>2 DEF AtStage
<1> QED
  BY <1>1, <1>2, <1>3 DEF CallInv

\* A call that returns None, or the form at the end of its path.
LEMMA CallReturns ==
  ASSUME CallInv, stage # "idle", out = None, NEW value, Return(value),
         value # None => Complete(M, u1, LU, LV, LW, value)
  PROVE  CallInv'
<1>1. /\ stage' = "done" /\ out' = value /\ M' = M /\ u1' = u1
      /\ LU' = LU /\ LV' = LV /\ LW' = LW
  BY DEF Return
<1>2. AtStage'
  BY <1>1 DEF AtStage
<1> QED
  BY <1>1, <1>2 DEF CallInv

\* The first vector, the one the caller gave.
LEMMA StartKeeps ==
  ASSUME CallInv, Start
  PROVE  CallInv'
<1> DEFINE v == triform_phi_u_lker_corank1(M, u1)
<1>1. stage = "start" /\ M \in TriForms /\ u1 \in Vectors /\ out = None
  BY DEF CallInv, Start
<1>2. CASE u1 = Zero \/ v = None
  BY <1>1, <1>2, CallReturns DEF Start
<1>3. CASE ~ (u1 = Zero \/ v = None)
  <2>1. /\ LU' = <<u1>> /\ currentV' = v /\ stage' = "v" /\ M' = M /\ u1' = u1
        /\ LV' = LV /\ LW' = LW /\ out' = out
    BY <1>3 DEF Start
  <2>2. LV = <<>> /\ LW = <<>>
    BY <1>1 DEF CallInv, AtStage
  <2>3. Chained(M, u1, <<u1>>, <<>>, <<>>)
    BY <1>1, <1>3, ChainStarts
  <2>4. v \in Vectors
    BY <1>1, <1>3, KernelsOfPath DEF KilledByU
  <2>5. Len(<<u1>>) = 1 /\ Len(<<>>) = 0 /\ <<u1>>[1] = u1
    OBVIOUS
  <2>6. AtStage'
    BY <2>1, <2>2, <2>4, <2>5 DEF AtStage
  <2> QED
    BY <1>1, <2>1, <2>2, <2>3, <2>6 DEF CallInv
<1> QED
  BY <1>2, <1>3

\* The next v.
LEMMA ExtendVKeeps ==
  ASSUME CallInv, ExtendV
  PROVE  CallInv'
<1>1. stage = "v" /\ M \in TriForms /\ u1 \in Vectors /\ out = None /\ Chained(M, u1, LU, LV, LW)
  BY DEF CallInv, ExtendV
<1>2. /\ Len(LU) = Len(LV) + 1 /\ Len(LV) = Len(LW) /\ currentV \in Vectors
      /\ currentV = triform_phi_u_lker_corank1(M, LU[Len(LU)])
  BY <1>1 DEF CallInv, AtStage
<1>3. CASE ~ pmod_vec_extends_independent_set(currentV, LV)
  BY <1>1, <1>3, CallReturns DEF ExtendV
<1>4. CASE pmod_vec_extends_independent_set(currentV, LV)
  <2>1. /\ LV' = Append(LV, currentV) /\ stage' = "w" /\ M' = M /\ u1' = u1 /\ LU' = LU
        /\ LW' = LW /\ out' = out /\ currentV' = currentV
    BY <1>4 DEF ExtendV
  <2>2. /\ Chained(M, u1, LU, Append(LV, currentV), LW)
        /\ Len(Append(LV, currentV)) = Len(LV) + 1
    BY <1>1, <1>2, <1>4, ChainTakesV
  <2>3. Append(LV, currentV)[Len(LV) + 1] = currentV
    BY <1>1, <1>2, Appended DEF Chained
  <2>4. AtStage'
    BY <1>2, <2>1, <2>2, <2>3 DEF AtStage
  <2> QED
    BY <1>1, <2>1, <2>2, <2>4 DEF CallInv
<1> QED
  BY <1>3, <1>4

\* The next w.
LEMMA ExtendWKeeps ==
  ASSUME CallInv, ExtendW
  PROVE  CallInv'
<1> DEFINE w == triform_phi_v_rker_corank1(M, currentV)
<1>1. stage = "w" /\ M \in TriForms /\ u1 \in Vectors /\ out = None /\ Chained(M, u1, LU, LV, LW)
  BY DEF CallInv, ExtendW
<1>2. Len(LU) = Len(LV) /\ Len(LV) = Len(LW) + 1 /\ currentV = LV[Len(LV)]
  BY <1>1 DEF CallInv, AtStage
<1>3. currentV \in Vectors /\ Len(LW) \in Nat /\ Len(LU) <= N /\ N \in Nat
  <2>1. LV \in Seq(Vectors) /\ LW \in Seq(Vectors) /\ Len(LU) <= N
    BY <1>1 DEF Chained
  <2>2. Len(LV) \in DOMAIN LV
    BY <1>2, <2>1
  <2>3. LV[Len(LV)] \in Vectors
    BY <2>1, <2>2
  <2>4. N \in Nat
    BY FieldFacts
  <2> QED
    BY <1>2, <2>1, <2>3, <2>4
<1>4. CASE w = None \/ ~ pmod_vec_extends_independent_set(w, LW)
  BY <1>1, <1>4, CallReturns DEF ExtendW
<1>5. CASE ~ (w = None \/ ~ pmod_vec_extends_independent_set(w, LW))
  <2>1. /\ LW' = Append(LW, w) /\ stage' = (IF Len(LW') = N THEN "bases" ELSE "u")
        /\ M' = M /\ u1' = u1 /\ LU' = LU /\ LV' = LV /\ out' = out
    BY <1>5 DEF ExtendW
  <2>2. w \in Vectors
    BY <1>1, <1>3, <1>5, KernelsOfPath DEF KilledByV
  <2>3. /\ Chained(M, u1, LU, LV, Append(LW, w))
        /\ Len(Append(LW, w)) = Len(LW) + 1
    <3> HIDE DEF w
    <3>1. w = triform_phi_v_rker_corank1(M, LV[Len(LV)])
      BY <1>2 DEF w
    <3> QED
      BY <1>1, <1>2, <1>5, <2>2, <3>1, ChainTakesW
  <2> HIDE DEF w
  <2>4. Len(LU') = Len(LW') /\ Len(LW') \in 1 .. N
    BY <1>2, <1>3, <2>1, <2>3
  <2>5. AtStage'
    <3>1. CASE Len(LW') = N
      BY <2>1, <3>1 DEF AtStage
    <3>2. CASE Len(LW') # N
      <4>1. Len(LW') \in 1 .. N - 1
        BY <1>3, <2>4, <3>2
      <4> QED
        BY <2>1, <2>4, <3>2, <4>1 DEF AtStage
    <3> QED
      BY <3>1, <3>2
  <2>6. stage' \in {"bases", "u"}
    BY <2>1
  <2>7. Chained(M', u1', LU', LV', LW')
    BY <2>1, <2>3
  <2> QED
    BY <1>1, <2>1, <2>5, <2>6, <2>7 DEF CallInv
<1> QED
  BY <1>4, <1>5

\* The next u.
LEMMA ExtendUKeeps ==
  ASSUME CallInv, ExtendU
  PROVE  CallInv'
<1> DEFINE u == triform_matrix_at_w_lker_corank1(M, LW[Len(LW)])
           v == triform_phi_u_lker_corank1(M, u)
<1>1. stage = "u" /\ M \in TriForms /\ u1 \in Vectors /\ out = None /\ Chained(M, u1, LU, LV, LW)
  BY DEF CallInv, ExtendU
<1>2. Len(LU) = Len(LW) /\ Len(LW) \in 1 .. N - 1
  BY <1>1 DEF CallInv, AtStage
<1>3. LW[Len(LW)] \in Vectors
  <2>1. LW \in Seq(Vectors) /\ N \in Nat
    BY <1>1, FieldFacts DEF Chained
  <2>2. Len(LW) \in DOMAIN LW
    BY <1>2, <2>1
  <2> QED
    BY <2>1, <2>2
<1>4. CASE u = None
  BY <1>1, <1>4, CallReturns DEF ExtendU
<1>5. CASE u # None /\ (v = None \/ ~ pmod_vec_extends_independent_set(u, LU))
  BY <1>1, <1>5, CallReturns DEF ExtendU
<1>6. CASE u # None /\ ~ (v = None \/ ~ pmod_vec_extends_independent_set(u, LU))
  <2>1. /\ LU' = Append(LU, u) /\ currentV' = v /\ stage' = "v" /\ M' = M /\ u1' = u1
        /\ LV' = LV /\ LW' = LW /\ out' = out
    BY <1>6 DEF ExtendU
  <2>2. u \in Vectors
    BY <1>1, <1>3, <1>6, KernelsOfPath DEF KilledByW
  <2>3. v \in Vectors
    <3> HIDE DEF u
    <3> QED
      BY <1>1, <1>6, <2>2, KernelsOfPath DEF KilledByU
  <2>4. /\ Chained(M, u1, Append(LU, u), LV, LW)
        /\ Len(Append(LU, u)) = Len(LU) + 1 /\ Append(LU, u)[Len(LU) + 1] = u
        /\ Len(LV) = Len(LW)
    <3>1. u = triform_matrix_at_w_lker_corank1(M, LW[Len(LW)])
      OBVIOUS
    <3> HIDE DEF u
    <3> QED
      BY <1>1, <1>2, <1>6, <2>2, <3>1, ChainTakesU
  <2>5. AtStage'
    <3>1. currentV' = triform_phi_u_lker_corank1(M', LU'[Len(LU')])
      BY <2>1, <2>4
    <3>2. Len(LU') = Len(LV') + 1 /\ Len(LV') = Len(LW')
      BY <1>2, <2>1, <2>4
    <3> QED
      BY <2>1, <2>3, <3>1, <3>2 DEF AtStage
  <2> HIDE DEF u, v
  <2>6. Chained(M', u1', LU', LV', LW')
    BY <2>1, <2>4
  <2> QED
    BY <1>1, <2>1, <2>5, <2>6 DEF CallInv
<1> QED
  BY <1>4, <1>5, <1>6

\* Every step of a call keeps what is known of it.
LEMMA CallKeeps ==
  ASSUME CallInv, CallNext
  PROVE  CallInv'
<1>1. CASE Start
  BY <1>1, StartKeeps
<1>2. CASE ExtendV
  BY <1>2, ExtendVKeeps
<1>3. CASE ExtendW
  BY <1>3, ExtendWKeeps
<1>4. CASE ExtendU
  BY <1>4, ExtendUKeeps
<1>5. CASE CheckBases
  <2>1. stage = "bases" /\ out = None /\ Len(LW) = N
    BY <1>5 DEF CheckBases, CallInv, AtStage
  <2>2. CASE \A list \in {LU, LV, LW} : Invertible(list)
    <3>1. /\ stage' = "normalize" /\ M' = M /\ u1' = u1 /\ LU' = LU /\ LV' = LV /\ LW' = LW
          /\ out' = out
      BY <1>5, <2>2 DEF CheckBases
    <3>2. AtStage'
      BY <2>1, <3>1 DEF AtStage
    <3> QED
      BY <2>1, <3>1, <3>2 DEF CallInv
  <2>3. CASE ~ \A list \in {LU, LV, LW} : Invertible(list)
    BY <1>5, <2>1, <2>3, CallReturns DEF CheckBases
  <2> QED
    BY <2>2, <2>3
<1>6. CASE Normalize
  <2>1. stage = "normalize" /\ out = None /\ Len(LW) = N /\ Chained(M, u1, LU, LV, LW)
    BY <1>6 DEF Normalize, CallInv, AtStage
  <2> DEFINE T == FormIn(M, LU, LV, LW)
  <2>2. Transformed = T
    BY DEF Transformed, FormIn
  <2>3. Return(IF AnyZero(Anchors(T)) THEN None
               ELSE apply_normalization(T, Diagonals(Anchors(T))))
    <3> HIDE DEF T
    <3> QED
      BY <1>6, <2>2 DEF Normalize
  <2>4. CASE AnyZero(Anchors(T))
    <3> HIDE DEF T
    <3> QED
      BY <2>1, <2>3, <2>4, CallReturns
  <2>5. CASE ~ AnyZero(Anchors(T))
    <3>1. Complete(M, u1, LU, LV, LW, apply_normalization(T, Diagonals(Anchors(T))))
      BY <2>1, <2>5 DEF Complete
    <3> HIDE DEF T
    <3> QED
      BY <2>1, <2>3, <2>5, <3>1, CallReturns
  <2> QED
    BY <2>4, <2>5
<1>7. CASE NormalizeFault
  <2>1. /\ stage = "normalize" /\ out = None
        /\ stage' = "done" /\ M' = M /\ u1' = u1 /\ LU' = LU /\ LV' = LV /\ LW' = LW /\ out' = out
    BY <1>7 DEF NormalizeFault, CallInv
  <2>2. AtStage'
    BY <2>1 DEF AtStage
  <2> QED
    BY <2>1, <2>2 DEF CallInv
<1> QED
  BY <1>1, <1>2, <1>3, <1>4, <1>5, <1>6, <1>7 DEF CallNext

-----------------------------------------------------------------------------
(* The round.                                                              *)

\* The signer works on the base form at the point it has drawn; the verifier
\* on the non-base form, and what it compares with is the canonical form at
\* the end of the signer's path.
RoundInv ==
  /\ CallInv
  /\ base \in TriForms
  /\ \A i \in 1 .. 3 : secret[i] \in Matrices /\ pmod_mat_is_invertible(secret[i])
  /\ role \in {"signer", "verifier"}
  /\ role = "signer" /\ stage # "idle" => M = base /\ u1 = a
  /\ role = "verifier" =>
       /\ stage # "idle" /\ M = NonbaseForm /\ a \in Vectors
       /\ \E U, V, W : Complete(base, a, U, V, W, committed)

\* The verifier's form is the signer's, behind the secret matrices.
LEMMA NonbaseBehind ==
  ASSUME base \in TriForms,
         \A i \in 1 .. 3 : secret[i] \in Matrices /\ pmod_mat_is_invertible(secret[i])
  PROVE  /\ NonbaseForm \in TriForms
         /\ FormBehind(NonbaseForm, base, secret[1], secret[2], secret[3])
<1>1. secret[1] \in Matrices /\ secret[2] \in Matrices /\ secret[3] \in Matrices
  OBVIOUS
<1> QED
  BY <1>1, PulledBack DEF NonbaseForm, FormBehind

\* An answer is a vector.
LEMMA ResponseIsVector ==
  ASSUME NEW point \in Vectors, secret[1] \in Matrices, pmod_mat_is_invertible(secret[1])
  PROVE  Response(point) \in Vectors
BY InverseUndoes DEF Response

\* No call has begun.
LEMMA RoundStarts ==
  ASSUME Init
  PROVE  RoundInv
<1>1. CallInv
  <2>1. /\ stage = "idle" /\ LU = <<>> /\ LV = <<>> /\ LW = <<>> /\ out = None
    BY DEF Init, CallInit
  <2>2. Chained(M, u1, LU, LV, LW)
    BY <2>1, ChainEmpty
  <2>3. AtStage
    BY <2>1 DEF AtStage
  <2> QED
    BY <2>1, <2>2, <2>3 DEF CallInv
<1>2. base \in TriForms /\ \A i \in 1 .. 3 : secret[i] \in Matrices /\ pmod_mat_is_invertible(secret[i])
  BY RoundAssumption DEF Init
<1>3. role = "signer" /\ stage = "idle"
  BY DEF Init, CallInit
<1> QED
  BY <1>1, <1>2, <1>3 DEF RoundInv

\* The signer calls with a candidate.
LEMMA DrawKeeps ==
  ASSUME RoundInv, Draw
  PROVE  RoundInv'
<1>1. PICK u \in Candidates : a' = u /\ Call(base, u)
  BY DEF Draw
<1>2. u \in Vectors /\ base \in TriForms
  BY <1>1, RoundAssumption DEF RoundInv
<1>3. CallInv'
  BY <1>1, <1>2, CallStarts
<1>4. base' = base /\ secret' = secret /\ role' = "signer" /\ M' = base /\ u1' = u
  BY <1>1 DEF Draw, Call
<1> QED
  BY <1>1, <1>3, <1>4 DEF RoundInv

\* The signer commits, and the verifier calls with an answer or a stray vector.
LEMMA AnswerKeeps ==
  ASSUME RoundInv, Answer
  PROVE  RoundInv'
<1>1. PICK u \in {Response(a)} \cup Strays : Call(NonbaseForm, u)
  BY DEF Answer
<1>2. /\ out # None /\ role = "signer" /\ stage = "done"
      /\ committed' = out /\ role' = "verifier" /\ base' = base /\ secret' = secret /\ a' = a
  BY DEF Answer
<1>3. M = base /\ u1 = a /\ a \in Vectors
  BY <1>2 DEF RoundInv, CallInv
<1>4. Complete(base, a, LU, LV, LW, out)
  BY <1>2, <1>3 DEF RoundInv, CallInv
<1>5. \E U, V, W : Complete(base', a', U, V, W, committed')
  BY <1>2, <1>4
<1>6. NonbaseForm \in TriForms
  BY NonbaseBehind DEF RoundInv
<1>7. u \in Vectors
  <2>1. Response(a) \in Vectors
    BY <1>3, ResponseIsVector DEF RoundInv
  <2> QED
    BY <1>1, <2>1, RoundAssumption
<1>8. CallInv'
  BY <1>1, <1>6, <1>7, CallStarts
<1>9. NonbaseForm' = NonbaseForm
  BY <1>2 DEF NonbaseForm
<1>10. stage' = "start" /\ M' = NonbaseForm'
  BY <1>1, <1>9 DEF Call
<1> QED
  BY <1>2, <1>3, <1>5, <1>8, <1>10 DEF RoundInv

\* Nothing a call does touches its arguments.
LEMMA ArgumentsKept ==
  ASSUME CallNext
  PROVE  M' = M /\ u1' = u1 /\ stage # "idle" /\ stage # "done" /\ stage' # "idle"
BY DEF CallNext, Start, ExtendV, ExtendW, ExtendU, CheckBases, Normalize, NormalizeFault, Return

\* A step of the call.
LEMMA ComputeKeeps ==
  ASSUME RoundInv, Compute
  PROVE  RoundInv'
<1>1. CallNext /\ UNCHANGED <<base, secret, a, committed, role>>
  BY DEF Compute
<1>2. CallInv'
  BY <1>1, CallKeeps DEF RoundInv
<1>3. M' = M /\ u1' = u1 /\ stage # "idle" /\ stage' # "idle"
  BY <1>1, ArgumentsKept
<1>4. NonbaseForm' = NonbaseForm
  BY <1>1 DEF NonbaseForm
<1> QED
  BY <1>1, <1>2, <1>3, <1>4 DEF RoundInv

\* No step.
LEMMA StutterKeeps ==
  ASSUME RoundInv, UNCHANGED vars
  PROVE  RoundInv'
<1>1. CallInv'
  BY DEF RoundInv, CallInv, AtStage, vars, callVars
<1>2. NonbaseForm' = NonbaseForm
  BY DEF NonbaseForm, vars
<1> QED
  BY <1>1, <1>2 DEF RoundInv, vars, callVars

\* Every step of a round keeps the invariant.
LEMMA RoundKeeps ==
  ASSUME RoundInv, [Next]_vars
  PROVE  RoundInv'
BY DrawKeeps, AnswerKeeps, ComputeKeeps, StutterKeeps DEF Next

\* In every behaviour, a call of canonical_form_vartime follows the path of its
\* form, and the verifier compares with the form at the end of the signer's.
THEOREM RoundIsFollowed == Spec => []RoundInv
<1>1. Init => RoundInv
  BY RoundStarts
<1>2. RoundInv /\ [Next]_vars => RoundInv'
  BY RoundKeeps
<1> QED
  BY <1>1, <1>2, PTL DEF Spec

-----------------------------------------------------------------------------
(* What a call finds.                                                      *)

\* A unit vector.
LEMMA UnitIsVector ==
  ASSUME NEW x \in Index
  PROVE  Unit(x) \in Vectors
BY IdentityFacts DEF Unit, Matrices

\* The members of a sequence of vectors are vectors.
LEMMA Members ==
  ASSUME NEW s \in Seq(Vectors)
  PROVE  \A i \in DOMAIN s : s[i] \in Vectors /\ s[i] # None
BY VectorsNotNone

\* Along a path, each vector is killed by the one before it.
LEMMA PathKilled ==
  ASSUME NEW F \in TriForms, NEW u, NEW U, NEW V, NEW W, Chained(F, u, U, V, W)
  PROVE  /\ \A i \in DOMAIN V : V[i] \in KilledByU(F, U[i])
         /\ \A i \in DOMAIN W : W[i] \in KilledByV(F, V[i])
         /\ \A i \in DOMAIN U \ {1} : U[i] \in KilledByW(F, W[i - 1])
<1>1. /\ U \in Seq(Vectors) /\ V \in Seq(Vectors) /\ W \in Seq(Vectors)
      /\ Len(W) <= Len(V) /\ Len(V) <= Len(U) /\ Len(U) <= Len(W) + 1
  BY DEF Chained
<1>2. /\ \A i \in DOMAIN V : i \in DOMAIN U
      /\ \A i \in DOMAIN W : i \in DOMAIN V
      /\ \A i \in DOMAIN U \ {1} : i - 1 \in DOMAIN W
  BY <1>1
<1>3. ASSUME NEW i \in DOMAIN V
      PROVE  V[i] \in KilledByU(F, U[i])
  <2>1. V[i] = triform_phi_u_lker_corank1(F, U[i]) /\ V[i] # None /\ U[i] \in Vectors
    BY <1>1, <1>2, Members DEF Chained
  <2> QED
    BY <2>1, KernelsOfPath
<1>4. ASSUME NEW i \in DOMAIN W
      PROVE  W[i] \in KilledByV(F, V[i])
  <2>1. W[i] = triform_phi_v_rker_corank1(F, V[i]) /\ W[i] # None /\ V[i] \in Vectors
    BY <1>1, <1>2, Members DEF Chained
  <2> QED
    BY <2>1, KernelsOfPath
<1>5. ASSUME NEW i \in DOMAIN U \ {1}
      PROVE  U[i] \in KilledByW(F, W[i - 1])
  <2>1. U[i] = triform_matrix_at_w_lker_corank1(F, W[i - 1])
    BY DEF Chained
  <2>2. U[i] # None /\ W[i - 1] \in Vectors
    BY <1>1, <1>2, Members
  <2> QED
    BY <2>1, <2>2, KernelsOfPath
<1> QED
  BY <1>3, <1>4, <1>5

\* An empty path has no members.
LEMMA NothingYet ==
  ASSUME CallInv, stage = "idle"
  PROVE  LU = <<>> /\ LV = <<>> /\ LW = <<>> /\ DOMAIN LU = {} /\ DOMAIN LV = {} /\ DOMAIN LW = {}
BY DEF CallInv, AtStage

\* PathAnnihilates of RoundCommitment, the loop of canonical_form_vartime: of
\* every form and every point, the vectors the loop finds annihilate the form
\* two by two, whatever the third argument.
THEOREM SuccessiveVectorsAnnihilate == Spec => []PathAnnihilates
<1>1. RoundInv => PathAnnihilates
  <2> SUFFICES ASSUME RoundInv PROVE PathAnnihilates
    OBVIOUS
  <2>1. CallInv
    BY DEF RoundInv
  <2>2. CASE stage = "idle"
    BY <2>1, <2>2, NothingYet DEF PathAnnihilates
  <2>3. CASE stage # "idle"
    <3>1. M \in TriForms /\ Chained(M, u1, LU, LV, LW)
      BY <2>1, <2>3 DEF CallInv
    <3>2. /\ \A i \in DOMAIN LV : LV[i] \in KilledByU(M, LU[i])
          /\ \A i \in DOMAIN LW : LW[i] \in KilledByV(M, LV[i])
          /\ \A i \in DOMAIN LU \ {1} : LU[i] \in KilledByW(M, LW[i - 1])
      BY <3>1, PathKilled
    <3> QED
      BY <3>2, UnitIsVector DEF PathAnnihilates, KilledByU, KilledByV, KilledByW
  <2> QED
    BY <2>2, <2>3
<1> QED
  BY <1>1, RoundIsFollowed, PTL

\* The lists at the end of a path are as long as the space.
LEMMA FullLists ==
  ASSUME NEW F, NEW u, NEW U, NEW V, NEW W, Chained(F, u, U, V, W), Len(W) = N
  PROVE  /\ Len(U) = N /\ Len(V) = N /\ Len(W) = N
         /\ DOMAIN U = 1 .. N /\ DOMAIN V = 1 .. N /\ DOMAIN W = 1 .. N
<1>1. /\ U \in Seq(Vectors) /\ V \in Seq(Vectors) /\ W \in Seq(Vectors)
      /\ Len(W) <= Len(V) /\ Len(V) <= Len(U) /\ Len(U) <= N
  BY DEF Chained
<1>2. N \in Nat
  BY FieldFacts
<1> QED
  BY <1>1, <1>2

\* BasesAreIndependent of RoundCommitment: each vector was taken because
\* pmod_vec_extends_independent_set let it, and so the last test of the bases,
\* in canonical_form_vartime, never fails.
THEOREM BasesAreInvertible == Spec => []BasesAreIndependent
<1>1. RoundInv => BasesAreIndependent
  <2> SUFFICES ASSUME RoundInv PROVE BasesAreIndependent
    OBVIOUS
  <2>1. Chained(M, u1, LU, LV, LW) /\ (stage = "bases" => Len(LW) = N)
    BY DEF RoundInv, CallInv, AtStage
  <2>2. \A list \in {LU, LV, LW} : pmod_mat_rank(vector_list_to_matrix(list)) = Len(list)
    BY <2>1 DEF Chained
  <2>3. stage = "bases" => \A list \in {LU, LV, LW} : Len(list) = N
    BY <2>1, FullLists
  <2>4. stage = "bases" => \A list \in {LU, LV, LW} : Invertible(list)
    BY <2>2, <2>3 DEF Invertible, pmod_mat_is_invertible
  <2> QED
    BY <2>2, <2>4 DEF BasesAreIndependent
<1> QED
  BY <1>1, RoundIsFollowed, PTL

\* A form written in three lists is a form.
LEMMA FormOfLists ==
  ASSUME NEW F \in TriForms, NEW U \in Seq(Vectors), NEW V \in Seq(Vectors), NEW W \in Seq(Vectors)
  PROVE  FormIn(F, U, V, W) \in TriForms
BY ListMatrix, PulledBack DEF FormIn

\* AnchorsAreOne of RoundCommitment: what canonical_diagonal_normalize_vartime
\* leaves of every form, its anchors, is 1.
THEOREM NormalizedAnchors == Spec => []AnchorsAreOne
<1>1. RoundInv => AnchorsAreOne
  <2> SUFFICES ASSUME RoundInv, out # None PROVE AnchorsAreOne
    BY DEF AnchorsAreOne
  <2> DEFINE T == FormIn(M, LU, LV, LW)
  <2>1. M \in TriForms /\ Complete(M, u1, LU, LV, LW, out)
    BY DEF RoundInv, CallInv
  <2>2. T \in TriForms /\ ~ AnyZero(Anchors(T))
        /\ out = apply_normalization(T, Diagonals(Anchors(T)))
    BY <2>1, FormOfLists DEF Complete, Chained
  <2>3. AnchorsOne(out)
    <3> HIDE DEF T
    <3> QED
      BY <2>2, NormalizedIsOne
  <2>4. \A i \in 2 .. N - 1 : /\ Anchors(out).a[i] = 1 /\ Anchors(out).b[i] = 1
                              /\ Anchors(out).c[i] = 1
    BY <2>3 DEF Anchors, AnchorsOne
  <2>5. \A i \in DOMAIN Anchors(out).d : Anchors(out).d[i] = 1
    BY <2>3 DEF Anchors, AnchorsOne
  <2> HIDE DEF T
  <2> QED
    BY <2>4, <2>5 DEF AnchorsAreOne
<1> QED
  BY <1>1, RoundIsFollowed, PTL

-----------------------------------------------------------------------------
(* The verifier's path beside the signer's.                                *)

\* The first members of independent vectors are independent.
LEMMA IndependentPrefix ==
  ASSUME NEW list \in Seq(Vectors), NEW pre \in Seq(Vectors), Len(pre) <= Len(list),
         \A i \in DOMAIN pre : pre[i] = list[i], Independent(list)
  PROVE  Independent(pre)
<1> DEFINE n == Len(pre)
           G == vector_list_to_matrix(list)
           H == vector_list_to_matrix(pre)
<1>1. /\ G \in Matrices
      /\ \A c \in Index : c < Len(list) => Column(G, c) = list[c + 1]
  BY ListMatrix
<1>2. /\ H \in Matrices
      /\ \A c \in Index : c < n => c + 1 \in DOMAIN pre /\ Column(H, c) = pre[c + 1]
      /\ \A c \in Index : ~ c < n => Column(H, c) = Zero
  BY ListMatrix
<1>3. n \in Nat /\ Len(list) \in Nat /\ n <= Len(list) /\ \A c \in Index : c \in Int
  BY DEF Index
<1> HIDE DEF G, H, n
<1>4. \A c \in Index : c < n => c < Len(list) /\ Column(H, c) = Column(G, c)
  BY <1>1, <1>2, <1>3
<1> SUFFICES ASSUME NEW x \in Vectors, pmod_mat_vec_mul(H, x) = Zero,
                    NEW c \in Index, c < n
             PROVE  x[c] = 0
  BY DEF Independent, H, n
<1> DEFINE y == [k \in Index |-> IF k < n THEN x[k] ELSE 0]
<1>5. \A k \in Index : x[k] \in Fq
  BY DEF Vectors
<1>6. y \in Vectors /\ \A k \in Index : y[k] = IF k < n THEN x[k] ELSE 0
  BY <1>5, FieldFacts DEF Vectors
<1> HIDE DEF y
<1>7. ASSUME NEW r \in Index
      PROVE  Dot(G[r], y) = Dot(H[r], x)
  <2>1. /\ G[r] \in Vectors /\ H[r] \in Vectors
        /\ \A k \in Index : /\ G[r][k] \in Fq /\ Column(G, k)[r] = G[r][k]
                            /\ H[r][k] \in Fq /\ Column(H, k)[r] = H[r][k]
    BY <1>1, <1>2, MatrixFacts
  <2>2. ASSUME NEW k \in Index
        PROVE  GF_mul(G[r][k], y[k]) = GF_mul(H[r][k], x[k])
    <3>1. CASE k < n
      BY <1>4, <1>6, <2>1, <3>1
    <3>2. CASE ~ k < n
      <4>1. Zero[r] = 0
        BY LinearAtZero
      <4>2. H[r][k] = 0 /\ y[k] = 0
        BY <1>2, <1>6, <2>1, <3>2, <4>1
      <4>3. G[r][k] \in Fq /\ x[k] \in Fq
        BY <1>5, <2>1
      <4> QED
        BY <4>2, <4>3, FieldZero
    <3> QED
      BY <3>1, <3>2
  <2> DEFINE g == G[r]
             h == H[r]
  <2>3. g \in Vectors /\ h \in Vectors /\ \A k \in Index : GF_mul(g[k], y[k]) = GF_mul(h[k], x[k])
    BY <2>1, <2>2
  <2> HIDE DEF g, h
  <2>4. Dot(g, y) = Dot(h, x)
    BY <1>6, <2>3, EqualProducts
  <2> QED
    BY <2>4 DEF g, h
<1>8. pmod_mat_vec_mul(G, y) = pmod_mat_vec_mul(H, x)
  BY <1>7 DEF pmod_mat_vec_mul
<1>9. y[c] = 0
  BY <1>4, <1>6, <1>8 DEF Independent, G
<1> QED
  BY <1>6, <1>9

\* Vectors that a matrix takes to multiples of independent ones are
\* independent, as many of them as there are.
LEMMA RankBeside ==
  ASSUME NEW A \in Matrices, NEW list \in Seq(Vectors), NEW from \in Seq(Vectors),
         Len(list) <= N, Len(from) <= Len(list),
         pmod_mat_rank(vector_list_to_matrix(list)) = Len(list),
         \A i \in DOMAIN from : Carried(A, from[i], list[i])
  PROVE  pmod_mat_rank(vector_list_to_matrix(from)) = Len(from)
<1> DEFINE pre == SubSeq(list, 1, Len(from))
<1>1. pre \in Seq(Vectors) /\ Len(pre) = Len(from) /\ \A i \in DOMAIN pre : pre[i] = list[i]
  OBVIOUS
<1>2. DOMAIN pre = DOMAIN from
  OBVIOUS
<1> HIDE DEF pre
<1>3. Independent(list)
  BY RankOfList
<1>4. Independent(pre)
  BY <1>1, <1>3, IndependentPrefix
<1>5. Len(from) <= N
  BY <1>1, FieldFacts
<1>6. Independent(from)
  BY <1>1, <1>2, <1>4, <1>5, IndependentCarried
<1> QED
  BY <1>5, <1>6, RankOfList

\* The verifier has an answer that A takes to the signer's point, up to a
\* factor; U, V, W are the signer's path.
Reproducing(U, V, W) ==
  /\ CallInv /\ M \in TriForms /\ base \in TriForms
  /\ \A i \in 1 .. 3 : secret[i] \in Matrices /\ pmod_mat_is_invertible(secret[i])
  /\ FormBehind(M, base, secret[1], secret[2], secret[3])
  /\ u1 \in Vectors /\ a \in Vectors /\ Carried(secret[1], u1, a)
  /\ Complete(base, a, U, V, W, committed)

\* What the next two lemmas need of it.
LEMMA ReproducingFacts ==
  ASSUME NEW U, NEW V, NEW W, Reproducing(U, V, W)
  PROVE  /\ M \in TriForms /\ base \in TriForms
         /\ secret[1] \in Matrices /\ secret[2] \in Matrices /\ secret[3] \in Matrices
         /\ pmod_mat_is_invertible(secret[1]) /\ pmod_mat_is_invertible(secret[2])
         /\ pmod_mat_is_invertible(secret[3])
         /\ FormBehind(M, base, secret[1], secret[2], secret[3])
         /\ Chained(M, u1, LU, LV, LW) /\ Chained(base, a, U, V, W)
         /\ LU \in Seq(Vectors) /\ LV \in Seq(Vectors) /\ LW \in Seq(Vectors)
         /\ U \in Seq(Vectors) /\ V \in Seq(Vectors) /\ W \in Seq(Vectors)
         /\ Len(U) = N /\ Len(V) = N /\ Len(W) = N
         /\ DOMAIN U = 1 .. N /\ DOMAIN V = 1 .. N /\ DOMAIN W = 1 .. N
         /\ Len(LW) <= Len(LV) /\ Len(LV) <= Len(LU) /\ Len(LU) <= Len(LW) + 1 /\ Len(LU) <= N
<1>1. Chained(M, u1, LU, LV, LW) /\ Chained(base, a, U, V, W) /\ Len(W) = N
  BY DEF Reproducing, CallInv, Complete
<1>2. /\ Len(U) = N /\ Len(V) = N /\ Len(W) = N
      /\ DOMAIN U = 1 .. N /\ DOMAIN V = 1 .. N /\ DOMAIN W = 1 .. N
  BY <1>1, FullLists
<1>3. /\ LU \in Seq(Vectors) /\ LV \in Seq(Vectors) /\ LW \in Seq(Vectors)
      /\ U \in Seq(Vectors) /\ V \in Seq(Vectors) /\ W \in Seq(Vectors)
      /\ Len(LW) <= Len(LV) /\ Len(LV) <= Len(LU) /\ Len(LU) <= Len(LW) + 1 /\ Len(LU) <= N
  BY <1>1 DEF Chained
<1> QED
  BY <1>1, <1>2, <1>3 DEF Reproducing

\* One more step of the signer's path, and the verifier's next vector is
\* beside it.
LEMMA NextBeside ==
  ASSUME NEW U, NEW V, NEW W, Reproducing(U, V, W), NEW i \in 1 .. N, NEW z \in Vectors
  PROVE  /\ Carried(secret[1], z, U[i]) =>
              /\ triform_phi_u_lker_corank1(M, z) # None
              /\ triform_phi_u_lker_corank1(M, z) \in Vectors
              /\ Carried(secret[2], triform_phi_u_lker_corank1(M, z), V[i])
         /\ Carried(secret[2], z, V[i]) =>
              /\ triform_phi_v_rker_corank1(M, z) # None
              /\ triform_phi_v_rker_corank1(M, z) \in Vectors
              /\ Carried(secret[3], triform_phi_v_rker_corank1(M, z), W[i])
         /\ Carried(secret[3], z, W[i]) /\ i < N =>
              /\ triform_matrix_at_w_lker_corank1(M, z) # None
              /\ triform_matrix_at_w_lker_corank1(M, z) \in Vectors
              /\ Carried(secret[1], triform_matrix_at_w_lker_corank1(M, z), U[i + 1])
<1> DEFINE A == secret[1]
           B == secret[2]
           C == secret[3]
<1>1. /\ M \in TriForms /\ base \in TriForms /\ A \in Matrices /\ B \in Matrices /\ C \in Matrices
      /\ pmod_mat_is_invertible(A) /\ pmod_mat_is_invertible(B) /\ pmod_mat_is_invertible(C)
      /\ FormBehind(M, base, A, B, C)
  BY ReproducingFacts
<1>2. /\ U \in Seq(Vectors) /\ V \in Seq(Vectors) /\ W \in Seq(Vectors)
      /\ DOMAIN U = 1 .. N /\ DOMAIN V = 1 .. N /\ DOMAIN W = 1 .. N
      /\ Chained(base, a, U, V, W)
  BY ReproducingFacts
<1>3. /\ U[i] \in Vectors /\ V[i] \in Vectors /\ W[i] \in Vectors /\ V[i] # None /\ W[i] # None
  BY <1>2, Members
<1>4. V[i] = triform_phi_u_lker_corank1(base, U[i]) /\ W[i] = triform_phi_v_rker_corank1(base, V[i])
  BY <1>2 DEF Chained
<1>5. ASSUME i < N
      PROVE  U[i + 1] = triform_matrix_at_w_lker_corank1(base, W[i]) /\ U[i + 1] # None
  <2>1. N \in Nat
    BY FieldFacts
  <2>2. i + 1 \in DOMAIN U \ {1} /\ (i + 1) - 1 = i
    BY <1>2, <1>5, <2>1
  <2>3. U[i + 1] = triform_matrix_at_w_lker_corank1(base, W[(i + 1) - 1])
    BY <1>2, <2>2 DEF Chained
  <2> QED
    BY <1>2, <2>2, <2>3, Members
<1> HIDE DEF A, B, C
<1>6. ASSUME Carried(A, z, U[i])
      PROVE  /\ triform_phi_u_lker_corank1(M, z) # None
             /\ triform_phi_u_lker_corank1(M, z) \in Vectors
             /\ Carried(B, triform_phi_u_lker_corank1(M, z), V[i])
  BY <1>1, <1>3, <1>4, <1>6, StepFromU
<1>7. ASSUME Carried(B, z, V[i])
      PROVE  /\ triform_phi_v_rker_corank1(M, z) # None
             /\ triform_phi_v_rker_corank1(M, z) \in Vectors
             /\ Carried(C, triform_phi_v_rker_corank1(M, z), W[i])
  BY <1>1, <1>3, <1>4, <1>7, StepFromV
<1>8. ASSUME Carried(C, z, W[i]), i < N
      PROVE  /\ triform_matrix_at_w_lker_corank1(M, z) # None
             /\ triform_matrix_at_w_lker_corank1(M, z) \in Vectors
             /\ Carried(A, triform_matrix_at_w_lker_corank1(M, z), U[i + 1])
  BY <1>1, <1>3, <1>5, <1>8, StepFromW
<1> QED
  BY <1>6, <1>7, <1>8 DEF A, B, C

\* All of the verifier's path is beside the signer's.
LEMMA PathBeside ==
  ASSUME NEW U, NEW V, NEW W, Reproducing(U, V, W)
  PROVE  /\ \A i \in DOMAIN LU : Carried(secret[1], LU[i], U[i])
         /\ \A i \in DOMAIN LV : Carried(secret[2], LV[i], V[i])
         /\ \A i \in DOMAIN LW : Carried(secret[3], LW[i], W[i])
<1>1. /\ Chained(M, u1, LU, LV, LW) /\ Chained(base, a, U, V, W)
      /\ LU \in Seq(Vectors) /\ LV \in Seq(Vectors) /\ LW \in Seq(Vectors)
      /\ Len(LW) <= Len(LV) /\ Len(LV) <= Len(LU) /\ Len(LU) <= Len(LW) + 1 /\ Len(LU) <= N
      /\ DOMAIN U = 1 .. N
  BY ReproducingFacts
<1>2. N \in Nat /\ N >= 1
  BY FieldFacts
<1>3. /\ DOMAIN LU = 1 .. Len(LU) /\ DOMAIN LV = 1 .. Len(LV) /\ DOMAIN LW = 1 .. Len(LW)
      /\ Len(LU) \in Nat /\ Len(LV) \in Nat /\ Len(LW) \in Nat
  BY <1>1
<1>4. /\ \A i \in DOMAIN LU : i \in 1 .. N
      /\ \A i \in DOMAIN LV : i \in DOMAIN LU /\ i \in 1 .. N
      /\ \A i \in DOMAIN LW : i \in DOMAIN LV /\ i \in 1 .. N
      /\ \A i \in DOMAIN LU : i = 1 \/ (i - 1 \in DOMAIN LW /\ i - 1 \in 1 .. N /\ i - 1 < N
                                        /\ (i - 1) + 1 = i)
  BY <1>1, <1>2, <1>3
<1>5. \A i \in DOMAIN LU : Carried(secret[1], LU[i], U[i]) /\ i \in DOMAIN LV
                             => Carried(secret[2], LV[i], V[i])
  <2>1. \A i \in DOMAIN LV : LV[i] = triform_phi_u_lker_corank1(M, LU[i]) /\ LU[i] \in Vectors
    BY <1>1, <1>4 DEF Chained
  <2> QED
    BY <1>4, <2>1, NextBeside
<1>6. \A i \in DOMAIN LV : Carried(secret[2], LV[i], V[i]) /\ i \in DOMAIN LW
                             => Carried(secret[3], LW[i], W[i])
  <2>1. \A i \in DOMAIN LW : LW[i] = triform_phi_v_rker_corank1(M, LV[i]) /\ LV[i] \in Vectors
    BY <1>1, <1>4 DEF Chained
  <2> QED
    BY <1>4, <2>1, NextBeside
<1>7. ASSUME NEW i \in DOMAIN LU, i # 1, Carried(secret[3], LW[i - 1], W[i - 1])
      PROVE  Carried(secret[1], LU[i], U[i])
  <2>1. LU[i] = triform_matrix_at_w_lker_corank1(M, LW[i - 1])
    BY <1>1, <1>7 DEF Chained
  <2>2. i - 1 \in DOMAIN LW /\ i - 1 \in 1 .. N /\ i - 1 < N /\ (i - 1) + 1 = i
    BY <1>4, <1>7
  <2>3. LW[i - 1] \in Vectors
    BY <1>1, <2>2
  <2>4. Carried(secret[1], triform_matrix_at_w_lker_corank1(M, LW[i - 1]), U[(i - 1) + 1])
    BY <1>7, <2>2, <2>3, NextBeside
  <2> QED
    BY <2>1, <2>2, <2>4
<1>8. 1 \in DOMAIN LU => Carried(secret[1], LU[1], U[1])
  <2>1. U # <<>> /\ (1 \in DOMAIN LU => LU # <<>>)
    BY <1>1, <1>2
  <2>2. U[1] = a /\ (1 \in DOMAIN LU => LU[1] = u1)
    BY <1>1, <2>1 DEF Chained
  <2> QED
    BY <2>2 DEF Reproducing
<1> DEFINE S == {k \in Nat : /\ k \in DOMAIN LU => Carried(secret[1], LU[k], U[k])
                             /\ k \in DOMAIN LV => Carried(secret[2], LV[k], V[k])
                             /\ k \in DOMAIN LW => Carried(secret[3], LW[k], W[k])}
<1>9. 0 \in S
  BY <1>3
<1>10. \A k \in Nat : k \in S => k + 1 \in S
  <2> SUFFICES ASSUME NEW k \in Nat, k \in S PROVE k + 1 \in S
    OBVIOUS
  <2>1. k + 1 \in Nat /\ (k + 1) - 1 = k /\ (k + 1 = 1 <=> k = 0)
    OBVIOUS
  <2>2. k \in DOMAIN LW => Carried(secret[3], LW[k], W[k])
    OBVIOUS
  <2> HIDE DEF S
  <2>3. k + 1 \in DOMAIN LU => Carried(secret[1], LU[k + 1], U[k + 1])
    BY <1>4, <1>7, <1>8, <2>1, <2>2
  <2>4. k + 1 \in DOMAIN LV => Carried(secret[2], LV[k + 1], V[k + 1])
    BY <1>4, <1>5, <2>3
  <2>5. k + 1 \in DOMAIN LW => Carried(secret[3], LW[k + 1], W[k + 1])
    BY <1>4, <1>6, <2>4
  <2> QED
    BY <2>1, <2>3, <2>4, <2>5 DEF S
<1> HIDE DEF S
<1>11. \A k \in Nat : k \in S
  BY <1>9, <1>10, NumbersByInduction
<1>12. /\ \A i \in DOMAIN LU : i \in Nat
       /\ \A i \in DOMAIN LV : i \in Nat
       /\ \A i \in DOMAIN LW : i \in Nat
  BY <1>3
<1> QED
  BY <1>11, <1>12 DEF S

\* A vector beside the next of the signer's extends the verifier's list.
LEMMA TakenBeside ==
  ASSUME NEW A \in Matrices, NEW list \in Seq(Vectors), NEW short \in Seq(Vectors), NEW z \in Vectors,
         Len(list) = N, pmod_mat_rank(vector_list_to_matrix(list)) = Len(list),
         Len(short) < N, \A i \in DOMAIN short : Carried(A, short[i], list[i]),
         Carried(A, z, list[Len(short) + 1])
  PROVE  pmod_vec_extends_independent_set(z, short)
<1> DEFINE longer == Append(short, z)
<1>1. /\ longer \in Seq(Vectors) /\ Len(short) \in Nat /\ DOMAIN short = 1 .. Len(short)
      /\ Len(longer) = Len(short) + 1 /\ DOMAIN longer = 1 .. Len(short) + 1
      /\ \A i \in 1 .. Len(short) : longer[i] = short[i]
      /\ longer[Len(short) + 1] = z
  BY Appended
<1> HIDE DEF longer
<1>2. N \in Nat
  BY FieldFacts
<1>3. Len(longer) <= Len(list) /\ Len(list) <= N
  BY <1>1, <1>2
<1>4. \A i \in DOMAIN longer : i \in DOMAIN short \/ i = Len(short) + 1
  BY <1>1
<1>5. \A i \in DOMAIN longer : Carried(A, longer[i], list[i])
  BY <1>1, <1>4
<1>6. pmod_mat_rank(vector_list_to_matrix(longer)) = Len(longer)
  BY <1>1, <1>3, <1>5, RankBeside
<1> QED
  BY <1>1, <1>6 DEF pmod_vec_extends_independent_set, longer

\* The signer's lists have full rank.
LEMMA SignerRanks ==
  ASSUME NEW U, NEW V, NEW W, Reproducing(U, V, W)
  PROVE  /\ pmod_mat_rank(vector_list_to_matrix(U)) = Len(U)
         /\ pmod_mat_rank(vector_list_to_matrix(V)) = Len(V)
         /\ pmod_mat_rank(vector_list_to_matrix(W)) = Len(W)
<1>1. Chained(base, a, U, V, W)
  BY ReproducingFacts
<1> QED
  BY <1>1 DEF Chained

\* A call of the verifier does not end before the normalization: not at its
\* start.
LEMMA StartGoesOn ==
  ASSUME NEW U, NEW V, NEW W, Reproducing(U, V, W), Start
  PROVE  stage' # "done"
<1> DEFINE v == triform_phi_u_lker_corank1(M, u1)
<1>1. 1 \in 1 .. N /\ U # <<>>
  <2>1. U \in Seq(Vectors) /\ Len(U) = N /\ N \in Nat /\ N >= 1
    BY ReproducingFacts, FieldFacts
  <2> QED
    BY <2>1
<1>2. U[1] = a /\ a # Zero
  <2>1. Chained(base, a, U, V, W)
    BY ReproducingFacts
  <2> QED
    BY <1>1, <2>1 DEF Chained
<1>3. u1 \in Vectors /\ a \in Vectors /\ Carried(secret[1], u1, a)
  BY DEF Reproducing
<1>4. v # None
  BY <1>1, <1>2, <1>3, NextBeside
<1>5. u1 # Zero
  <2> SUFFICES ASSUME u1 = Zero PROVE FALSE
    OBVIOUS
  <2>1. PICK x \in Fq \ {0} : pmod_mat_vec_mul(secret[1], Zero) = Multiple(x, a)
    BY <1>3 DEF Carried
  <2>2. Multiple(0, Zero) = Zero /\ Zero \in Vectors /\ 0 \in Fq /\ secret[1] \in Matrices
    BY LinearAtZero, MultipleOfOne, FieldFacts, ReproducingFacts
  <2>3. pmod_mat_vec_mul(secret[1], Zero) \in Vectors
    BY <2>2, MatrixLinear
  <2>4. pmod_mat_vec_mul(secret[1], Multiple(0, Zero)) = Multiple(0, pmod_mat_vec_mul(secret[1], Zero))
    BY <2>2, MultipleCarried
  <2>5. pmod_mat_vec_mul(secret[1], Zero) = Zero
    BY <2>2, <2>3, <2>4, MultipleOfOne
  <2> QED
    BY <1>2, <1>3, <2>1, <2>5, MultipleOfOne
<1> HIDE DEF v
<1> QED
  BY <1>4, <1>5 DEF Start, v

\* Where the signer found a v the verifier finds one that extends his list.
LEMMA ExtendVGoesOn ==
  ASSUME NEW U, NEW V, NEW W, Reproducing(U, V, W), ExtendV
  PROVE  stage' # "done"
<1>1. /\ Len(LU) = Len(LV) + 1 /\ currentV \in Vectors
      /\ currentV = triform_phi_u_lker_corank1(M, LU[Len(LU)])
  BY DEF ExtendV, Reproducing, CallInv, AtStage
<1>2. /\ LU \in Seq(Vectors) /\ LV \in Seq(Vectors) /\ V \in Seq(Vectors) /\ Len(V) = N
      /\ Len(LU) <= N /\ secret[2] \in Matrices
  BY ReproducingFacts
<1>3. N \in Nat
  BY FieldFacts
<1>4. Len(LU) \in DOMAIN LU /\ Len(LU) \in 1 .. N /\ Len(LV) < N
  BY <1>1, <1>2, <1>3
<1>5. LU[Len(LU)] \in Vectors /\ Carried(secret[1], LU[Len(LU)], U[Len(LU)])
  BY <1>2, <1>4, PathBeside
<1>6. Carried(secret[2], currentV, V[Len(LV) + 1])
  BY <1>1, <1>4, <1>5, NextBeside
<1>7. /\ \A i \in DOMAIN LV : Carried(secret[2], LV[i], V[i])
      /\ pmod_mat_rank(vector_list_to_matrix(V)) = Len(V)
  BY PathBeside, SignerRanks
<1>8. pmod_vec_extends_independent_set(currentV, LV)
  BY <1>1, <1>2, <1>4, <1>6, <1>7, TakenBeside
<1> QED
  BY <1>8 DEF ExtendV

\* Where the signer found a w the verifier does.
LEMMA ExtendWGoesOn ==
  ASSUME NEW U, NEW V, NEW W, Reproducing(U, V, W), ExtendW
  PROVE  stage' # "done"
<1> DEFINE w == triform_phi_v_rker_corank1(M, currentV)
<1>1. Len(LU) = Len(LV) /\ Len(LV) = Len(LW) + 1 /\ currentV = LV[Len(LV)]
  BY DEF ExtendW, Reproducing, CallInv, AtStage
<1>2. /\ LV \in Seq(Vectors) /\ LW \in Seq(Vectors) /\ W \in Seq(Vectors) /\ Len(W) = N
      /\ Len(LU) <= N /\ secret[3] \in Matrices
  BY ReproducingFacts
<1>3. N \in Nat
  BY FieldFacts
<1>4. Len(LV) \in DOMAIN LV /\ Len(LV) \in 1 .. N /\ Len(LW) < N
  BY <1>1, <1>2, <1>3
<1>5. currentV \in Vectors /\ Carried(secret[2], currentV, V[Len(LV)])
  BY <1>1, <1>2, <1>4, PathBeside
<1>6. w # None /\ w \in Vectors /\ Carried(secret[3], w, W[Len(LW) + 1])
  BY <1>1, <1>4, <1>5, NextBeside
<1>7. /\ \A i \in DOMAIN LW : Carried(secret[3], LW[i], W[i])
      /\ pmod_mat_rank(vector_list_to_matrix(W)) = Len(W)
  BY PathBeside, SignerRanks
<1> HIDE DEF w
<1>8. pmod_vec_extends_independent_set(w, LW)
  BY <1>2, <1>4, <1>6, <1>7, TakenBeside
<1> QED
  BY <1>6, <1>8 DEF ExtendW, w

\* Where the signer found a u and the v behind it the verifier does.
LEMMA ExtendUGoesOn ==
  ASSUME NEW U, NEW V, NEW W, Reproducing(U, V, W), ExtendU
  PROVE  stage' # "done"
<1> DEFINE u == triform_matrix_at_w_lker_corank1(M, LW[Len(LW)])
<1>1. Len(LU) = Len(LW) /\ Len(LW) \in 1 .. N - 1
  BY DEF ExtendU, Reproducing, CallInv, AtStage
<1>2. /\ LU \in Seq(Vectors) /\ LW \in Seq(Vectors) /\ U \in Seq(Vectors) /\ Len(U) = N
      /\ secret[1] \in Matrices
  BY ReproducingFacts
<1>3. N \in Nat
  BY FieldFacts
<1>4. /\ Len(LW) \in DOMAIN LW /\ Len(LW) \in 1 .. N /\ Len(LW) < N
      /\ Len(LU) < N /\ Len(LU) + 1 \in 1 .. N
  BY <1>1, <1>2, <1>3
<1>5. LW[Len(LW)] \in Vectors /\ Carried(secret[3], LW[Len(LW)], W[Len(LW)])
  BY <1>2, <1>4, PathBeside
<1>6. u # None /\ u \in Vectors /\ Carried(secret[1], u, U[Len(LU) + 1])
  BY <1>1, <1>4, <1>5, NextBeside
<1>7. /\ \A i \in DOMAIN LU : Carried(secret[1], LU[i], U[i])
      /\ pmod_mat_rank(vector_list_to_matrix(U)) = Len(U)
  BY PathBeside, SignerRanks
<1> HIDE DEF u
<1>8. pmod_vec_extends_independent_set(u, LU)
  BY <1>2, <1>4, <1>6, <1>7, TakenBeside
<1>9. triform_phi_u_lker_corank1(M, u) # None
  BY <1>4, <1>6, NextBeside
<1> QED
  BY <1>6, <1>8, <1>9 DEF ExtendU, u

\* The bases have full rank.
LEMMA CheckBasesGoesOn ==
  ASSUME NEW U, NEW V, NEW W, Reproducing(U, V, W), CheckBases
  PROVE  stage' # "done"
<1>1. Len(LW) = N /\ Chained(M, u1, LU, LV, LW)
  BY DEF CheckBases, Reproducing, CallInv, AtStage
<1>2. \A list \in {LU, LV, LW} : Len(list) = N
  BY <1>1, FullLists
<1>3. \A list \in {LU, LV, LW} : Invertible(list)
  BY <1>1, <1>2 DEF Chained, Invertible, pmod_mat_is_invertible
<1> QED
  BY <1>3 DEF CheckBases

\* The factor between a vector and the one it is taken to.
LEMMA FactorsBeside ==
  ASSUME NEW A, NEW list, NEW from, \A i \in 1 .. N : Carried(A, from[i], list[i])
  PROVE  \E x \in [Index -> Units] :
           \A i \in Index : pmod_mat_vec_mul(A, from[i + 1]) = Multiple(x[i], list[i + 1])
<1> DEFINE x == [i \in Index |-> CHOOSE e \in Units :
                                  pmod_mat_vec_mul(A, from[i + 1]) = Multiple(e, list[i + 1])]
<1>1. ASSUME NEW i \in Index
      PROVE  /\ x[i] \in Units
             /\ pmod_mat_vec_mul(A, from[i + 1]) = Multiple(x[i], list[i + 1])
  <2>1. i + 1 \in 1 .. N
    BY FieldFacts DEF Index
  <2>2. \E e \in Units : pmod_mat_vec_mul(A, from[i + 1]) = Multiple(e, list[i + 1])
    BY <2>1 DEF Carried, Units
  <2> QED
    BY <2>2
<1> HIDE DEF x
<1>2. x = [i \in Index |-> x[i]]
  BY DEF x
<1> QED
  BY <1>1, <1>2

\* A form at three multiples.
LEMMA FormOfMultiples ==
  ASSUME NEW F \in TriForms, NEW x \in Units, NEW y \in Units, NEW z \in Units,
         NEW p \in Vectors, NEW q \in Vectors, NEW r \in Vectors
  PROVE  triform_eval(F, Multiple(x, p), Multiple(y, q), Multiple(z, r))
           = GF_mul(Weight(x, y, z), triform_eval(F, p, q, r))
<1>1. x \in Fq /\ y \in Fq /\ z \in Fq
  BY DEF Units
<1> DEFINE qq == Multiple(y, q)
           rr == Multiple(z, r)
           t == triform_eval(F, p, q, r)
<1>2. qq \in Vectors /\ rr \in Vectors
  BY <1>1, MultipleFacts
<1>3. t \in Fq
  BY SlicesFacts
<1>4. triform_eval(F, Multiple(x, p), qq, rr) = GF_mul(x, triform_eval(F, p, qq, rr))
  <2> HIDE DEF qq, rr, t
  <2> QED
    BY <1>1, <1>2, FormOfMultiple
<1>5. triform_eval(F, p, qq, rr) = GF_mul(y, triform_eval(F, p, q, rr))
  <2> HIDE DEF rr, t
  <2> QED
    BY <1>1, <1>2, FormOfMultiple
<1>6. triform_eval(F, p, q, rr) = GF_mul(z, t)
  BY <1>1, FormOfMultiple
<1> HIDE DEF t
<1>7. GF_mul(x, GF_mul(y, GF_mul(z, t))) = GF_mul(Weight(x, y, z), t)
  <2>1. GF_mul(y, GF_mul(z, t)) = GF_mul(GF_mul(y, z), t)
    BY <1>1, <1>3, ProductsAssociate
  <2>2. GF_mul(y, z) \in Fq
    BY <1>1, FieldFacts
  <2>3. GF_mul(x, GF_mul(GF_mul(y, z), t)) = GF_mul(GF_mul(x, GF_mul(y, z)), t)
    BY <1>1, <1>3, <2>2, ProductsAssociate
  <2>4. GF_mul(x, GF_mul(y, z)) = Weight(x, y, z)
    BY <1>1, ProductsAssociate DEF Weight
  <2> QED
    BY <2>1, <2>3, <2>4
<1> QED
  BY <1>4, <1>5, <1>6, <1>7 DEF t

\* The elements of a form written in three full lists.
ElementsAt(T, F, U, V, W) ==
  \A k, i, j \in Index : T[k][i][j] = triform_eval(F, U[i + 1], V[j + 1], W[k + 1])

\* A form written in lists has there its values at their members.
LEMMA ElementInLists ==
  ASSUME NEW F \in TriForms, NEW U \in Seq(Vectors), NEW V \in Seq(Vectors), NEW W \in Seq(Vectors),
         Len(U) = N, Len(V) = N, Len(W) = N
  PROVE  ElementsAt(FormIn(F, U, V, W), F, U, V, W)
<1>1. \A c \in Index : c < N
  BY FieldFacts DEF Index
<1> DEFINE A == vector_list_to_matrix(U)
           B == vector_list_to_matrix(V)
           C == vector_list_to_matrix(W)
<1>2. A \in Matrices /\ B \in Matrices /\ C \in Matrices
  BY ListMatrix
<1>3. \A c \in Index : Column(A, c) = U[c + 1] /\ Column(B, c) = V[c + 1] /\ Column(C, c) = W[c + 1]
  BY <1>1, ListMatrix
<1>4. FormIn(F, U, V, W) = triform_action_pullback(F, A, B, C)
  BY DEF FormIn
<1> HIDE DEF A, B, C
<1>5. \A i, j, k \in Index :
        triform_action_pullback(F, A, B, C)[k][i][j]
          = triform_eval(F, Column(A, i), Column(B, j), Column(C, k))
  BY <1>2, PulledBack
<1> QED
  BY <1>3, <1>4, <1>5 DEF ElementsAt

\* The verifier's form in its bases is the signer's in his, up to the factors.
LEMMA WeightedBeside ==
  ASSUME NEW U, NEW V, NEW W, Reproducing(U, V, W), Len(LW) = N
  PROVE  \E x, y, z \in [Index -> Units] :
           Weighted(FormIn(M, LU, LV, LW), FormIn(base, U, V, W), x, y, z)
<1> DEFINE A == secret[1]
           B == secret[2]
           C == secret[3]
<1>1. /\ M \in TriForms /\ base \in TriForms /\ A \in Matrices /\ B \in Matrices /\ C \in Matrices
      /\ FormBehind(M, base, A, B, C) /\ Chained(M, u1, LU, LV, LW)
  BY ReproducingFacts
<1>2. /\ LU \in Seq(Vectors) /\ LV \in Seq(Vectors) /\ LW \in Seq(Vectors)
      /\ U \in Seq(Vectors) /\ V \in Seq(Vectors) /\ W \in Seq(Vectors)
      /\ Len(U) = N /\ Len(V) = N /\ Len(W) = N
  BY ReproducingFacts
<1>3. /\ Len(LU) = N /\ Len(LV) = N
      /\ DOMAIN LU = 1 .. N /\ DOMAIN LV = 1 .. N /\ DOMAIN LW = 1 .. N
  BY <1>1, FullLists
<1>14. Len(LW) = N
  OBVIOUS
<1>15. ElementsAt(FormIn(M, LU, LV, LW), M, LU, LV, LW)
  BY <1>1, <1>2, <1>3, <1>14, ElementInLists
<1>16. ElementsAt(FormIn(base, U, V, W), base, U, V, W)
  BY <1>1, <1>2, ElementInLists
<1>4. /\ \A i \in 1 .. N : Carried(A, LU[i], U[i])
      /\ \A i \in 1 .. N : Carried(B, LV[i], V[i])
      /\ \A i \in 1 .. N : Carried(C, LW[i], W[i])
  BY <1>3, PathBeside
<1> HIDE DEF A, B, C
<1> DEFINE Factors(D, list, from, x) ==
             \A i \in Index : pmod_mat_vec_mul(D, from[i + 1]) = Multiple(x[i], list[i + 1])
<1>12. \A D, list, from : (\A i \in 1 .. N : Carried(D, from[i], list[i]))
                            => \E x \in [Index -> Units] : Factors(D, list, from, x)
  BY FactorsBeside
<1>13. /\ \E x \in [Index -> Units] : Factors(A, U, LU, x)
       /\ \E x \in [Index -> Units] : Factors(B, V, LV, x)
       /\ \E x \in [Index -> Units] : Factors(C, W, LW, x)
  <2> HIDE DEF Factors
  <2> QED
    BY <1>4, <1>12
<1>5. PICK x \in [Index -> Units] :
        \A i \in Index : pmod_mat_vec_mul(A, LU[i + 1]) = Multiple(x[i], U[i + 1])
  BY <1>13
<1>6. PICK y \in [Index -> Units] :
        \A i \in Index : pmod_mat_vec_mul(B, LV[i + 1]) = Multiple(y[i], V[i + 1])
  BY <1>13
<1>7. PICK z \in [Index -> Units] :
        \A i \in Index : pmod_mat_vec_mul(C, LW[i + 1]) = Multiple(z[i], W[i + 1])
  BY <1>13
<1>8. \A i \in Index : i + 1 \in 1 .. N
  BY FieldFacts DEF Index
<1>9. \A i \in Index : /\ LU[i + 1] \in Vectors /\ LV[i + 1] \in Vectors /\ LW[i + 1] \in Vectors
                       /\ U[i + 1] \in Vectors /\ V[i + 1] \in Vectors /\ W[i + 1] \in Vectors
  <2>1. DOMAIN U = 1 .. N /\ DOMAIN V = 1 .. N /\ DOMAIN W = 1 .. N
    BY ReproducingFacts
  <2> QED
    BY <1>2, <1>3, <1>8, <2>1, Members
<1>10. ASSUME NEW k \in Index, NEW i \in Index, NEW j \in Index
       PROVE  FormIn(M, LU, LV, LW)[k][i][j]
                = GF_mul(Weight(x[i], y[j], z[k]), FormIn(base, U, V, W)[k][i][j])
  <2>1. FormIn(M, LU, LV, LW)[k][i][j] = triform_eval(M, LU[i + 1], LV[j + 1], LW[k + 1])
    BY <1>15 DEF ElementsAt
  <2>2. triform_eval(M, LU[i + 1], LV[j + 1], LW[k + 1])
          = triform_eval(base, Multiple(x[i], U[i + 1]), Multiple(y[j], V[j + 1]),
                               Multiple(z[k], W[k + 1]))
    BY <1>1, <1>5, <1>6, <1>7, <1>9 DEF FormBehind
  <2>3. x[i] \in Units /\ y[j] \in Units /\ z[k] \in Units
    OBVIOUS
  <2>4. triform_eval(base, Multiple(x[i], U[i + 1]), Multiple(y[j], V[j + 1]),
                           Multiple(z[k], W[k + 1]))
          = GF_mul(Weight(x[i], y[j], z[k]),
                   triform_eval(base, U[i + 1], V[j + 1], W[k + 1]))
    <3>1. /\ U[i + 1] \in Vectors /\ V[j + 1] \in Vectors /\ W[k + 1] \in Vectors
      BY <1>9
    <3> DEFINE p == U[i + 1]
               q == V[j + 1]
               r == W[k + 1]
               xi == x[i]
               yj == y[j]
               zk == z[k]
    <3>2. p \in Vectors /\ q \in Vectors /\ r \in Vectors
          /\ xi \in Units /\ yj \in Units /\ zk \in Units
      BY <2>3, <3>1
    <3> HIDE DEF p, q, r, xi, yj, zk
    <3>3. triform_eval(base, Multiple(xi, p), Multiple(yj, q), Multiple(zk, r))
            = GF_mul(Weight(xi, yj, zk), triform_eval(base, p, q, r))
      <4>1. base \in TriForms
        BY <1>1
      <4> QED
        BY <3>2, <4>1, FormOfMultiples
    <3> QED
      BY <3>3 DEF p, q, r, xi, yj, zk
  <2>5. FormIn(base, U, V, W)[k][i][j] = triform_eval(base, U[i + 1], V[j + 1], W[k + 1])
    BY <1>16 DEF ElementsAt
  <2> QED
    BY <2>1, <2>2, <2>4, <2>5
<1>11. Weighted(FormIn(M, LU, LV, LW), FormIn(base, U, V, W), x, y, z)
  BY <1>10 DEF Weighted
<1> QED
  BY <1>11

\* The normalization ends with the form the signer committed to.
LEMMA NormalizeAgrees ==
  ASSUME NEW U, NEW V, NEW W, Reproducing(U, V, W), Normalize
  PROVE  out' = committed
<1> DEFINE T == FormIn(base, U, V, W)
           P == FormIn(M, LU, LV, LW)
<1>1. Len(LW) = N
  BY DEF Normalize, Reproducing, CallInv, AtStage
<1>2. /\ ~ AnyZero(Anchors(T)) /\ committed = apply_normalization(T, Diagonals(Anchors(T)))
  BY DEF Reproducing, Complete
<1>3. T \in TriForms /\ P \in TriForms
  BY ReproducingFacts, FormOfLists
<1>4. PICK x, y, z \in [Index -> Units] : Weighted(P, T, x, y, z)
  BY <1>1, WeightedBeside
<1>5. Transformed = P
  BY DEF Transformed, FormIn
<1> HIDE DEF T, P
<1>6. /\ ~ AnyZero(Anchors(P))
      /\ apply_normalization(P, Diagonals(Anchors(P))) = apply_normalization(T, Diagonals(Anchors(T)))
  BY <1>2, <1>3, <1>4, SameNormalization
<1>7. out' = IF AnyZero(Anchors(P)) THEN None ELSE apply_normalization(P, Diagonals(Anchors(P)))
  BY <1>5 DEF Normalize, Return
<1> QED
  BY <1>2, <1>6, <1>7

\* A call that ends has found the commitment, or no memory.
LEMMA CallAgrees ==
  ASSUME NEW U, NEW V, NEW W, Reproducing(U, V, W), CallNext, stage' = "done"
  PROVE  out' = committed \/ noMemory'
<1>1. CASE Start
  BY <1>1, StartGoesOn
<1>2. CASE ExtendV
  BY <1>2, ExtendVGoesOn
<1>3. CASE ExtendW
  BY <1>3, ExtendWGoesOn
<1>4. CASE ExtendU
  BY <1>4, ExtendUGoesOn
<1>5. CASE CheckBases
  BY <1>5, CheckBasesGoesOn
<1>6. CASE Normalize
  BY <1>6, NormalizeAgrees
<1>7. CASE NormalizeFault
  BY <1>7 DEF NormalizeFault
<1> QED
  BY <1>1, <1>2, <1>3, <1>4, <1>5, <1>6, <1>7 DEF CallNext

\* The answer to a challenge is a point that A takes to the signer's.
LEMMA VerifierReproduces ==
  ASSUME RoundInv, role = "verifier", u1 = Response(a)
  PROVE  \E U, V, W : Reproducing(U, V, W)
<1>1. /\ stage # "idle" /\ M = NonbaseForm /\ a \in Vectors /\ base \in TriForms
      /\ \A i \in 1 .. 3 : secret[i] \in Matrices /\ pmod_mat_is_invertible(secret[i])
      /\ CallInv
  BY DEF RoundInv
<1>2. PICK U, V, W : Complete(base, a, U, V, W, committed)
  BY DEF RoundInv
<1>3. NonbaseForm \in TriForms /\ FormBehind(NonbaseForm, base, secret[1], secret[2], secret[3])
  BY <1>1, NonbaseBehind
<1>4. secret[1] \in Matrices /\ pmod_mat_is_invertible(secret[1])
  BY <1>1
<1>5. u1 \in Vectors /\ pmod_mat_vec_mul(secret[1], u1) = a
  BY <1>1, <1>4, InverseUndoes DEF Response
<1>6. Carried(secret[1], u1, a)
  <2>1. 1 \in Fq \ {0} /\ Multiple(1, a) = a
    BY <1>1, FieldFacts, MultipleOfOne
  <2> QED
    BY <1>5, <2>1 DEF Carried
<1>7. Reproducing(U, V, W)
  BY <1>1, <1>2, <1>3, <1>5, <1>6 DEF Reproducing
<1> QED
  BY <1>7

\* CommitmentReproduced of RoundCommitment, what sign_vartime and
\* verify_vartime rely on: for every key pair and every point,
\* the form the verifier computes from an answer is the one the signer has
\* absorbed, unless its malloc fails.
THEOREM VerifierFindsTheCommitment == Spec => []CommitmentReproduced
<1>1. Init => CommitmentReproduced
  BY DEF Init, CommitmentReproduced
<1>2. RoundInv /\ CommitmentReproduced /\ [Next]_vars => CommitmentReproduced'
  <2> SUFFICES ASSUME RoundInv, CommitmentReproduced, [Next]_vars
               PROVE  CommitmentReproduced'
    OBVIOUS
  <2>1. CASE Draw
    BY <2>1 DEF Draw, Call, CommitmentReproduced
  <2>2. CASE Answer
    <3>1. stage' = "start"
      BY <2>2 DEF Answer, Call
    <3> QED
      BY <3>1 DEF CommitmentReproduced
  <2>3. CASE Compute
    <3> SUFFICES ASSUME role' = "verifier", stage' = "done", u1' = Response(a)'
                 PROVE  out' = committed' \/ noMemory'
      BY DEF CommitmentReproduced
    <3>1. CallNext /\ role = "verifier" /\ committed' = committed /\ Response(a)' = Response(a)
      BY <2>3 DEF Compute, Response
    <3>2. u1 = Response(a)
      BY <3>1, ArgumentsKept
    <3>3. PICK U, V, W : Reproducing(U, V, W)
      BY <3>1, <3>2, VerifierReproduces
    <3> QED
      BY <3>1, <3>3, CallAgrees
  <2>4. CASE UNCHANGED vars
    BY <2>4 DEF vars, callVars, CommitmentReproduced, Response
  <2> QED
    BY <2>1, <2>2, <2>3, <2>4 DEF Next
<1> QED
  BY <1>1, <1>2, RoundIsFollowed, PTL DEF Spec
=============================================================================
