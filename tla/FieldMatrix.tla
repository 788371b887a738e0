---------------------------- MODULE FieldMatrix ----------------------------
(***************************************************************************)
(* field.h, field.c and matrixmod.c: the field of q elements, and n x n    *)
(* matrices over it.  Rows, columns and slices are numbered from 0, as in  *)
(* the code.                                                               *)
(***************************************************************************)
EXTENDS Integers, Sequences, FiniteSets

CONSTANTS
  Q,    \* TRINE_q
  N     \* TRINE_n, or the n a caller passes

ASSUME FieldAssumption ==
  /\ Q \in Nat /\ Q > 1 /\ N \in Nat \ {0}
  /\ \A d \in 2 .. Q - 1 : Q % d # 0 \* q is prime

Fq == 0 .. Q - 1
Index == 0 .. N - 1
Vectors == [Index -> Fq]
Matrices == [Index -> Vectors]

GF_sub(a, b) == (a - b) % Q
\* mutant: the sign is lost
GF_neg_Same(a) == a
GF_neg(a) == IF a = 0 THEN 0 ELSE Q - a
GF_mul(a, b) == (a * b) % Q

\* GF_inv raises to the power q - 2, the exponent's bits taken from the lowest.
Powers == [exponent : Nat, t : Fq, val : Fq]
Squared(s) ==
  [exponent |-> s.exponent \div 2,
   t |-> IF s.exponent % 2 = 1 THEN GF_mul(s.t, s.val) ELSE s.t,
   val |-> GF_mul(s.val, s.val)]
Power[s \in Powers] == IF s.exponent = 0 THEN s.t ELSE Power[Squared(s)]
GF_inv(val) == Power[[exponent |-> Q - 2, t |-> 1, val |-> val]]

\* Fermat: that power is the inverse.
ASSUME InverseAssumption == \A x \in Fq \ {0} : GF_mul(x, GF_inv(x)) = 1

\* What a uint64_t accumulates before it is reduced: n terms, from term 0.
Sum(terms, n) ==
  LET sum[k \in 0 .. n] == IF k = 0 THEN 0 ELSE sum[k - 1] + terms[k - 1] IN sum[n]
Accumulated(terms) == Sum(terms, N)
Dot(a, b) == Accumulated([k \in Index |-> a[k] * b[k]]) % Q

-----------------------------------------------------------------------------
Zero == [i \in Index |-> 0]
pmod_mat_identity == [r \in Index |-> [c \in Index |-> IF r = c THEN 1 ELSE 0]]

Column(A, c) == [r \in Index |-> A[r][c]]
pmod_mat_transpose(A) == [c \in Index |-> Column(A, c)]

pmod_mat_vec_mul(A, v) == [r \in Index |-> Dot(A[r], v)]
pmod_mat_transpose_vec_mul(A, v) == [c \in Index |-> Dot(Column(A, c), v)]

pmod_mat_mul(A, B) ==
  LET columns == pmod_mat_transpose(B)
  IN [r \in Index |-> [c \in Index |-> Dot(A[r], columns[c])]]

\* One matrix for a form, the slices weighted by the coefficients.
pmod_mat_linear_combination(matrices, coefficients) ==
  [r \in Index |-> [c \in Index |->
     Accumulated([i \in Index |-> coefficients[i] * matrices[i][r][c]]) % Q]]

pmod_mat_diag_scale(left, A, right) ==
  [i \in Index |-> [j \in Index |-> GF_mul(GF_mul(left[i], A[i][j]), right[j])]]

\* Lists of vectors, and the matrix with their members as columns.
vector_list_to_matrix(list) ==
  [r \in Index |-> [c \in Index |-> IF c < Len(list) THEN list[c + 1][r] ELSE 0]]
=============================================================================
