----------------------------- MODULE MatrixElim -----------------------------
(***************************************************************************)
(* matrixelim.c: Gauss-Jordan elimination and what is read off it.         *)
(***************************************************************************)
EXTENDS FieldMatrix

Least(S) == CHOOSE x \in S : \A y \in S : x <= y

swap_rows(M, r1, r2) == [M EXCEPT ![r1] = M[r2], ![r2] = M[r1]]

scale_row(M, row, scale) ==
  [M EXCEPT ![row] = [c \in Index |-> GF_mul(@[c], scale)]]

\* row_sub_mul of the pivot row from every other row.
ClearOthers(M, pivotRow, factors) ==
  [r \in Index |->
     IF r = pivotRow THEN M[r]
     ELSE [c \in Index |-> GF_sub(M[r][c], GF_mul(factors[r], M[pivotRow][c]))]]

\* The state of pmod_mat_rref_core_vartime: A, rhs and pivot_cols, whose
\* length is pivot_row.
Started(A) == [A |-> A, rhs |-> pmod_mat_identity, pivots |-> <<>>]

\* The right-hand side takes part in every operation.
\* mutant: but not in the swap
RhsAfter_NoSwap(s, row, pivot, inv, factors) ==
  ClearOthers(scale_row(s.rhs, row, inv), row, factors)
RhsAfter(s, row, pivot, inv, factors) ==
  ClearOthers(scale_row(swap_rows(s.rhs, row, pivot), row, inv), row, factors)

\* The loop body for one column.
EliminateColumn(s, col) ==
  LET row == Len(s.pivots)
      candidates == {r \in row .. N - 1 : s.A[r][col] # 0}
  IN IF candidates = {} THEN s
     ELSE LET pivot  == Least(candidates)
              inv    == GF_inv(s.A[pivot][col])
              left   == scale_row(swap_rows(s.A, row, pivot), row, inv)
              factors == Column(left, col)
          IN [A |-> ClearOthers(left, row, factors),
              rhs |-> RhsAfter(s, row, pivot, inv, factors),
              pivots |-> Append(s.pivots, col)]

pmod_mat_rref(A) ==
  LET after[col \in 0 .. N] ==
        IF col = 0 THEN Started(A) ELSE EliminateColumn(after[col - 1], col - 1)
  IN after[N]

pmod_mat_rank(A) == Len(pmod_mat_rref(A).pivots)
pmod_mat_is_invertible(A) == pmod_mat_rank(A) = N

\* What stands for a value that was not computed: no vector and no matrix.
None == <<>>

InverseOf(info) == IF Len(info.pivots) = N THEN info.rhs ELSE None
pmod_mat_inv(A) == InverseOf(pmod_mat_rref(A))

\* The kernel of a matrix of corank one, its free coordinate set to 1.
KernelOf(info) ==
  IF Len(info.pivots) # N - 1 THEN None
  ELSE LET pivotRow(c) == {i \in DOMAIN info.pivots : info.pivots[i] = c}
           free == Least({c \in Index : pivotRow(c) = {}})
       IN [c \in Index |->
             IF c = free THEN 1
             ELSE GF_neg(info.A[Least(pivotRow(c)) - 1][free])]

pmod_mat_right_kernel_corank1(A) == KernelOf(pmod_mat_rref(A))
pmod_mat_left_kernel_corank1(A) ==
  pmod_mat_right_kernel_corank1(pmod_mat_transpose(A))

\* Whether a vector is independent of the members of a list.
\* mutant: only the room for another one is tested
pmod_vec_extends_independent_set_Room(v, basis) == Len(basis) < N
pmod_vec_extends_independent_set(v, basis) ==
  /\ Len(basis) < N
  /\ pmod_mat_rank(vector_list_to_matrix(Append(basis, v))) = Len(basis) + 1
=============================================================================
