---------------------------- MODULE Elimination ----------------------------
(***************************************************************************)
(* pmod_mat_rref_core_vartime, one column a step, on any matrix, and what  *)
(* its callers read off the result: rank, inverse and kernel.              *)
(***************************************************************************)
EXTENDS MatrixElim

CONSTANT GivenMatrices  \* the matrices callers pass

ASSUME GivenMatricesAssumption == GivenMatrices \subseteq Matrices

VARIABLES
  given,  \* the matrix of the caller
  info,   \* A, rhs and pivot_cols
  col     \* the column the loop has come to

elimVars == <<given, info, col>>

ElimInit == given \in GivenMatrices /\ info = Started(given) /\ col = 0

\* The loop ends at the last column or when every row has its pivot.
ElimStep ==
  /\ col < N /\ Len(info.pivots) < N
  /\ info' = EliminateColumn(info, col)
  /\ col' = col + 1
  /\ UNCHANGED given

Finished == col = N \/ Len(info.pivots) = N

ElimSpec == ElimInit /\ [][ElimStep]_elimVars

-----------------------------------------------------------------------------
(* What was done to the matrix was done to the right-hand side: at every   *)
(* column, rhs times the caller's matrix is the working matrix.  And the   *)
(* columns passed are reduced: the pivots come in their order, a pivot's   *)
(* column is the unit column of its row, and rows without a pivot are      *)
(* zero.                                                                   *)
ReducedByRowOperations ==
  /\ pmod_mat_mul(info.rhs, given) = info.A
  /\ \A i, j \in DOMAIN info.pivots : i < j => info.pivots[i] < info.pivots[j]
  /\ \A i \in DOMAIN info.pivots :
       Column(info.A, info.pivots[i]) = Column(pmod_mat_identity, i - 1)
  /\ \A r \in Len(info.pivots) .. N - 1, c \in 0 .. col - 1 : info.A[r][c] = 0

\* The reference: the image has as many vectors as there are of that many
\* coordinates.
Image == {pmod_mat_vec_mul(given, v) : v \in Vectors}
Kernel == {v \in Vectors : pmod_mat_vec_mul(given, v) = Zero}

(* The rank is the dimension of the image; a matrix of full rank gets the  *)
(* inverse from both sides, and one of corank one a vector that spans its  *)
(* kernel.                                                                 *)
ReadsOff ==
  Finished =>
    /\ Cardinality(Image) = Cardinality([0 .. Len(info.pivots) - 1 -> Fq])
    /\ IF Len(info.pivots) = N
       THEN /\ pmod_mat_mul(InverseOf(info), given) = pmod_mat_identity
            /\ pmod_mat_mul(given, InverseOf(info)) = pmod_mat_identity
       ELSE InverseOf(info) = None
    /\ IF Len(info.pivots) = N - 1
       THEN Kernel = {[i \in Index |-> GF_mul(a, KernelOf(info)[i])] : a \in Fq}
       ELSE KernelOf(info) = None
=============================================================================
