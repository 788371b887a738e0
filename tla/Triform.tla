------------------------------ MODULE Triform ------------------------------
(***************************************************************************)
(* triform.c: a trilinear form is n slices, M[k][i][j] being its value at  *)
(* the unit vectors e_i, e_j, e_k.                                         *)
(***************************************************************************)
EXTENDS MatrixElim

TriForms == [Index -> Matrices]

triform_matrix_at_w(M, w) == pmod_mat_linear_combination(M, w)

\* phi(u, x, e_slice) and phi(x, v, e_slice) as the columns of a matrix.
triform_phi_u(M, u) ==
  pmod_mat_transpose([slice \in Index |-> pmod_mat_transpose_vec_mul(M[slice], u)])
triform_phi_v(M, v) ==
  pmod_mat_transpose([slice \in Index |-> pmod_mat_vec_mul(M[slice], v)])

triform_eval(M, u, v, w) ==
  Dot(w, [slice \in Index |-> Dot(u, pmod_mat_vec_mul(M[slice], v))])

\* The kernels of the path, None unless of dimension one.
triform_phi_u_lker_corank1(M, u) == pmod_mat_left_kernel_corank1(triform_phi_u(M, u))
triform_phi_v_rker_corank1(M, v) == pmod_mat_right_kernel_corank1(triform_phi_v(M, v))
triform_matrix_at_w_lker_corank1(M, w) ==
  pmod_mat_left_kernel_corank1(triform_matrix_at_w(M, w))

\* phi(A x, B y, C z)
\* mutant: a row of C where its column belongs
triform_action_pullback_Row(M, A, B, C) ==
  [slice \in Index |->
     pmod_mat_mul(pmod_mat_mul(pmod_mat_transpose(A),
                               pmod_mat_linear_combination(M, C[slice])), B)]
triform_action_pullback(M, A, B, C) ==
  [slice \in Index |->
     pmod_mat_mul(pmod_mat_mul(pmod_mat_transpose(A),
                               pmod_mat_linear_combination(M, Column(C, slice))), B)]
=============================================================================
