--------------------------- MODULE CanonicalForm ---------------------------
(***************************************************************************)
(* canonical_form_vartime of canonical.c: from a form and a point, three   *)
(* bases are built along a path of one-dimensional kernels, the form is    *)
(* written in them, and diagonal matrices make its anchors 1.  A step is   *)
(* the next vector of a basis, or a stage of the normalization.            *)
(***************************************************************************)
EXTENDS Triform

ASSUME DimensionAssumption == N >= 5

VARIABLES
  M, u1,         \* the arguments of the call
  LU, LV, LW,    \* the vectors found so far
  currentV,      \* v_i, found before it is tested
  stage,         \* what comes next, or "done"
  out,           \* the caller's buffer, None before it is written
  noMemory       \* the malloc of the call failed

callVars == <<M, u1, LU, LV, LW, currentV, stage, out, noMemory>>

CallInit ==
  /\ M = None /\ u1 = None /\ LU = <<>> /\ LV = <<>> /\ LW = <<>>
  /\ currentV = None /\ stage = "idle" /\ out = None /\ noMemory = FALSE

Call(form, point) ==
  /\ M' = form /\ u1' = point /\ stage' = "start" /\ out' = None /\ noMemory' = FALSE
  /\ LU' = <<>> /\ LV' = <<>> /\ LW' = <<>> /\ currentV' = None

Return(value) ==
  /\ stage' = "done" /\ out' = value
  /\ UNCHANGED <<M, u1, LU, LV, LW, currentV, noMemory>>

-----------------------------------------------------------------------------
Start ==
  /\ stage = "start"
  /\ LET v == triform_phi_u_lker_corank1(M, u1)
     IN IF u1 = Zero \/ v = None THEN Return(None)
        ELSE /\ LU' = <<u1>> /\ currentV' = v /\ stage' = "v"
             /\ UNCHANGED <<M, u1, LV, LW, out, noMemory>>

ExtendV ==
  /\ stage = "v"
  /\ IF ~pmod_vec_extends_independent_set(currentV, LV) THEN Return(None)
     ELSE /\ LV' = Append(LV, currentV) /\ stage' = "w"
          /\ UNCHANGED <<M, u1, LU, LW, currentV, out, noMemory>>

ExtendW ==
  /\ stage = "w"
  /\ LET w == triform_phi_v_rker_corank1(M, currentV)
     IN IF w = None \/ ~pmod_vec_extends_independent_set(w, LW) THEN Return(None)
        ELSE /\ LW' = Append(LW, w)
             /\ stage' = IF Len(LW') = N THEN "bases" ELSE "u"
             /\ UNCHANGED <<M, u1, LU, LV, currentV, out, noMemory>>

\* The next u, together with the v that follows it.
ExtendU ==
  /\ stage = "u"
  /\ LET u == triform_matrix_at_w_lker_corank1(M, LW[Len(LW)])
         v == triform_phi_u_lker_corank1(M, u)
     IN IF u = None THEN Return(None)
        ELSE IF v = None \/ ~pmod_vec_extends_independent_set(u, LU) THEN Return(None)
        ELSE /\ LU' = Append(LU, u) /\ currentV' = v /\ stage' = "v"
             /\ UNCHANGED <<M, u1, LV, LW, out, noMemory>>

Invertible(list) == pmod_mat_is_invertible(vector_list_to_matrix(list))

CheckBases ==
  /\ stage = "bases"
  /\ IF \A list \in {LU, LV, LW} : Invertible(list)
     THEN stage' = "normalize" /\ UNCHANGED <<M, u1, LU, LV, LW, currentV, out, noMemory>>
     ELSE Return(None)

-----------------------------------------------------------------------------
\* The anchors of a form T, as collect_normalization_anchors finds them.
Anchors(T) ==
  [a |-> [i \in 2 .. N - 1 |-> T[0][i][1]],
   b |-> [i \in 2 .. N - 1 |-> T[0][0][i]],
   c |-> [i \in 2 .. N - 1 |-> T[i][0][1]],
   d |-> <<T[0][0][1], T[4][1][2], T[1][0][2], T[1][1][0]>>]

\* GF_batch_inv refuses a list with a 0.
AnyZero(anchor) ==
  \/ \E i \in 2 .. N - 1 : 0 \in {anchor.a[i], anchor.b[i], anchor.c[i]}
  \/ \E i \in DOMAIN anchor.d : anchor.d[i] = 0

Times(a, b, c, d) == GF_mul(GF_mul(GF_mul(a, b), c), d)

\* g_1 balances the last anchor: 1 / (f_2 h_2 d_4).
\* mutant: it is left at 1
LastDiagonal_One(anchor, g2) == 1
LastDiagonal(anchor, g2) ==
  LET d == anchor.d
      invF2 == Times(g2, GF_inv(anchor.c[4]), d[2], 1)
      invH2 == GF_mul(g2, d[3])
  IN Times(invF2, invH2, GF_inv(d[4]), 1)

\* compute_normalization_diagonals
Diagonals(anchor) ==
  LET a == anchor.a  b == anchor.b  c == anchor.c  d == anchor.d
      scaled(x) == GF_mul(d[1], GF_inv(x))
  IN [f |-> [i \in Index |-> CASE i = 0 -> 1
               [] i = 1 -> Times(b[2], c[4], GF_inv(d[1]), GF_inv(d[2]))
               [] OTHER -> scaled(a[i])],
      g |-> [i \in Index |-> CASE i = 0 -> LastDiagonal(anchor, scaled(b[2]))
               [] i = 1 -> 1
               [] OTHER -> scaled(b[i])],
      h |-> [i \in Index |-> CASE i = 0 -> GF_inv(d[1])
               [] i = 1 -> Times(b[2], GF_inv(d[1]), GF_inv(d[3]), 1)
               [] OTHER -> GF_inv(c[i])]]

apply_normalization(T, diagonals) ==
  [slice \in Index |->
     LET scaled == pmod_mat_diag_scale(diagonals.f, T[slice], diagonals.g)
     IN [i \in Index |-> [j \in Index |-> GF_mul(diagonals.h[slice], scaled[i][j])]]]

\* The form in the bases of the path.
Transformed ==
  triform_action_pullback(M, vector_list_to_matrix(LU),
                             vector_list_to_matrix(LV), vector_list_to_matrix(LW))

Normalize ==
  /\ stage = "normalize"
  /\ LET T == Transformed
     IN Return(IF AnyZero(Anchors(T)) THEN None
               ELSE apply_normalization(T, Diagonals(Anchors(T))))

\* The malloc of canonical_diagonal_normalize_vartime fails.
NormalizeFault ==
  /\ stage = "normalize"
  /\ noMemory' = TRUE /\ stage' = "done"
  /\ UNCHANGED <<M, u1, LU, LV, LW, currentV, out>>

CallNext ==
  \/ Start \/ ExtendV \/ ExtendW \/ ExtendU \/ CheckBases
  \/ Normalize \/ NormalizeFault
=============================================================================
