-------------------------- MODULE RoundCommitment --------------------------
(***************************************************************************)
(* What one round of TRINE computes: the signer draws a point of the base  *)
(* form and commits to the canonical form there, answers with the point    *)
(* moved by A^-1, and the verifier takes the canonical form of the         *)
(* non-base form at the answer.                                            *)
(***************************************************************************)
EXTENDS CanonicalForm

CONSTANTS
  BaseForms,   \* forms expanded from public seeds
  Secrets,     \* triples <<A, B, C>> of invertible matrices
  Candidates,  \* vectors the round XOF yields
  Strays       \* vectors a signature may hold in place of the answer

\* Secret matrices are drawn until they have an inverse.
ASSUME RoundAssumption ==
  /\ BaseForms \subseteq TriForms
  /\ Candidates \subseteq Vectors /\ Strays \subseteq Vectors
  /\ \A s \in Secrets : \A i \in 1 .. 3 : s[i] \in Matrices /\ pmod_mat_is_invertible(s[i])

VARIABLES
  base, secret,  \* of the key pair
  a,             \* the point the signer has drawn
  committed,     \* the canonical form it absorbed
  role           \* who is computing: "signer" or "verifier"

vars == <<callVars, base, secret, a, committed, role>>

\* crypto_sign_keypair
NonbaseForm == triform_action_pullback(base, secret[1], secret[2], secret[3])

\* trine_expand_secret_matrix_pair_vartime and pmod_mat_vec_mul
Response(point) == pmod_mat_vec_mul(pmod_mat_inv(secret[1]), point)

Init ==
  /\ CallInit
  /\ base \in BaseForms /\ secret \in Secrets
  /\ a = None /\ committed = None /\ role = "signer"

\* corank1_cal_vartime: the first candidate of corank one.
CorankOne(u) == u # Zero /\ pmod_mat_rank(triform_phi_u(base, u)) = N - 1

\* A candidate without a canonical form is passed over.
Draw ==
  /\ role = "signer"
  /\ stage = "idle" \/ (stage = "done" /\ out = None)
  /\ \E u \in Candidates : CorankOne(u) /\ a' = u /\ Call(base, u)
  /\ UNCHANGED <<base, secret, committed, role>>

Answer ==
  /\ role = "signer" /\ stage = "done" /\ out # None
  /\ committed' = out /\ role' = "verifier"
  /\ \E u \in {Response(a)} \cup Strays : Call(NonbaseForm, u)
  /\ UNCHANGED <<base, secret, a>>

Compute == CallNext /\ UNCHANGED <<base, secret, a, committed, role>>

Next == Draw \/ Answer \/ Compute

Spec == Init /\ [][Next]_vars

-----------------------------------------------------------------------------
Unit(i) == pmod_mat_identity[i]

(* Successive vectors of the path annihilate the form, whatever the third  *)
(* argument: phi(u_i, v_i, .), phi(., v_i, w_i) and phi(u_{i+1}, ., w_i)   *)
(* are zero.  It is what makes the path the same for all forms of an orbit.*)
PathAnnihilates ==
  \A x \in Index :
    /\ \A i \in DOMAIN LV : triform_eval(M, LU[i], LV[i], Unit(x)) = 0
    /\ \A i \in DOMAIN LW : triform_eval(M, Unit(x), LV[i], LW[i]) = 0
    /\ \A i \in DOMAIN LU \ {1} : triform_eval(M, LU[i], Unit(x), LW[i - 1]) = 0

(* The lists stay independent, so that three invertible bases are found or *)
(* the call fails before: the last test of the bases never fails.          *)
BasesAreIndependent ==
  /\ \A list \in {LU, LV, LW} :
       pmod_mat_rank(vector_list_to_matrix(list)) = Len(list)
  /\ stage = "bases" => \A list \in {LU, LV, LW} : Invertible(list)

(* A canonical form has all its anchors equal to 1, which is what leaves   *)
(* no freedom in the diagonal matrices.                                    *)
AnchorsAreOne ==
  out # None =>
    LET anchor == Anchors(out)
    IN /\ \A i \in 2 .. N - 1 : {anchor.a[i], anchor.b[i], anchor.c[i]} = {1}
       /\ \A i \in DOMAIN anchor.d : anchor.d[i] = 1

(* The verifier computes from an answer the very form the signer committed *)
(* to, for any pair of key and point; it is refused only if memory is.     *)
CommitmentReproduced ==
  role = "verifier" /\ stage = "done" /\ u1 = Response(a) =>
    out = committed \/ noMemory
=============================================================================
