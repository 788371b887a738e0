----------------------------- MODULE MCAlgebra -----------------------------
(***************************************************************************)
(* The algorithms on field elements, one at a time, over the field of      *)
(* seven elements and in dimension 5, the smallest with a canonical form:  *)
(* the elimination of matrices with every set of pivot columns, the        *)
(* inversion of every list of up to four elements, and rounds over forms   *)
(* and matrices whose entries are spread by a polynomial.  In the field of *)
(* the program the single inversion is evaluated for every element.        *)
(***************************************************************************)
EXTENDS RoundCommitment, Elimination, BatchInverse

VARIABLE running

Program == INSTANCE FieldMatrix WITH Q <- 4093, N <- 1

ASSUME \A x \in 1 .. 4092 : Program!GF_mul(x, Program!GF_inv(x)) = 1

MCLists == UNION {[1 .. n -> Fq] : n \in 0 .. 4}

Entry(seed, i) == ((seed * 7919 + i * 5023 + i * i * 331 + i * i * i * (7 + seed)) % 16381) % Q

Form(seed) ==
  [k \in Index |-> [i \in Index |-> [j \in Index |-> Entry(seed, 25 * k + 5 * i + j)]]]
Matrix(seed) == [i \in Index |-> [j \in Index |-> Entry(seed, 5 * i + j)]]

\* A matrix whose pivots are the columns in pivots, multiplied by one with
\* zeros before its antidiagonal, so that rows have to be swapped.
PivotsIn(pivots, seed) ==
  LET pivot(r) == CHOOSE c \in pivots : Cardinality({d \in pivots : d < c}) = r
      echelon == [r \in Index |-> [c \in Index |->
        IF r >= Cardinality(pivots) \/ c < pivot(r) THEN 0
        ELSE IF c = pivot(r) THEN 1 ELSE Matrix(seed)[r][c]]]
      mixed == [r \in Index |-> [c \in Index |->
        IF r + c < N - 1 THEN 0 ELSE IF r + c = N - 1 THEN 1 ELSE Matrix(seed + 50)[r][c]]]
  IN pmod_mat_mul(mixed, echelon)

MCMatrices == {PivotsIn(pivots, seed) : pivots \in SUBSET Index, seed \in 1 .. 2}

\* Forms with some point that has a canonical form, and many that have none:
\* the path ends at each of its stages.
MCBaseForms ==
  {Form(s) : s \in {2, 5, 9, 13, 14, 23, 25, 26, 30, 32, 33, 43, 44, 59}}

Scaled(c) == [i \in Index |-> [j \in Index |-> IF i = j THEN c ELSE 0]]

MCSecrets ==
  {s \in {<<Matrix(11), Matrix(12), Matrix(13)>>, <<Matrix(21), Matrix(22), Matrix(23)>>,
          <<Scaled(3), Scaled(1), Scaled(5)>>} :
     \A i \in 1 .. 3 : pmod_mat_is_invertible(s[i])}

\* Enough vectors that some have corank one.
MCCandidates ==
  {[i \in Index |-> CASE i = 0 -> 1 [] i = 1 -> x [] i = 2 -> y [] OTHER -> i] :
     x \in Fq, y \in Fq}

MCStrays == {Zero, Unit(1), [i \in Index |-> 2]}

-----------------------------------------------------------------------------
NoMatrix == given = pmod_mat_identity /\ info = Started(given) /\ col = 0
NoList == in = <<>> /\ prefix = <<>> /\ acc = 0 /\ inverses = <<>> /\ batchResult = 1
NoRound ==
  /\ CallInit /\ a = None /\ committed = None /\ role = "signer"
  /\ base = None /\ secret = None

MCInit ==
  \/ running = "elimination" /\ ElimInit /\ NoList /\ NoRound
  \/ running = "batch" /\ BatchInit /\ NoMatrix /\ NoRound
  \/ running = "round" /\ Init /\ NoMatrix /\ NoList

MCNext ==
  /\ UNCHANGED running
  /\ \/ running = "elimination" /\ ElimStep /\ UNCHANGED <<batchVars, vars>>
     \/ running = "batch" /\ BatchNext /\ UNCHANGED <<elimVars, vars>>
     \/ running = "round" /\ Next /\ UNCHANGED <<elimVars, batchVars>>

MCSpec == MCInit /\ [][MCNext]_<<running, elimVars, batchVars, vars>>
=============================================================================
