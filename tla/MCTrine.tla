------------------------------ MODULE MCTrine ------------------------------
(***************************************************************************)
(* A small symbolic algebra for TrineProtocol.  A vector is the n-th       *)
(* candidate of a stream, possibly moved by an inverse matrix and scaled;  *)
(* a form is a base form, a base form pulled back, or a canonical form.    *)
(* The first candidate of a stream of the round seed "late" has no         *)
(* canonical form.                                                         *)
(***************************************************************************)
EXTENDS TrineInvariants

MCRoundSeeds == {"early", "late"}
MCSalts == {"t1"}
MCTwoSalts == {"t1", "t2"}
MCStrayDigests == {<<"stray", <<>>>>}

Unmoved == <<"unmoved", 0, Raw>>

MCCandidate(M, stream, n) ==
  [form |-> M, stream |-> stream, n |-> n, moved |-> Unmoved, scale |-> 1]
MCInverseTimes(A, v) == [v EXCEPT !.moved = A]
MCPullback(M, A, B, C) == <<"pullback", 0, <<M, A, B, C>>>>
MCHash(t) == <<"digest", t>>
MCPreimage(d) == d[2]

\* What a vector is a point of: the base form, or a form pulled back by the
\* matrices of the inverse that moved it.
OwnForm(v) ==
  IF v.moved = Unmoved THEN v.form
  ELSE Pullback(v.form, v.moved, <<"B", v.moved[2], v.moved[3]>>, <<"C", v.moved[2], v.moved[3]>>)

\* On a form it is not a point of, a vector gives no canonical form, or an
\* unrelated one.
MCCanonicalForm(M, v) ==
  IF M = OwnForm(v)
    THEN IF v.stream[3] = "late" /\ v.n = 0 THEN Degenerate
         ELSE <<"canonical", v.n, <<v.form, v.stream>>>>
    ELSE IF v.n = 0 THEN Degenerate ELSE <<"unrelated", v.n, <<M, v.form, v.stream>>>>

Bases == {BaseForm(PublicSeed(s)) : s \in SecretSeeds}
Matrices == {SecretMatrix(s, "A", i) : s \in SecretSeeds, i \in FormIndex}
Streams == {RoundStream(t, seed, j) : t \in Salts, seed \in RoundSeeds, j \in Rounds}

MCVectors ==
  [form : Bases, stream : Streams, n : Attempts,
   moved : Matrices \cup {Unmoved}, scale : {1, 2}]

MCKeyForms == Bases \cup {NonbaseForm(s, i) : s \in SecretSeeds, i \in FormIndex}
MCTriForms ==
  MCKeyForms \cup ({CanonicalForm(M, v) : M \in MCKeyForms, v \in Vectors} \ {Degenerate})

\* A response scaled by a unit, moved by another matrix, or another candidate.
MCAltered(v) ==
  {[v EXCEPT !.scale = 2]}
    \cup {[v EXCEPT !.moved = A] : A \in Matrices}
    \cup {[v EXCEPT !.n = n] : n \in Attempts}

MCMessages == {<<>>, <<"m">>}
MCOneMessage == {<<"m">>}
=============================================================================
