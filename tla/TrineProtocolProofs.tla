------------------------ MODULE TrineProtocolProofs ------------------------
(***************************************************************************)
(* The invariant of TrineInvariants is inductive, the safety properties of *)
(* TrineProtocol follow from it, and the library implements                *)
(* SignatureScheme.                                                        *)
(*                                                                         *)
(* First facts about the operators TrineProtocol is built from (the counts *)
(* that index the answers, the transcript, the candidates of a round).     *)
(* Then what each call keeps to itself (CallInv): every step of crypto_sign*)
(* and of crypto_sign_verify preserves what is known at its stage, and the *)
(* verification of a soundly issued signature retraces the rounds of       *)
(* crypto_sign.  Then what relates the calls to each other (AuthInv): the  *)
(* transcript crypto_sign_verify hashes is made of the message and of what *)
(* the answers lead to, so when no challenges collide it is the transcript *)
(* of an issued signature, and message, key, seeds and salt can be read off*)
(* it.                                                                     *)
(***************************************************************************)
EXTENDS TrineInvariants, FiniteSetTheorems, SequenceTheorems, TLAPS

-----------------------------------------------------------------------------
(* Counts of rounds.                                                        *)

\* The set counted by NonbaseBefore and BaseBefore is finite, and grows by the
\* round itself when the round is of the kind counted.
LEMMA CountOf ==
  ASSUME NEW P, P \in [Rounds -> BOOLEAN], NEW n \in 0 .. R
  PROVE  /\ IsFiniteSet({j \in 0 .. (n - 1) : P[j]})
         /\ Cardinality({j \in 0 .. (n - 1) : P[j]}) \in Nat
<1>1. IsFiniteSet(0 .. (n - 1))
  BY FS_Interval, ParametersAssumption
<1>2. {j \in 0 .. (n - 1) : P[j]} \subseteq 0 .. (n - 1)
  OBVIOUS
<1> QED
  BY <1>1, <1>2, FS_Subset, FS_CardinalityType

\* Passing one round adds one to the count of its kind.
LEMMA CountOfStep ==
  ASSUME NEW P, P \in [Rounds -> BOOLEAN], NEW n \in Rounds
  PROVE  Cardinality({j \in 0 .. n : P[j]})
           = Cardinality({j \in 0 .. (n - 1) : P[j]}) + IF P[n] THEN 1 ELSE 0
<1> DEFINE Before == {j \in 0 .. (n - 1) : P[j]}
           After == {j \in 0 .. n : P[j]}
<1>1. n \in Nat /\ n \in 0 .. R
  BY ParametersAssumption DEF Rounds
<1>2. IsFiniteSet(Before) /\ Cardinality(Before) \in Nat
  BY <1>1, CountOf
<1>3. P[n] => After = Before \cup {n} /\ n \notin Before
  BY <1>1
<1>4. ~P[n] => After = Before
  BY <1>1
<1>5. Cardinality(After) = Cardinality(Before) + IF P[n] THEN 1 ELSE 0
  <2> HIDE DEF Before, After
  <2>1. CASE P[n]
    BY <1>2, <1>3, <2>1, FS_AddElement
  <2>2. CASE ~P[n]
    BY <1>2, <1>4, <2>2
  <2> QED
    BY <2>1, <2>2
<1> QED
  BY <1>5

\* A round of the kind counted is not among the rounds before it, so the
\* count before it is below every later one.
LEMMA CountOfBelow ==
  ASSUME NEW P, P \in [Rounds -> BOOLEAN], NEW m \in 0 .. R, NEW n \in 0 .. (m - 1), P[n]
  PROVE  Cardinality({j \in 0 .. (n - 1) : P[j]}) < Cardinality({j \in 0 .. (m - 1) : P[j]})
<1>1. n \in Rounds /\ n \in 0 .. R /\ m \in Int /\ R \in Nat
  BY ParametersAssumption DEF Rounds
<1> DEFINE C(k) == {j \in 0 .. (k - 1) : P[j]}
<1>2. IsFiniteSet(C(m)) /\ Cardinality(C(m)) \in Nat /\ Cardinality(C(n)) \in Nat
  BY <1>1, CountOf
<1>3. {j \in 0 .. n : P[j]} \subseteq C(m)
  BY <1>1 DEF Rounds
<1>4. Cardinality({j \in 0 .. n : P[j]}) <= Cardinality(C(m))
  BY <1>2, <1>3, FS_Subset
<1>5. Cardinality({j \in 0 .. n : P[j]}) = Cardinality(C(n)) + 1
  BY <1>1, CountOfStep
<1> QED
  BY <1>2, <1>4, <1>5

IsNonbase(ch) == [j \in Rounds |-> ch[j] < X]
IsBase(ch) == [j \in Rounds |-> ch[j] = X]

LEMMA CountsAsSets ==
  ASSUME NEW ch \in ChallengeVectors, NEW n \in 0 .. R
  PROVE  /\ NonbaseBefore(ch, n) = Cardinality({j \in 0 .. (n - 1) : IsNonbase(ch)[j]})
         /\ BaseBefore(ch, n) = Cardinality({j \in 0 .. (n - 1) : IsBase(ch)[j]})
         /\ IsNonbase(ch) \in [Rounds -> BOOLEAN]
         /\ IsBase(ch) \in [Rounds -> BOOLEAN]
<1>1. n \in Int /\ n <= R /\ R \in Nat
  BY ParametersAssumption
<1>2. 0 .. (n - 1) \subseteq Rounds
  BY <1>1 DEF Rounds
<1>3. {j \in 0 .. (n - 1) : IsNonbase(ch)[j]} = {j \in 0 .. (n - 1) : ch[j] < X}
  BY <1>2 DEF IsNonbase
<1>4. {j \in 0 .. (n - 1) : IsBase(ch)[j]} = {j \in 0 .. (n - 1) : ch[j] = X}
  BY <1>2 DEF IsBase
<1>5. NonbaseBefore(ch, n) = Cardinality({j \in 0 .. (n - 1) : IsNonbase(ch)[j]})
  BY <1>3, Zenon DEF NonbaseBefore
<1>6. BaseBefore(ch, n) = Cardinality({j \in 0 .. (n - 1) : IsBase(ch)[j]})
  BY <1>4, Zenon DEF BaseBefore
<1>7. IsNonbase(ch) \in [Rounds -> BOOLEAN] /\ IsBase(ch) \in [Rounds -> BOOLEAN]
  BY DEF IsNonbase, IsBase
<1> QED
  BY <1>5, <1>6, <1>7

\* Nothing is answered before the first round.
LEMMA CountZero ==
  ASSUME NEW ch \in ChallengeVectors
  PROVE  NonbaseBefore(ch, 0) = 0 /\ BaseBefore(ch, 0) = 0
<1>1. {j \in 0 .. (0 - 1) : ch[j] < X} = {} /\ {j \in 0 .. (0 - 1) : ch[j] = X} = {}
  OBVIOUS
<1> QED
  BY <1>1, FS_EmptySet DEF NonbaseBefore, BaseBefore

\* A challenge is either a non-base form or the base form, and each round
\* advances the index of its kind alone.
LEMMA CountStep ==
  ASSUME NEW ch \in ChallengeVectors, NEW n \in Rounds
  PROVE  /\ NonbaseBefore(ch, n) \in Nat /\ BaseBefore(ch, n) \in Nat
         /\ ch[n] < X \/ ch[n] = X
         /\ NonbaseBefore(ch, n + 1) = NonbaseBefore(ch, n) + IF ch[n] < X THEN 1 ELSE 0
         /\ BaseBefore(ch, n + 1) = BaseBefore(ch, n) + IF ch[n] = X THEN 1 ELSE 0
<1>1. n \in Nat /\ n \in 0 .. R /\ n + 1 \in 0 .. R /\ R \in Nat /\ X \in Nat
      /\ (n + 1) - 1 = n
  BY ParametersAssumption DEF Rounds
<1>2. ch[n] \in 0 .. X
  BY DEF ChallengeVectors
<1>3. IsNonbase(ch)[n] = (ch[n] < X) /\ IsBase(ch)[n] = (ch[n] = X)
  BY DEF IsNonbase, IsBase
<1>4. \A k \in 0 .. R :
        /\ NonbaseBefore(ch, k) = Cardinality({j \in 0 .. (k - 1) : IsNonbase(ch)[j]})
        /\ BaseBefore(ch, k) = Cardinality({j \in 0 .. (k - 1) : IsBase(ch)[j]})
  BY CountsAsSets
<1>5. IsNonbase(ch) \in [Rounds -> BOOLEAN] /\ IsBase(ch) \in [Rounds -> BOOLEAN]
  BY <1>1, CountsAsSets
<1>6. NonbaseBefore(ch, n) \in Nat
  <2>1. Cardinality({j \in 0 .. (n - 1) : IsNonbase(ch)[j]}) \in Nat
    BY <1>1, <1>5, CountOf
  <2> QED
    BY <1>1, <1>4, <2>1, Zenon
<1>7. BaseBefore(ch, n) \in Nat
  <2>1. Cardinality({j \in 0 .. (n - 1) : IsBase(ch)[j]}) \in Nat
    BY <1>1, <1>5, CountOf
  <2> QED
    BY <1>1, <1>4, <2>1, Zenon
<1>8. NonbaseBefore(ch, n + 1) = Cardinality({j \in 0 .. n : IsNonbase(ch)[j]})
  BY <1>1, <1>4, Zenon
<1>9. BaseBefore(ch, n + 1) = Cardinality({j \in 0 .. n : IsBase(ch)[j]})
  BY <1>1, <1>4, Zenon
<1>10. NonbaseBefore(ch, n + 1) = NonbaseBefore(ch, n) + IF IsNonbase(ch)[n] THEN 1 ELSE 0
  BY <1>1, <1>4, <1>5, <1>8, CountOfStep, ZenonT(40)
<1>11. BaseBefore(ch, n + 1) = BaseBefore(ch, n) + IF IsBase(ch)[n] THEN 1 ELSE 0
  BY <1>1, <1>4, <1>5, <1>9, CountOfStep, ZenonT(40)
<1>12. NonbaseBefore(ch, n + 1) = NonbaseBefore(ch, n) + IF ch[n] < X THEN 1 ELSE 0
  BY <1>3, <1>10, Zenon
<1>13. BaseBefore(ch, n + 1) = BaseBefore(ch, n) + IF ch[n] = X THEN 1 ELSE 0
  BY <1>3, <1>11, Zenon
<1> QED
  BY <1>1, <1>2, <1>6, <1>7, <1>12, <1>13

\* The answer to a round lies before the answers to later rounds of its kind.
LEMMA CountMonotone ==
  ASSUME NEW ch \in ChallengeVectors, NEW m \in 0 .. R, NEW n \in 0 .. (m - 1)
  PROVE  /\ ch[n] < X => NonbaseBefore(ch, n) < NonbaseBefore(ch, m)
         /\ ch[n] = X => BaseBefore(ch, n) < BaseBefore(ch, m)
<1>1. n \in Rounds /\ n \in 0 .. R
  BY ParametersAssumption DEF Rounds
<1>2. IsNonbase(ch)[n] = (ch[n] < X) /\ IsBase(ch)[n] = (ch[n] = X)
  BY <1>1 DEF IsNonbase, IsBase
<1>3. \A k \in 0 .. R :
        /\ NonbaseBefore(ch, k) = Cardinality({j \in 0 .. (k - 1) : IsNonbase(ch)[j]})
        /\ BaseBefore(ch, k) = Cardinality({j \in 0 .. (k - 1) : IsBase(ch)[j]})
  BY CountsAsSets
<1>4. IsNonbase(ch) \in [Rounds -> BOOLEAN] /\ IsBase(ch) \in [Rounds -> BOOLEAN]
  BY <1>1, CountsAsSets
<1>5. ASSUME ch[n] < X
      PROVE  NonbaseBefore(ch, n) < NonbaseBefore(ch, m)
  <2>1. IsNonbase(ch)[n]
    BY <1>2, <1>5, Zenon
  <2>2. Cardinality({j \in 0 .. (n - 1) : IsNonbase(ch)[j]})
          < Cardinality({j \in 0 .. (m - 1) : IsNonbase(ch)[j]})
    BY <1>4, <2>1, CountOfBelow, Zenon
  <2> QED
    BY <1>1, <1>3, <2>2, Zenon
<1>6. ASSUME ch[n] = X
      PROVE  BaseBefore(ch, n) < BaseBefore(ch, m)
  <2>1. IsBase(ch)[n]
    BY <1>2, <1>6, Zenon
  <2>2. Cardinality({j \in 0 .. (n - 1) : IsBase(ch)[j]})
          < Cardinality({j \in 0 .. (m - 1) : IsBase(ch)[j]})
    BY <1>4, <2>1, CountOfBelow, Zenon
  <2> QED
    BY <1>1, <1>3, <2>2, Zenon
<1> QED
  BY <1>5, <1>6

\* With valid challenges every round finds room for its answer.
LEMMA CountBelow ==
  ASSUME NEW ch \in ChallengeVectors, ChallengesValid(ch), NEW n \in Rounds
  PROVE  /\ ch[n] < X => NonbaseBefore(ch, n) < K
         /\ ch[n] = X => BaseBefore(ch, n) < BaseSeedCount
<1>1. R \in 0 .. R /\ n \in 0 .. (R - 1)
  BY ParametersAssumption DEF Rounds
<1> QED
  BY <1>1, CountMonotone DEF ChallengesValid

-----------------------------------------------------------------------------
(* The answers.                                                             *)

LEMMA AnsweredNone ==
  ASSUME NEW ch \in ChallengeVectors, NEW s, NEW seeds, NEW points
  PROVE  Answered(s, ch, seeds, points, <<>>, <<>>, 0)
BY CountZero DEF Answered

\* A response extends the answers by its round, and disturbs no other.
LEMMA AnsweredByResponse ==
  ASSUME NEW ch \in ChallengeVectors, NEW n \in Rounds, ch[n] < X,
         NEW V, NEW resp \in Seq(V), NEW revealed, NEW s, NEW seeds, NEW points,
         Answered(s, ch, seeds, points, resp, revealed, n),
         NEW v, v = InverseTimes(SecretMatrix(s, "A", ch[n]), points[n])
  PROVE  Answered(s, ch, seeds, points, Append(resp, v), revealed, n + 1)
<1>1. n \in 0 .. R /\ n \in Nat /\ R \in Nat /\ X \in Nat /\ ch[n] # X
  BY ParametersAssumption DEF Rounds, ChallengeVectors
<1>2. /\ NonbaseBefore(ch, n + 1) = NonbaseBefore(ch, n) + 1
      /\ BaseBefore(ch, n + 1) = BaseBefore(ch, n)
      /\ NonbaseBefore(ch, n) \in Nat /\ BaseBefore(ch, n) \in Nat
  BY <1>1, CountStep
<1>3. Len(resp) = NonbaseBefore(ch, n) /\ Len(revealed) = BaseBefore(ch, n)
  BY DEF Answered
<1>4. Len(Append(resp, v)) = NonbaseBefore(ch, n + 1)
  BY <1>2, <1>3
<1>5. ASSUME NEW j \in 0 .. (n - 1)
      PROVE  /\ ch[j] < X => Append(resp, v)[NonbaseBefore(ch, j) + 1]
                               = InverseTimes(SecretMatrix(s, "A", ch[j]), points[j])
             /\ ch[j] = X => revealed[BaseBefore(ch, j) + 1] = seeds[j]
  <2>1. j \in Rounds
    BY <1>1 DEF Rounds
  <2>2. NonbaseBefore(ch, j) \in Nat
    BY <2>1, CountStep
  <2>3. ch[j] < X => NonbaseBefore(ch, j) < NonbaseBefore(ch, n)
    BY <1>1, CountMonotone
  <2>4. ch[j] < X => NonbaseBefore(ch, j) + 1 \in 1 .. Len(resp)
    BY <1>2, <1>3, <2>2, <2>3
  <2>5. \A i \in 1 .. Len(resp) : Append(resp, v)[i] = resp[i]
    OBVIOUS
  <2>6. /\ ch[j] < X => resp[NonbaseBefore(ch, j) + 1]
                         = InverseTimes(SecretMatrix(s, "A", ch[j]), points[j])
        /\ ch[j] = X => revealed[BaseBefore(ch, j) + 1] = seeds[j]
    BY Zenon DEF Answered
  <2> QED
    BY <2>4, <2>5, <2>6
<1>6. Append(resp, v)[NonbaseBefore(ch, n) + 1] = v
  BY <1>2, <1>3
<1>7. \A j \in 0 .. ((n + 1) - 1) : j = n \/ j \in 0 .. (n - 1)
  BY <1>1
<1> QED
  BY <1>1, <1>2, <1>3, <1>4, <1>5, <1>6, <1>7 DEF Answered

\* So does a revealed seed.
LEMMA AnsweredBySeed ==
  ASSUME NEW ch \in ChallengeVectors, NEW n \in Rounds, ch[n] = X,
         NEW V, NEW revealed \in Seq(V), NEW resp, NEW s, NEW seeds, NEW points,
         Answered(s, ch, seeds, points, resp, revealed, n)
  PROVE  Answered(s, ch, seeds, points, resp, Append(revealed, seeds[n]), n + 1)
<1>1. n \in 0 .. R /\ n \in Nat /\ R \in Nat /\ X \in Nat /\ ~(ch[n] < X)
  BY ParametersAssumption DEF Rounds, ChallengeVectors
<1>2. /\ BaseBefore(ch, n + 1) = BaseBefore(ch, n) + 1
      /\ NonbaseBefore(ch, n + 1) = NonbaseBefore(ch, n)
      /\ NonbaseBefore(ch, n) \in Nat /\ BaseBefore(ch, n) \in Nat
  BY <1>1, CountStep
<1>3. Len(resp) = NonbaseBefore(ch, n) /\ Len(revealed) = BaseBefore(ch, n)
  BY DEF Answered
<1>4. Len(Append(revealed, seeds[n])) = BaseBefore(ch, n + 1)
  BY <1>2, <1>3
<1>5. ASSUME NEW j \in 0 .. (n - 1)
      PROVE  /\ ch[j] < X => resp[NonbaseBefore(ch, j) + 1]
                               = InverseTimes(SecretMatrix(s, "A", ch[j]), points[j])
             /\ ch[j] = X => Append(revealed, seeds[n])[BaseBefore(ch, j) + 1] = seeds[j]
  <2>1. j \in Rounds
    BY <1>1 DEF Rounds
  <2>2. BaseBefore(ch, j) \in Nat
    BY <2>1, CountStep
  <2>3. ch[j] = X => BaseBefore(ch, j) < BaseBefore(ch, n)
    BY <1>1, CountMonotone
  <2>4. ch[j] = X => BaseBefore(ch, j) + 1 \in 1 .. Len(revealed)
    BY <1>2, <1>3, <2>2, <2>3
  <2>5. \A i \in 1 .. Len(revealed) : Append(revealed, seeds[n])[i] = revealed[i]
    OBVIOUS
  <2>6. /\ ch[j] < X => resp[NonbaseBefore(ch, j) + 1]
                         = InverseTimes(SecretMatrix(s, "A", ch[j]), points[j])
        /\ ch[j] = X => revealed[BaseBefore(ch, j) + 1] = seeds[j]
    BY Zenon DEF Answered
  <2> QED
    BY <2>4, <2>5, <2>6
<1>6. Append(revealed, seeds[n])[BaseBefore(ch, n) + 1] = seeds[n]
  BY <1>2, <1>3
<1>7. \A j \in 0 .. ((n + 1) - 1) : j = n \/ j \in 0 .. (n - 1)
  BY <1>1
<1> QED
  BY <1>1, <1>2, <1>3, <1>4, <1>5, <1>6, <1>7 DEF Answered

-----------------------------------------------------------------------------
(* The transcript.                                                          *)

LEMMA MessageChunkType ==
  ASSUME NEW msg \in Messages
  PROVE  MessageChunk(msg) \in Seq(Chunks)
<1>1. <<msg>> \in Seq(Chunks)
  BY DEF Chunks
<1>2. <<>> \in Seq(Chunks)
  OBVIOUS
<1> QED
  BY <1>1, <1>2, Zenon DEF MessageChunk

\* Before the first round the transcript is the message.
LEMMA TranscriptZero ==
  ASSUME NEW msg \in Messages, NEW s, NEW points
  PROVE  TranscriptOf(msg, s, points, 0) = MessageChunk(msg)
<1>1. [i \in 1 .. 0 |-> CanonicalForm(BaseOf(s), points[i - 1])] = <<>>
  OBVIOUS
<1> QED
  BY <1>1, MessageChunkType, ConcatEmptySeq DEF TranscriptOf, Transcript

\* Absorbing the canonical form of round n extends the transcript by it.
LEMMA TranscriptStep ==
  ASSUME NEW msg \in Messages, NEW s, NEW points, NEW n \in Nat
  PROVE  TranscriptOf(msg, s, points, n + 1)
           = Append(TranscriptOf(msg, s, points, n), CanonicalForm(BaseOf(s), points[n]))
<1> DEFINE M == MessageChunk(msg)
           f[i \in 1 .. n] == CanonicalForm(BaseOf(s), points[i - 1])
           g[i \in 1 .. (n + 1)] == CanonicalForm(BaseOf(s), points[i - 1])
<1>1. M \in Seq(Chunks) /\ Len(M) \in Nat /\ DOMAIN M = 1 .. Len(M)
  BY MessageChunkType
<1> QED
  BY <1>1 DEF TranscriptOf, Transcript

\* Only the points of the rounds absorbed matter.
LEMMA TranscriptAgree ==
  ASSUME NEW msg, NEW s, NEW p, NEW q, NEW n \in Nat,
         \A j \in 0 .. (n - 1) : p[j] = q[j]
  PROVE  TranscriptOf(msg, s, p, n) = TranscriptOf(msg, s, q, n)
<1>1. \A i \in 1 .. n : p[i - 1] = q[i - 1]
  OBVIOUS
<1>2. [i \in 1 .. n |-> CanonicalForm(BaseOf(s), p[i - 1])]
        = [i \in 1 .. n |-> CanonicalForm(BaseOf(s), q[i - 1])]
  BY <1>1
<1> QED
  BY <1>2 DEF TranscriptOf, Transcript

-----------------------------------------------------------------------------
(* Candidates.                                                              *)

\* A stream has one first usable candidate: whoever looks for it from the
\* beginning finds the same one.
LEMMA FirstUsableUnique ==
  ASSUME NEW s, NEW t, NEW seed, NEW round, NEW v, NEW n \in Attempts,
         Usable(s, v), IsFirstUsable(s, t, seed, round, v),
         AllUnusable(s, t, seed, round, n),
         Usable(s, StreamCandidate(s, t, seed, round, n))
  PROVE  v = StreamCandidate(s, t, seed, round, n)
<1>1. PICK m \in Attempts : v = StreamCandidate(s, t, seed, round, m)
                            /\ AllUnusable(s, t, seed, round, m)
  BY DEF IsFirstUsable
<1>2. m \in Nat /\ n \in Nat
  BY ParametersAssumption, BoundAssumption DEF Attempts
<1>3. ~(m < n)
  BY <1>1, <1>2 DEF AllUnusable
<1>4. ~(n < m)
  BY <1>1, <1>2 DEF AllUnusable
<1> QED
  BY <1>1, <1>2, <1>3, <1>4

\* Drawing one unusable candidate more.
LEMMA UnusableStep ==
  ASSUME NEW s, NEW t, NEW seed, NEW round, NEW n \in Nat,
         AllUnusable(s, t, seed, round, n),
         ~Usable(s, StreamCandidate(s, t, seed, round, n))
  PROVE  AllUnusable(s, t, seed, round, n + 1)
BY DEF AllUnusable

\* Every candidate the signer can look at is one of the key's points.
LEMMA CandidateIsPoint ==
  ASSUME NEW s \in SecretSeeds, NEW t \in Salts, NEW seed \in RoundSeeds,
         NEW j \in Rounds, NEW n \in Attempts
  PROVE  /\ StreamCandidate(s, t, seed, j, n) \in RoundPoints(s)
         /\ RoundPoints(s) \subseteq Vectors
BY AlgebraAssumption DEF StreamCandidate, RoundPoints, BaseOf

\* The canonical form at a usable point is a form.
LEMMA UsableForm ==
  ASSUME NEW s \in SecretSeeds, NEW v \in Vectors, Usable(s, v)
  PROVE  CanonicalForm(BaseOf(s), v) \in TriForms
BY AlgebraAssumption DEF Usable, BaseOf

-----------------------------------------------------------------------------
(* The oracle.                                                              *)

\* What was parsed once is parsed to the same challenges for ever.
OracleGrows ==
  /\ OracleType'
  /\ DOMAIN oracle \subseteq DOMAIN oracle'
  /\ \A d \in DOMAIN oracle : oracle'[d] = oracle[d]

LEMMA ParseGrows ==
  ASSUME OracleType, NEW digest, NEW ch, ParseHash(digest, ch)
  PROVE  OracleGrows /\ digest \in DOMAIN oracle' /\ oracle'[digest] = ch
         /\ ch \in ChallengeVectors
BY DEF OracleGrows, OracleType, ParseHash, Challenges

LEMMA UnchangedGrows ==
  ASSUME OracleType, UNCHANGED oracle
  PROVE  OracleGrows
BY DEF OracleGrows, OracleType
-----------------------------------------------------------------------------
(* The steps of crypto_sign.                                               *)

SInv == OracleType /\ SignTypeOK /\ SignInv

\* While nothing of crypto_sign moves, a growing oracle disturbs nothing.
LEMMA SignFrame ==
  ASSUME SInv, UNCHANGED signVars, OracleGrows
  PROVE  SInv'
<1> USE DEF signVars, signInput, signRandom, signRounds, signHash, signAnswers, signOutput
<1>1. SignTypeOK'
  BY ZenonT(40) DEF SInv, SignTypeOK
<1>2. SignResources' /\ SignOutputs' /\ SignInputs' /\ SignStart'
  BY DEF SInv, SignInv, SignResources, SignOutputs, SignInputs, SignStart, HasKey, HasSalt,
         HasSeeds, HasChallenge, Committing, Published
<1>3. SignCommitting'
  BY DEF SInv, SignInv, SignCommitting, Committing
<1>4. SignResponding'
  BY DEF SInv, SignInv, SignResponding, HasChallenge, Published, OracleGrows
<1>5. SignPublished'
  BY DEF SInv, SignInv, SignPublished, Published
<1> QED
  BY <1>1, <1>2, <1>3, <1>4, <1>5 DEF SInv, SignInv, OracleGrows

\* The call.
LEMMA SignCallInv ==
  ASSUME SInv, UNCHANGED oracle, NEW k \in SecretSeeds, NEW msg \in Messages, NEW bad \in BOOLEAN,
         SignCall(k, msg, bad)
  PROVE  SInv'
<1> USE DEF signVars, signRandom, signRounds, signHash, signAnswers, SignCall
<1>1. SignTypeOK'
  BY DEF SInv, SignTypeOK
<1>2. SignResources'
  BY DEF SInv, SignInv, SignResources
<1>3. SignOutputs' /\ SignInputs' /\ SignStart'
  BY DEF SInv, SignInv, SignOutputs, SignInputs, SignStart, HasKey, HasSalt, HasSeeds,
         HasChallenge, Committing, Published
<1>4. SignCommitting' /\ SignResponding' /\ SignPublished' /\ OracleType'
  BY DEF SignCommitting, SignResponding, SignPublished, Committing, HasChallenge, Published,
         SInv, OracleType
<1> QED
  BY <1>1, <1>2, <1>3, <1>4 DEF SInv, SignInv

\* The allocation, and the stages that draw and expand.
LEMMA SignPrepares ==
  ASSUME SInv, UNCHANGED oracle,
         SignAlloc \/ SignExpand \/ SignSalt \/ SignSeeds \/ SignHashInit
  PROVE  SInv'
<1> USE DEF signVars, signInput, signRandom, signRounds, signHash, signAnswers, signOutput,
            SignAlloc, SignExpand, SignSalt, SignSeeds, SignHashInit
<1>1. SignTypeOK'
  <2>1. CASE SignAlloc \/ SignExpand \/ SignHashInit
    BY <2>1 DEF SInv, SignTypeOK, SignBuffers
  <2>2. CASE SignSalt
    BY <2>2 DEF SInv, SignTypeOK
  <2>3. CASE SignSeeds
    BY <2>3 DEF SInv, SignTypeOK
  <2> QED
    BY <2>1, <2>2, <2>3
<1>2. SignResources'
  <2>1. CASE SignAlloc
    BY <2>1 DEF SInv, SignInv, SignResources, SignBuffers
  <2>2. CASE SignHashInit
    BY <2>2 DEF SInv, SignInv, SignResources
  <2>3. CASE SignExpand \/ SignSalt \/ SignSeeds
    <3>1. /\ sHeld' = sHeld /\ sActive' = sActive
          /\ spc \notin {"idle", "alloc", "commit"} /\ spc' \notin {"idle", "alloc", "commit"}
      BY <2>3
    <3> QED
      BY <3>1 DEF SInv, SignInv, SignResources
  <2> QED
    BY <2>1, <2>2, <2>3
<1>3. SignOutputs'
  BY DEF SInv, SignInv, SignOutputs
<1>4. SignInputs'
  <2> USE DEF SInv, SignInv, SignInputs, HasKey, HasSalt, HasSeeds, HasChallenge, Committing,
              Published, SignOutputs
  <2>1. CASE SignAlloc \/ SignExpand
    BY <2>1
  <2>2. CASE SignSalt
    BY <2>2
  <2>3. CASE SignSeeds
    BY <2>3
  <2>4. CASE SignHashInit
    BY <2>4
  <2> QED
    BY <2>1, <2>2, <2>3, <2>4
<1>5. SignStart'
  BY DEF SInv, SignInv, SignStart
<1>6. spc' \in {"expand", "salt", "seeds", "hash", "message"}
  OBVIOUS
<1>7. SignCommitting' /\ SignResponding' /\ SignPublished'
  BY <1>6 DEF SignCommitting, SignResponding, SignPublished, Committing, HasChallenge, Published
<1>8. OracleType'
  BY DEF SInv, OracleType
<1> QED
  BY <1>1, <1>2, <1>3, <1>4, <1>5, <1>7, <1>8 DEF SInv, SignInv

\* The message opens the transcript.
LEMMA SignMessageInv ==
  ASSUME SInv, UNCHANGED oracle, SignMessage
  PROVE  SInv'
<1> USE DEF SignMessage, signInput, signRandom, signRounds, signAnswers, signOutput
<1>1. sMsg \in Messages /\ sRound = 0 /\ sAttempt = 0 /\ skipped = {} /\ R \in Nat \ {0}
      /\ responses = <<>> /\ baseSeeds = <<>> /\ inverseReady = {}
  BY ParametersAssumption DEF SInv, SignInv, SignInputs, SignStart, HasKey, HasSalt, HasSeeds
<1>2. sTranscript' \in Seq(Chunks)
  BY <1>1, MessageChunkType
<1>3. SignTypeOK'
  BY <1>2 DEF SInv, SignTypeOK
<1>4. SignResources' /\ SignOutputs' /\ SignInputs' /\ SignStart'
  BY DEF SInv, SignInv, SignResources, SignOutputs, SignInputs, SignStart, HasKey, HasSalt,
         HasSeeds, HasChallenge, Committing, Published
<1>5. SignCommitting'
  <2>1. sTranscript' = TranscriptOf(sMsg, secretSeed, aAll, 0)
    BY <1>1, TranscriptZero
  <2>2. AllUnusable(secretSeed, salt, roundSeeds[0], 0, 0)
    BY DEF AllUnusable
  <2>3. Committed(secretSeed, salt, roundSeeds, aAll, {}, 0)
    BY DEF Committed
  <2> QED
    BY <1>1, <2>1, <2>2, <2>3 DEF SignCommitting
<1>6. SignResponding' /\ SignPublished' /\ OracleType'
  BY DEF SignResponding, SignPublished, HasChallenge, Published, SInv, OracleType
<1> QED
  BY <1>3, <1>4, <1>5, <1>6 DEF SInv, SignInv

-----------------------------------------------------------------------------
(* The commitment phase.                                                    *)

\* The candidate looked at is a point of the key.
LEMMA RoundCandidateIsPoint ==
  ASSUME SInv, spc = "commit"
  PROVE  /\ RoundCandidate = StreamCandidate(secretSeed, salt, roundSeeds[sRound], sRound, sAttempt)
         /\ RoundCandidate \in RoundPoints(secretSeed) /\ RoundCandidate \in Vectors
         /\ SignBase = BaseOf(secretSeed)
         /\ sRound \in Rounds /\ sAttempt \in Nat /\ R \in Nat
<1>1. /\ secretSeed \in SecretSeeds /\ salt \in Salts /\ roundSeeds \in [Rounds -> RoundSeeds]
      /\ sRound < R
  BY DEF SInv, SignInv, SignInputs, HasKey, HasSalt, HasSeeds, Committing, SignCommitting
<1>2. sRound \in Rounds /\ sAttempt \in Attempts /\ sAttempt \in Nat /\ R \in Nat
  <2>1. sRound \in 0 .. R /\ sAttempt \in Attempts
    BY DEF SInv, SignTypeOK
  <2> QED
    BY <1>1, <2>1, ParametersAssumption, BoundAssumption DEF Rounds, Attempts
<1>3. SignBase = BaseOf(secretSeed)
  BY DEF SignBase, BaseOf
<1>4. RoundCandidate = StreamCandidate(secretSeed, salt, roundSeeds[sRound], sRound, sAttempt)
  BY <1>3 DEF RoundCandidate, StreamCandidate
<1> QED
  BY <1>1, <1>2, <1>3, <1>4, CandidateIsPoint

\* A rejected candidate was unusable; a candidate passed over marks its round.
LEMMA SignRejects ==
  ASSUME SInv, UNCHANGED oracle, SignRejectCandidate \/ SignPassOverCandidate
  PROVE  SInv'
<1>1. /\ spc = "commit" /\ spc' = "commit" /\ sAttempt' = sAttempt + 1 /\ sAttempt < MaxAttempts
      /\ sHeld' = sHeld \cup {"round xof"} /\ skipped \subseteq skipped'
      /\ skipped' \in {skipped, skipped \cup {sRound}}
      /\ UNCHANGED <<sRound, aAll, signInput, signRandom, signHash, signAnswers, signOutput>>
  BY DEF SignRejectCandidate, SignPassOverCandidate
<1> USE DEF signInput, signRandom, signHash, signAnswers, signOutput
<1>2. /\ RoundCandidate = StreamCandidate(secretSeed, salt, roundSeeds[sRound], sRound, sAttempt)
      /\ SignBase = BaseOf(secretSeed)
      /\ sRound \in Rounds /\ sAttempt \in Nat /\ R \in Nat /\ MaxAttempts \in Nat
  BY <1>1, RoundCandidateIsPoint, ParametersAssumption, BoundAssumption
<1>3. SignTypeOK'
  <2>1. sAttempt' \in Attempts
    <3>1. sAttempt' = sAttempt + 1 /\ sAttempt < MaxAttempts
      BY <1>1
    <3> QED
      BY <1>2, <3>1 DEF Attempts
  <2>2. skipped' \subseteq Rounds /\ sHeld' \subseteq SignBuffers \cup {"transcript", "round xof"}
    BY <1>1, <1>2 DEF SInv, SignTypeOK
  <2> QED
    BY <1>1, <2>1, <2>2 DEF SInv, SignTypeOK
<1>4. SignResources'
  <2>1. sActive' = sActive /\ sHeld' = sHeld \cup {"round xof"} /\ spc = "commit" /\ spc' = "commit"
    BY <1>1
  <2>2. "transcript" \in sHeld' <=> "transcript" \in sHeld
    BY <2>1
  <2> QED
    BY <2>1, <2>2 DEF SInv, SignInv, SignResources
<1>5. SignOutputs' /\ SignInputs' /\ SignStart'
  BY <1>1 DEF SInv, SignInv, SignOutputs, SignInputs, SignStart, HasKey, HasSalt, HasSeeds,
         HasChallenge, Committing, Published
<1>6. SignCommitting'
  <2>1. sRound' \notin skipped' =>
          AllUnusable(secretSeed, salt, roundSeeds[sRound], sRound, sAttempt + 1)
    <3>1. CASE SignRejectCandidate /\ sRound \notin skipped
      <4>1. AllUnusable(secretSeed, salt, roundSeeds[sRound], sRound, sAttempt)
        BY <1>1, <3>1 DEF SInv, SignInv, SignCommitting, Committing
      <4>2. ~Usable(secretSeed,
                    StreamCandidate(secretSeed, salt, roundSeeds[sRound], sRound, sAttempt))
        BY <1>2, <3>1 DEF Usable, SignRejectCandidate
      <4> QED
        BY <1>1, <1>2, <4>1, <4>2, UnusableStep
    <3>2. CASE sRound \in skipped \/ SignPassOverCandidate
      BY <1>1, <3>2 DEF SignPassOverCandidate
    <3> QED
      BY <3>1, <3>2
  <2>2. skipped \subseteq skipped' /\ skipped' \subseteq 0 .. sRound
    <3>1. skipped \subseteq 0 .. sRound
      BY <1>1 DEF SInv, SignInv, SignCommitting, Committing
    <3>2. sRound \in 0 .. sRound
      BY <1>2 DEF Rounds
    <3> QED
      BY <1>1, <3>1, <3>2
  <2>3. Committed(secretSeed, salt, roundSeeds, aAll, skipped', sRound)
    BY <1>1, <2>2 DEF SInv, SignInv, SignCommitting, Committing, Committed
  <2> QED
    BY <1>1, <1>2, <2>1, <2>2, <2>3 DEF SInv, SignInv, SignCommitting, Committing
<1>7. SignResponding' /\ SignPublished' /\ OracleType'
  BY <1>1 DEF SignResponding, SignPublished, HasChallenge, Published, SInv, OracleType
<1> QED
  BY <1>3, <1>4, <1>5, <1>6, <1>7 DEF SInv, SignInv

\* A commitment extends the transcript and the list of points by its round.
LEMMA SignCommitInv ==
  ASSUME SInv, UNCHANGED oracle, SignCommit
  PROVE  SInv'
<1> USE DEF signInput, signRandom, signAnswers, signOutput
<1>1. spc = "commit" /\ sAttempt' = 0 /\ sRound' = sRound + 1 /\ skipped' = skipped
      /\ secretSeed' = secretSeed /\ salt' = salt /\ roundSeeds' = roundSeeds /\ sMsg' = sMsg
      /\ spc' = (IF sRound + 1 = R THEN "digest" ELSE "commit")
      /\ aAll' = [aAll EXCEPT ![sRound] = RoundCandidate]
      /\ sTranscript' = Append(sTranscript, CanonicalForm(SignBase, RoundCandidate))
      /\ CanonicalForm(SignBase, RoundCandidate) # Degenerate
  BY DEF SignCommit
<1>2. /\ RoundCandidate = StreamCandidate(secretSeed, salt, roundSeeds[sRound], sRound, sAttempt)
      /\ RoundCandidate \in RoundPoints(secretSeed) /\ RoundCandidate \in Vectors
      /\ SignBase = BaseOf(secretSeed)
      /\ sRound \in Rounds /\ sAttempt \in Nat /\ R \in Nat
  BY <1>1, RoundCandidateIsPoint
<1>3. secretSeed \in SecretSeeds /\ sMsg \in Messages
  BY <1>1 DEF SInv, SignInv, SignInputs, HasKey, HasSalt, HasSeeds, Committing
<1>4. sRound + 1 \in 0 .. R /\ (spc' = "commit" => sRound + 1 < R)
      /\ (spc' # "commit" => sRound + 1 = R)
  BY <1>1, <1>2 DEF Rounds
<1>5. Usable(secretSeed, RoundCandidate)
  BY <1>1, <1>2 DEF Usable
<1>6. SignTypeOK'
  <2>1. CanonicalForm(SignBase, RoundCandidate) \in Chunks
    BY <1>2, <1>3, <1>5, UsableForm DEF Chunks
  <2>2. sTranscript' \in Seq(Chunks)
    <3>1. sTranscript \in Seq(Chunks)
      BY DEF SInv, SignTypeOK
    <3> QED
      BY <1>1, <2>1, <3>1
  <2>3. aAll' \in [Rounds -> Vectors \cup {Raw}]
    BY <1>1, <1>2 DEF SInv, SignTypeOK
  <2>4. sAttempt' \in Attempts
    BY <1>1, ParametersAssumption, BoundAssumption DEF Attempts
  <2> QED
    BY <1>1, <1>4, <2>2, <2>3, <2>4 DEF SInv, SignTypeOK, SignCommit
<1>7. SignResources'
  BY <1>1 DEF SInv, SignInv, SignResources, SignCommit
<1>8. SignOutputs' /\ SignInputs' /\ SignStart'
  BY DEF SInv, SignInv, SignOutputs, SignInputs, SignStart, HasKey, HasSalt, HasSeeds,
         HasChallenge, Committing, Published, SignCommit
<1>9. SignCommitting'
  <2> DEFINE p == aAll'
  <2> aAll \in [Rounds -> Vectors \cup {Raw}]
    BY DEF SInv, SignTypeOK
  <2>1. \A j \in 0 .. (sRound - 1) : p[j] = aAll[j]
    BY <1>1, <1>2 DEF Rounds
  <2>2. p[sRound] = RoundCandidate
    BY <1>1, <1>2
  <2>3. /\ Committed(secretSeed, salt, roundSeeds, aAll, skipped, sRound)
        /\ sTranscript = TranscriptOf(sMsg, secretSeed, aAll, sRound)
        /\ sRound \notin skipped =>
             AllUnusable(secretSeed, salt, roundSeeds[sRound], sRound, sAttempt)
        /\ skipped \subseteq 0 .. sRound
        /\ responses = <<>> /\ baseSeeds = <<>> /\ inverseReady = {}
    BY <1>1 DEF SInv, SignInv, SignCommitting, Committing
  <2>4. sAttempt \in Attempts
    BY DEF SInv, SignTypeOK
  <2>5. IsCandidate(secretSeed, salt, roundSeeds[sRound], sRound, p[sRound])
    BY <1>2, <2>2, <2>4 DEF IsCandidate
  <2>15. sRound \notin skipped =>
          IsFirstUsable(secretSeed, salt, roundSeeds[sRound], sRound, p[sRound])
    BY <1>2, <2>2, <2>3, <2>4 DEF IsFirstUsable
  <2>6. \A j \in 0 .. ((sRound + 1) - 1) : j = sRound \/ j \in 0 .. (sRound - 1)
    BY <1>2 DEF Rounds
  <2>7. Committed(secretSeed, salt, roundSeeds, p, skipped, sRound + 1)
    BY <1>2, <1>5, <2>1, <2>2, <2>3, <2>5, <2>6, <2>15 DEF Committed
  <2>8. sRound \in Nat
    BY <1>2 DEF Rounds
  <2>9. TranscriptOf(sMsg, secretSeed, p, sRound) = TranscriptOf(sMsg, secretSeed, aAll, sRound)
    BY <2>1, <2>8, TranscriptAgree
  <2>10. TranscriptOf(sMsg, secretSeed, p, sRound + 1)
           = Append(TranscriptOf(sMsg, secretSeed, p, sRound),
                    CanonicalForm(BaseOf(secretSeed), p[sRound]))
    BY <1>3, <2>8, TranscriptStep
  <2>11. sTranscript' = TranscriptOf(sMsg, secretSeed, p, sRound + 1)
    BY <1>1, <1>2, <2>2, <2>3, <2>9, <2>10
  <2>12. AllUnusable(secretSeed, salt, roundSeeds[sRound + 1], sRound + 1, 0)
    BY DEF AllUnusable
  <2>13. skipped \subseteq 0 .. (sRound + 1)
    BY <2>3, <2>8
  <2>14. spc' # "parse" /\ responses' = <<>> /\ baseSeeds' = <<>> /\ inverseReady' = {}
    BY <1>1, <2>3 DEF SignCommit
  <2> HIDE DEF p
  <2> QED
    BY <1>1, <1>4, <2>7, <2>11, <2>12, <2>13, <2>14 DEF SignCommitting, p
<1>10. SignResponding' /\ SignPublished' /\ OracleType'
  BY <1>1 DEF SignResponding, SignPublished, HasChallenge, Published, SInv, OracleType
<1> QED
  BY <1>6, <1>7, <1>8, <1>9, <1>10 DEF SInv, SignInv

\* The digest is that of the transcript of all rounds.
LEMMA SignDigestInv ==
  ASSUME SInv, UNCHANGED oracle, SignDigest
  PROVE  SInv'
<1> USE DEF signInput, signRandom, signRounds, signAnswers, signOutput, SignDigest
<1>1. SignTypeOK'
  BY DEF SInv, SignTypeOK
<1>2. SignResources'
  BY DEF SInv, SignInv, SignResources
<1>3. SignOutputs' /\ SignInputs' /\ SignStart'
  BY DEF SInv, SignInv, SignOutputs, SignInputs, SignStart, HasKey, HasSalt, HasSeeds,
         HasChallenge, Committing, Published
<1>4. SignCommitting'
  BY DEF SInv, SignInv, SignCommitting, Committing
<1>5. SignResponding' /\ SignPublished' /\ OracleType'
  BY DEF SignResponding, SignPublished, HasChallenge, Published, SInv, OracleType
<1> QED
  BY <1>1, <1>2, <1>3, <1>4, <1>5 DEF SInv, SignInv

\* The challenges are those the oracle gives the digest, now and later.
LEMMA SignParseInv ==
  ASSUME SInv, SignParse
  PROVE  SInv' /\ OracleGrows
<1>1. PICK ch \in Challenges :
        /\ ParseHash(sDigest, ch) /\ sChallenges' = ch
        /\ spc' = (IF ChallengesValid(ch) THEN "respond" ELSE "cleanup")
  BY DEF SignParse
<1>2. /\ spc = "parse" /\ sRound' = 0
      /\ UNCHANGED <<sAttempt, aAll, sTranscript, sActive, sDigest, sHeld, skipped,
                     signInput, signRandom, signAnswers, signOutput>>
  BY DEF SignParse
<1>3. OracleGrows /\ sDigest \in DOMAIN oracle' /\ oracle'[sDigest] = ch
      /\ ch \in ChallengeVectors
  BY <1>1, ParseGrows DEF SInv
<1> USE DEF signInput, signRandom, signAnswers, signOutput
<1>4. SignTypeOK'
  <2>1. 0 \in 0 .. R
    BY ParametersAssumption
  <2>2. spc' \in {"respond", "cleanup"} /\ sChallenges' \in ChallengeVectors /\ sRound' \in 0 .. R
    BY <1>1, <1>2, <1>3, <2>1
  <2> QED
    BY <1>2, <2>2 DEF SInv, SignTypeOK
<1>5. SignResources'
  <2>1. sActive' = sActive /\ sHeld' = sHeld /\ spc = "parse" /\ spc' \in {"respond", "cleanup"}
    BY <1>1, <1>2
  <2> QED
    BY <2>1 DEF SInv, SignInv, SignResources
<1>6. SignOutputs' /\ SignStart'
  BY <1>1, <1>2 DEF SInv, SignInv, SignOutputs, SignStart
<1>7. SignInputs'
  BY <1>1, <1>2 DEF SInv, SignInv, SignInputs, SignOutputs, HasKey, HasSalt, HasSeeds,
         HasChallenge, Committing, Published
<1>8. ~Committing' /\ ~Published'
  BY <1>1, <1>2 DEF SInv, SignInv, SignOutputs, Committing, Published
<1>9. SignResponding'
  <2> SUFFICES ASSUME spc' = "respond" PROVE SignResponding'
    BY <1>8 DEF SignResponding, HasChallenge
  <2>1. ChallengesValid(ch)
    BY <1>1
  <2>2. /\ sRound = R /\ Committed(secretSeed, salt, roundSeeds, aAll, skipped, sRound)
        /\ sTranscript = TranscriptOf(sMsg, secretSeed, aAll, sRound)
        /\ sDigest = Hash(sTranscript)
        /\ responses = <<>> /\ baseSeeds = <<>> /\ inverseReady = {}
    BY <1>2 DEF SInv, SignInv, SignCommitting, Committing
  <2>3. Answered(secretSeed, ch, roundSeeds, aAll, <<>>, <<>>, 0)
    BY <1>3, AnsweredNone
  <2> QED
    BY <1>1, <1>2, <1>3, <2>1, <2>2, <2>3 DEF SignResponding
<1>10. SignCommitting' /\ SignPublished'
  BY <1>8 DEF SignCommitting, SignPublished
<1> QED
  BY <1>3, <1>4, <1>5, <1>6, <1>7, <1>9, <1>10 DEF SInv, SignInv, OracleGrows

-----------------------------------------------------------------------------
(* The response phase.                                                      *)

\* What a response round works with.
LEMMA RespondFacts ==
  ASSUME SInv, spc = "respond"
  PROVE  /\ secretSeed \in SecretSeeds /\ roundSeeds \in [Rounds -> RoundSeeds]
         /\ sChallenges \in ChallengeVectors /\ sRound \in 0 .. R /\ R \in Nat
         /\ \A j \in Rounds : aAll[j] \in RoundPoints(secretSeed) /\ aAll[j] \in Vectors
         /\ Answered(secretSeed, sChallenges, roundSeeds, aAll, responses, baseSeeds, sRound)
         /\ \A c \in inverseReady : inverseCache[c] = SecretMatrix(secretSeed, "A", c)
         /\ responses \in Seq(Vectors) /\ baseSeeds \in Seq(RoundSeeds)
         /\ DOMAIN inverseCache = FormIndex /\ inverseReady \subseteq FormIndex
<1>1. /\ secretSeed \in SecretSeeds /\ roundSeeds \in [Rounds -> RoundSeeds]
  BY DEF SInv, SignInv, SignInputs, HasKey, HasSalt, HasSeeds, HasChallenge
<1>2. /\ sRound \in 0 .. R /\ responses \in Seq(Vectors) /\ baseSeeds \in Seq(RoundSeeds)
      /\ DOMAIN inverseCache = FormIndex /\ inverseReady \subseteq FormIndex
  BY DEF SInv, SignTypeOK
<1>3. /\ sChallenges \in ChallengeVectors
      /\ Committed(secretSeed, salt, roundSeeds, aAll, skipped, R)
      /\ Answered(secretSeed, sChallenges, roundSeeds, aAll, responses, baseSeeds, sRound)
      /\ \A c \in inverseReady : inverseCache[c] = SecretMatrix(secretSeed, "A", c)
  BY DEF SInv, SignInv, SignResponding, HasChallenge
<1>4. \A j \in Rounds : aAll[j] \in RoundPoints(secretSeed)
  BY <1>3 DEF Committed, Rounds
<1>5. RoundPoints(secretSeed) \subseteq Vectors
  BY <1>1, AlgebraAssumption
<1> QED
  BY <1>1, <1>2, <1>3, <1>4, <1>5, ParametersAssumption

\* Answering a round, by either kind of answer, disturbs nothing but the
\* answers and the cache.
LEMMA SignAnswers ==
  ASSUME SInv, UNCHANGED oracle, spc = "respond", sRound < R,
         sRound' = sRound + 1,
         UNCHANGED <<spc, sAttempt, aAll, sHeld, skipped, signInput, signRandom, signHash,
                     signOutput>>,
         responses' \in Seq(Vectors), baseSeeds' \in Seq(RoundSeeds),
         DOMAIN inverseCache' = FormIndex, inverseReady' \subseteq FormIndex,
         \A c \in inverseReady' : inverseCache'[c] = SecretMatrix(secretSeed, "A", c),
         Answered(secretSeed, sChallenges, roundSeeds, aAll, responses', baseSeeds', sRound + 1)
  PROVE  SInv'
<1> USE DEF signInput, signRandom, signHash, signOutput
<1>1. sRound' \in 0 .. R
  BY RespondFacts
<1>2. SignTypeOK'
  BY <1>1 DEF SInv, SignTypeOK
<1>3. SignResources'
  BY DEF SInv, SignInv, SignResources
<1>4. SignOutputs' /\ SignInputs' /\ SignStart'
  BY DEF SInv, SignInv, SignOutputs, SignInputs, SignStart, HasKey, HasSalt, HasSeeds,
         HasChallenge, Committing, Published
<1>5. SignResponding'
  BY DEF SInv, SignInv, SignResponding, HasChallenge
<1>6. SignCommitting' /\ SignPublished' /\ OracleType'
  BY DEF SignCommitting, Committing, SignPublished, Published, SInv, OracleType
<1> QED
  BY <1>2, <1>3, <1>4, <1>5, <1>6 DEF SInv, SignInv

LEMMA SignNonbaseRoundInv ==
  ASSUME SInv, UNCHANGED oracle, SignNonbaseRound
  PROVE  SInv'
<1> DEFINE c == sChallenges[sRound]
           v == InverseTimes(CacheWith(c)[c], aAll[sRound])
<1>1. /\ spc = "respond" /\ sRound < R /\ c < X /\ sRound' = sRound + 1
      /\ inverseCache' = CacheWith(c) /\ inverseReady' = inverseReady \cup {c}
      /\ responses' = Append(responses, v) /\ baseSeeds' = baseSeeds
      /\ UNCHANGED <<spc, sAttempt, aAll, sHeld, skipped, signInput, signRandom, signHash,
                     signOutput>>
  BY DEF SignNonbaseRound
<1>2. sRound \in Rounds
  BY <1>1, RespondFacts DEF Rounds
<1>3. c \in FormIndex
  <2>1. c \in 0 .. X
    BY <1>1, <1>2, RespondFacts DEF ChallengeVectors
  <2> QED
    BY <1>1, <2>1, ParametersAssumption DEF FormIndex
<1>4. /\ DOMAIN CacheWith(c) = FormIndex
      /\ \A d \in inverseReady \cup {c} : CacheWith(c)[d] = SecretMatrix(secretSeed, "A", d)
  BY <1>1, <1>3, RespondFacts DEF CacheWith
<1>5. v = InverseTimes(SecretMatrix(secretSeed, "A", c), aAll[sRound])
  BY <1>4
<1>6. v \in Vectors
  BY <1>1, <1>2, <1>3, <1>5, RespondFacts, AlgebraAssumption
<1> HIDE DEF v
<1>7. responses' \in Seq(Vectors) /\ baseSeeds' \in Seq(RoundSeeds)
  BY <1>1, <1>6, RespondFacts
<1>8. Answered(secretSeed, sChallenges, roundSeeds, aAll, responses', baseSeeds', sRound + 1)
  BY <1>1, <1>2, <1>5, RespondFacts, AnsweredByResponse
<1>9. inverseReady' \subseteq FormIndex
  BY <1>1, <1>3, RespondFacts
<1> QED
  BY <1>1, <1>4, <1>7, <1>8, <1>9, SignAnswers

LEMMA SignBaseRoundInv ==
  ASSUME SInv, UNCHANGED oracle, SignBaseRound
  PROVE  SInv'
<1>1. /\ spc = "respond" /\ sRound < R /\ sChallenges[sRound] = X /\ sRound' = sRound + 1
      /\ baseSeeds' = Append(baseSeeds, roundSeeds[sRound])
      /\ responses' = responses /\ inverseCache' = inverseCache /\ inverseReady' = inverseReady
      /\ UNCHANGED <<spc, sAttempt, aAll, sHeld, skipped, signInput, signRandom, signHash,
                     signOutput>>
  BY DEF SignBaseRound, BaseIndex
<1>2. sRound \in Rounds
  BY <1>1, RespondFacts DEF Rounds
<1>3. responses' \in Seq(Vectors) /\ baseSeeds' \in Seq(RoundSeeds)
  BY <1>1, <1>2, RespondFacts
<1>4. Answered(secretSeed, sChallenges, roundSeeds, aAll, responses', baseSeeds', sRound + 1)
  BY <1>1, <1>2, RespondFacts, AnsweredBySeed
<1> QED
  BY <1>1, <1>3, <1>4, RespondFacts, SignAnswers

-----------------------------------------------------------------------------
(* The ends of a call.                                                      *)

LEMMA SignPublishInv ==
  ASSUME SInv, UNCHANGED oracle, SignPublish
  PROVE  SInv'
<1> DEFINE made == [sig |-> [responses |-> responses, seeds |-> baseSeeds,
                             digest |-> sDigest, salt |-> salt, canonical |-> TRUE],
                    msg |-> sMsg]
<1>1. /\ spc = "respond" /\ spc' = "cleanup" /\ sRound = R
      /\ UNCHANGED <<sHeld, signInput, signRandom, signRounds, signHash, signAnswers>>
      /\ \/ sm' = made /\ sResult' = 0
         \/ UNCHANGED signOutput
  BY DEF SignPublish
<1> HIDE DEF made
<1>2. sResult = -1 /\ sm = Raw /\ smlen = 0
  BY <1>1 DEF SInv, SignInv, SignOutputs
<1> USE DEF signInput, signRandom, signRounds, signHash, signAnswers, signOutput
<1>3. SignTypeOK'
  BY <1>1 DEF SInv, SignTypeOK
<1>4. SignResources'
  BY <1>1 DEF SInv, SignInv, SignResources
<1>5. SignOutputs' /\ SignStart'
  BY <1>1, <1>2 DEF SignOutputs, SignStart
<1>6. SignInputs'
  BY <1>1 DEF SInv, SignInv, SignInputs, HasKey, HasSalt, HasSeeds,
         HasChallenge, Committing, Published
<1>7. SignResponding' /\ SignCommitting' /\ OracleType'
  BY <1>1 DEF SInv, SignInv, SignResponding, HasChallenge, SignCommitting, Committing, OracleType
<1>8. SignPublished'
  BY <1>1, <1>2 DEF SignPublished, Published, made
<1> QED
  BY <1>3, <1>4, <1>5, <1>6, <1>7, <1>8 DEF SInv, SignInv

LEMMA SignFaultInv ==
  ASSUME SInv, UNCHANGED oracle, SignFault
  PROVE  SInv'
<1> USE DEF signInput, signRandom, signRounds, signHash, signAnswers, signOutput
<1>1. /\ spc \notin {"idle", "cleanup"} /\ spc' = "cleanup"
      /\ UNCHANGED <<signInput, signRandom, signRounds, signHash, signAnswers, signOutput>>
      /\ spc = "alloc" => sHeld' \subseteq SignBuffers
      /\ spc # "alloc" => sHeld' = sHeld \ {"round xof"}
  BY DEF SignFault
<1>2. sResult' = -1 /\ sm' = Raw /\ smlen' = 0
  BY <1>1 DEF SInv, SignInv, SignOutputs
<1>3. SignResources'
  <2>1. sActive' = sActive /\ "round xof" \notin sHeld'
    BY <1>1 DEF SignBuffers
  <2>2. "transcript" \in sHeld' <=> "transcript" \in sHeld
    BY <1>1 DEF SInv, SignInv, SignResources, SignBuffers
  <2>3. sActive <=> "transcript" \in sHeld
    BY DEF SInv, SignInv, SignResources
  <2>4. sActive' <=> "transcript" \in sHeld'
    BY <2>1, <2>2, <2>3, Zenon
  <2> QED
    BY <1>1, <2>1, <2>4 DEF SignResources
<1>4. SignTypeOK'
  <2>1. sHeld' \subseteq SignBuffers \cup {"transcript", "round xof"}
    BY <1>1 DEF SInv, SignTypeOK
  <2> QED
    BY <1>1, <2>1 DEF SInv, SignTypeOK
<1>5. spc' = "cleanup" /\ sResult' = -1 /\ sResult' # 0
  <2>1. spc' = "cleanup"
    BY <1>1, Zenon
  <2>2. sResult' = -1
    BY <1>2, Zenon
  <2> QED
    BY <2>1, <2>2
<1>6. SignOutputs' /\ SignInputs' /\ SignStart'
  <2> HIDE DEF signInput, signRandom, signRounds, signHash, signAnswers, signOutput
  <2> QED
    BY <1>2, <1>5 DEF SignOutputs, SignInputs, SignStart, HasKey, HasSalt, HasSeeds,
         HasChallenge, Committing, Published
<1>7. SignCommitting' /\ SignResponding' /\ SignPublished'
  BY <1>5 DEF SignCommitting, SignResponding, SignPublished, Committing, HasChallenge,
         Published
<1>8. OracleType'
  BY DEF SInv, OracleType
<1> QED
  BY <1>3, <1>4, <1>6, <1>7, <1>8 DEF SInv, SignInv

LEMMA SignReturnInv ==
  ASSUME SInv, UNCHANGED oracle, SignReturn
  PROVE  SInv'
<1>1. /\ spc = "cleanup" /\ spc' = "idle" /\ sHeld' = sHeld \ SignReleases
      /\ secretSeed' = Raw /\ salt' = Raw /\ roundSeeds' = Raw /\ sRound' = 0 /\ sAttempt' = 0
      /\ aAll' = NoPoints /\ sTranscript' = <<>> /\ sActive' = FALSE /\ sChallenges' = Raw
      /\ inverseCache' = NoInverses /\ inverseReady' = {}
      /\ responses' = <<>> /\ baseSeeds' = <<>> /\ skipped' = {}
      /\ sMsg' = sMsg /\ sResult' = sResult /\ sm' = sm /\ smlen' = smlen
  BY DEF SignReturn, signOutput
<1>2. sHeld' = {}
  <2>1. sHeld \subseteq SignBuffers \cup {"transcript", "round xof"} /\ sActive \in BOOLEAN
    BY DEF SInv, SignTypeOK
  <2>2. "round xof" \notin sHeld /\ (sActive <=> "transcript" \in sHeld)
    BY <1>1 DEF SInv, SignInv, SignResources
  <2>3. CASE sActive
    BY <1>1, <2>1, <2>2, <2>3 DEF SignReleases
  <2>4. CASE ~sActive
    BY <1>1, <2>1, <2>2, <2>4 DEF SignReleases
  <2> QED
    BY <2>3, <2>4
<1>3. SignTypeOK'
  <2>1. aAll' \in [Rounds -> Vectors \cup {Raw}]
    BY <1>1 DEF NoPoints
  <2>2. 0 \in 0 .. R /\ 0 \in Attempts
    BY ParametersAssumption, BoundAssumption DEF Attempts
  <2>3. DOMAIN inverseCache' = FormIndex
    BY <1>1 DEF NoInverses
  <2>4. sTranscript' \in Seq(Chunks) /\ responses' \in Seq(Vectors) /\ baseSeeds' \in Seq(RoundSeeds)
    BY <1>1
  <2> QED
    BY <1>1, <1>2, <2>1, <2>2, <2>3, <2>4 DEF SInv, SignTypeOK
<1>4. SignResources'
  BY <1>1, <1>2 DEF SignResources
<1>5. SignOutputs'
  BY <1>1 DEF SInv, SignInv, SignOutputs
<1>6. SignInputs' /\ SignStart'
  BY <1>1 DEF SignInputs, SignStart, HasKey, HasSalt, HasSeeds, HasChallenge, Committing, Published
<1>7. SignCommitting' /\ SignResponding' /\ SignPublished' /\ OracleType'
  BY <1>1 DEF SignCommitting, SignResponding, SignPublished, Committing, HasChallenge,
         Published, SInv, OracleType
<1> QED
  BY <1>3, <1>4, <1>5, <1>6, <1>7 DEF SInv, SignInv

-----------------------------------------------------------------------------
LEMMA SignStepInv ==
  ASSUME SInv, SignStep
  PROVE  SInv' /\ OracleGrows
<1>1. CASE SignLocalStep /\ UNCHANGED oracle
  <2>1. OracleGrows
    BY <1>1, UnchangedGrows DEF SInv
  <2> QED
    BY <1>1, <2>1, SignPrepares, SignMessageInv, SignRejects, SignCommitInv, SignDigestInv,
       SignNonbaseRoundInv, SignBaseRoundInv, SignPublishInv, SignFaultInv
       DEF SignLocalStep
<1>2. CASE SignParse
  BY <1>2, SignParseInv
<1> QED
  BY <1>1, <1>2 DEF SignStep

LEMMA SignInitInv ==
  ASSUME SignInit, oracle = <<>>
  PROVE  SInv
<1> USE DEF SignInit
<1>1. SignTypeOK
  <2>1. aAll \in [Rounds -> Vectors \cup {Raw}]
    BY DEF NoPoints
  <2>2. 0 \in 0 .. R /\ 0 \in Attempts
    BY ParametersAssumption, BoundAssumption DEF Attempts
  <2>3. DOMAIN inverseCache = FormIndex
    BY DEF NoInverses
  <2>4. sTranscript \in Seq(Chunks) /\ responses \in Seq(Vectors) /\ baseSeeds \in Seq(RoundSeeds)
    OBVIOUS
  <2> QED
    BY <2>1, <2>2, <2>3, <2>4 DEF SignTypeOK
<1>2. OracleType
  <2>1. DOMAIN oracle = {} /\ oracle = [d \in {} |-> Raw]
    OBVIOUS
  <2> QED
    BY <2>1 DEF OracleType
<1>3. SignInv
  <2>1. SignResources
    BY DEF SignResources
  <2>2. SignOutputs /\ SignInputs /\ SignStart
    BY DEF SignOutputs, SignInputs, SignStart, Committing, HasChallenge, Published, HasKey,
           HasSalt, HasSeeds
  <2>3. SignCommitting /\ SignResponding /\ SignPublished
    BY DEF SignCommitting, SignResponding, SignPublished, Committing, HasChallenge, Published
  <2> QED
    BY <2>1, <2>2, <2>3 DEF SignInv
<1> QED
  BY <1>1, <1>2, <1>3 DEF SInv

-----------------------------------------------------------------------------
(* crypto_sign_verify.                                                      *)

VInv ==
  OracleType /\ VerifyTypeOK /\ IssuedInv /\ VerifyInv /\ Completeness

-----------------------------------------------------------------------------
(* A growing oracle keeps what was opened open.                             *)

LEMMA OpenedStable ==
  ASSUME OracleGrows, NEW e, e.sig.digest \in DOMAIN oracle, NEW s, NEW seeds, NEW points
  PROVE  OpenedBy(e, s, seeds, points)' <=> OpenedBy(e, s, seeds, points)
<1>1. oracle'[e.sig.digest] = oracle[e.sig.digest]
  BY DEF OracleGrows
<1> QED
  BY <1>1 DEF OpenedBy

LEMMA IssuedStable ==
  ASSUME OracleGrows, IssuedInv, UNCHANGED issued
  PROVE  IssuedInv'
<1> SUFFICES ASSUME NEW e \in issued
             PROVE  IssuedEntry(e)'
  BY DEF IssuedInv
<1>1. IssuedEntry(e)
  BY DEF IssuedInv
<1>2. e.sig.digest \in DOMAIN oracle /\ e.sig.digest \in DOMAIN oracle'
      /\ oracle'[e.sig.digest] = oracle[e.sig.digest]
  BY <1>1 DEF IssuedEntry, OracleGrows
<1>3. PICK s \in SecretSeeds : \E seeds \in [Rounds -> RoundSeeds],
                                  points \in [Rounds -> RoundPoints(s)] :
        OpenedBy(e, s, seeds, points)
  BY <1>1 DEF IssuedEntry
<1>4. PICK seeds \in [Rounds -> RoundSeeds], points \in [Rounds -> RoundPoints(s)] :
        OpenedBy(e, s, seeds, points)
  BY <1>3
<1>5. OpenedBy(e, s, seeds, points)'
  BY <1>2, <1>4, OpenedStable
<1> QED
  BY <1>1, <1>2, <1>5 DEF IssuedEntry

\* Verification is undisturbed while nothing of it moves; new signatures are
\* issued only while it is not called.
LEMMA VerifyFrame ==
  ASSUME VInv, IssuedInv', UNCHANGED verifyVars, OracleGrows, issued' = issued \/ vpc = "idle"
  PROVE  VInv'
<1> USE DEF verifyVars, verifyRounds, verifyHash, verifyInput, verifyOutput
<1>1. VerifyTypeOK'
  BY DEF VInv, VerifyTypeOK
<1>2. VerifyResources' /\ VerifyOutputs' /\ VerifyIndices'
  BY DEF VInv, VerifyInv, VerifyResources, VerifyOutputs, VerifyIndices
<1>3. VerifyChallenges'
  BY DEF VInv, VerifyInv, VerifyChallenges, OracleGrows
<1>4. VerifyRetraces'
  <2> SUFFICES ASSUME vpc = "rounds", ~vFault, NEW e \in issued,
                      Genuine(e, vArg), e.marred = {},
                      NEW s \in SecretSeeds, NEW seeds \in [Rounds -> RoundSeeds],
                      NEW points \in [Rounds -> RoundPoints(s)],
                      OpenedBy(e, s, seeds, points)'
               PROVE  RetracedBy(s, seeds, points)'
    BY DEF VerifyRetraces, Genuine
  <2>1. e.sig.digest \in DOMAIN oracle
    BY DEF VInv, IssuedInv, IssuedEntry
  <2>2. OpenedBy(e, s, seeds, points)
    BY <2>1, OpenedStable
  <2>3. RetracedBy(s, seeds, points)
    BY <2>2 DEF VInv, VerifyInv, VerifyRetraces
  <2> QED
    BY <2>3 DEF RetracedBy
<1>5. Completeness'
  BY DEF VInv, Completeness, Genuine
<1>6. OracleType'
  BY DEF OracleGrows
<1> QED
  BY <1>1, <1>2, <1>3, <1>4, <1>5, <1>6 DEF VInv, VerifyInv

-----------------------------------------------------------------------------
(* The stages before the rounds.                                            *)

LEMMA VerifyCallInv ==
  ASSUME VInv, UNCHANGED <<oracle, issued>>, NEW arg, IsArgument(arg),
         NEW open \in BOOLEAN, NEW bad \in BOOLEAN, VerifyCall(arg, open, bad)
  PROVE  VInv'
<1>1. /\ vpc = "idle" /\ vpc' = (IF bad THEN "cleanup" ELSE "alloc")
      /\ vResult' = -1 /\ vFault' = bad /\ vArg' = arg /\ vOpen' = open
      /\ mOut' = Raw /\ mlenOut' = 0 /\ vHeld' = vHeld
      /\ UNCHANGED <<vRound, vAttempt, vResponse, vSeed, vTranscript, vActive, vChallenges>>
  BY DEF VerifyCall, verifyRounds, verifyHash
<1>2. VerifyTypeOK'
  <2>1. IsArgument(vArg)'
    BY <1>1 DEF IsArgument
  <2> QED
    BY <1>1, <2>1 DEF VInv, VerifyTypeOK
<1>3. VerifyResources' /\ VerifyOutputs'
  BY <1>1 DEF VInv, VerifyInv, VerifyResources, VerifyOutputs
<1>4. VerifyChallenges' /\ VerifyIndices' /\ VerifyRetraces'
  BY <1>1 DEF VInv, VerifyInv, VerifyChallenges, VerifyIndices, VerifyRetraces
<1>5. Completeness'
  BY <1>1 DEF Completeness
<1>6. OracleGrows /\ OracleType'
  BY UnchangedGrows DEF VInv, OracleGrows
<1>7. IssuedInv'
  BY <1>6, IssuedStable DEF VInv
<1> QED
  BY <1>2, <1>3, <1>4, <1>5, <1>6, <1>7 DEF VInv, VerifyInv

\* What every step does when it leaves the rounds alone: the invariant
\* reduces to the few facts a stage changes.
LEMMA VerifyElsewhere ==
  ASSUME VInv, UNCHANGED issued, OracleGrows,
         UNCHANGED <<vArg, vOpen, vRound, vAttempt, vResponse, vSeed, mOut, mlenOut>>,
         vpc' \in {"decode", "parse", "hash", "message", "cleanup"},
         VerifyTypeOK', VerifyResources', VerifyChallenges',
         vResult' = -1, vResult = -1, Completeness'
  PROVE  VInv'
<1>1. VerifyOutputs'
  BY DEF VInv, VerifyInv, VerifyOutputs
<1>2. VerifyIndices' /\ VerifyRetraces'
  BY DEF VerifyIndices, VerifyRetraces
<1>3. IssuedInv' /\ OracleType'
  BY IssuedStable DEF VInv, OracleGrows
<1> QED
  BY <1>1, <1>2, <1>3 DEF VInv, VerifyInv

LEMMA VerifyAllocInv ==
  ASSUME VInv, UNCHANGED <<oracle, issued>>, VerifyAlloc \/ VerifyHashInit
  PROVE  VInv'
<1> USE DEF verifyRounds, verifyHash, verifyInput, verifyOutput
<1>1. /\ \/ vpc = "alloc" /\ vpc' = "decode" /\ vHeld' = VerifyBuffers /\ vActive' = vActive
         \/ vpc = "hash" /\ vpc' = "message" /\ vActive' = TRUE
            /\ vHeld' = vHeld \cup {"transcript"}
      /\ UNCHANGED <<vArg, vOpen, vRound, vAttempt, vResponse, vSeed, mOut, mlenOut, vResult,
                     vFault, vTranscript, vChallenges>>
  BY DEF VerifyAlloc, VerifyHashInit
<1>2. vResult = -1
  BY <1>1 DEF VInv, VerifyInv, VerifyOutputs
<1>3. VerifyTypeOK'
  BY <1>1 DEF VInv, VerifyTypeOK, VerifyBuffers
<1>4. VerifyResources'
  <2>1. CASE vpc = "alloc"
    <3>1. vActive' = vActive /\ vHeld' = {"arrays"} /\ vpc' = "decode"
      BY <1>1, <2>1 DEF VerifyBuffers
    <3>2. ~vActive
      BY <2>1 DEF VInv, VerifyInv, VerifyResources
    <3> QED
      BY <3>1, <3>2 DEF VerifyResources
  <2>2. CASE vpc = "hash"
    BY <1>1, <2>2 DEF VInv, VerifyInv, VerifyResources
  <2> QED
    BY <1>1, <2>1, <2>2
<1>5. VerifyChallenges'
  BY <1>1 DEF VInv, VerifyInv, VerifyChallenges
<1>6. Completeness'
  BY <1>1 DEF Completeness
<1> QED
  BY <1>1, <1>2, <1>3, <1>4, <1>5, <1>6, UnchangedGrows, VerifyElsewhere DEF VInv

\* A key or a signature that is not encoded canonically was not issued.
LEMMA VerifyDecodeInv ==
  ASSUME VInv, UNCHANGED <<oracle, issued>>, VerifyDecode
  PROVE  VInv'
<1> USE DEF verifyRounds, verifyHash, verifyInput, verifyOutput
<1>1. /\ vpc = "decode"
      /\ vpc' = (IF vArg.pk.canonical /\ vArg.sig.canonical THEN "parse" ELSE "cleanup")
      /\ UNCHANGED <<vArg, vOpen, vRound, vAttempt, vResponse, vSeed, mOut, mlenOut, vResult,
                     vFault, vTranscript, vChallenges, vActive, vHeld>>
  BY DEF VerifyDecode
<1>2. vResult = -1
  BY <1>1 DEF VInv, VerifyInv, VerifyOutputs
<1>3. VerifyTypeOK'
  BY <1>1 DEF VInv, VerifyTypeOK
<1>4. VerifyResources'
  BY <1>1 DEF VInv, VerifyInv, VerifyResources
<1>5. VerifyChallenges'
  BY <1>1 DEF VInv, VerifyInv, VerifyChallenges
<1>6. Completeness'
  <2> SUFFICES ASSUME vpc' = "cleanup", NEW e \in issued, Genuine(e, vArg)
               PROVE  FALSE
    BY <1>1 DEF Completeness, Genuine
  <2>1. IssuedEntry(e)
    BY DEF VInv, IssuedInv
  <2>2. e.sig.canonical
    BY <2>1 DEF IssuedEntry
  <2>3. PICK s \in SecretSeeds : e.pk = PublicKey(s)
    BY <2>1 DEF IssuedEntry, OpenedBy
  <2>4. e.pk.canonical
    BY <2>3 DEF PublicKey
  <2> QED
    BY <1>1, <2>2, <2>4 DEF Genuine
<1> QED
  BY <1>1, <1>2, <1>3, <1>4, <1>5, <1>6, UnchangedGrows, VerifyElsewhere DEF VInv

\* The digest of an issued signature was parsed when it was signed.
LEMMA VerifyParseInv ==
  ASSUME VInv, UNCHANGED issued, VerifyParse
  PROVE  VInv' /\ OracleGrows
<1> USE DEF verifyRounds, verifyInput, verifyOutput
<1>1. PICK ch \in Challenges :
        /\ ParseHash(vArg.sig.digest, ch) /\ vChallenges' = ch
        /\ vpc' = (IF ChallengesValid(ch) THEN "hash" ELSE "cleanup")
  BY DEF VerifyParse
<1>2. /\ vpc = "parse"
      /\ UNCHANGED <<vArg, vOpen, vRound, vAttempt, vResponse, vSeed, mOut, mlenOut, vResult,
                     vFault, vTranscript, vActive, vHeld>>
  BY DEF VerifyParse
<1>3. /\ OracleGrows /\ vArg.sig.digest \in DOMAIN oracle' /\ oracle'[vArg.sig.digest] = ch
      /\ ch \in ChallengeVectors
  BY <1>1, ParseGrows DEF VInv
<1>4. vResult = -1
  BY <1>2 DEF VInv, VerifyInv, VerifyOutputs
<1>5. VerifyTypeOK'
  BY <1>1, <1>2, <1>3 DEF VInv, VerifyTypeOK
<1>6. VerifyResources'
  <2>1. vpc' \in {"hash", "cleanup"}
    BY <1>1
  <2> QED
    BY <1>2, <2>1 DEF VInv, VerifyInv, VerifyResources
<1>7. VerifyChallenges'
  BY <1>1, <1>2, <1>3 DEF VInv, VerifyInv, VerifyChallenges
<1>8. Completeness'
  <2> SUFFICES ASSUME vpc' = "cleanup", NEW e \in issued, Genuine(e, vArg)
               PROVE  FALSE
    BY <1>2 DEF Completeness, Genuine
  <2>1. IssuedEntry(e)
    BY DEF VInv, IssuedInv
  <2>2. ChallengesValid(oracle[vArg.sig.digest]) /\ vArg.sig.digest \in DOMAIN oracle
    BY <2>1 DEF IssuedEntry, Genuine
  <2>3. ~ChallengesValid(ch)
    BY <1>1
  <2>4. ch = oracle[vArg.sig.digest]
    BY <1>1, <2>2 DEF ParseHash
  <2> QED
    BY <2>2, <2>3, <2>4
<1>9. vpc' \in {"hash", "cleanup"}
  BY <1>1
<1> QED
  BY <1>2, <1>3, <1>4, <1>5, <1>6, <1>7, <1>8, <1>9, VerifyElsewhere

LEMMA VerifyFaultInv ==
  ASSUME VInv, UNCHANGED <<oracle, issued>>, VerifyFault
  PROVE  VInv'
<1> USE DEF verifyRounds, verifyHash, verifyInput, verifyOutput
<1>1. /\ vpc \in {"alloc", "decode", "parse", "hash", "message", "rounds"} /\ vpc' = "cleanup"
      /\ vFault' = TRUE
      /\ vpc = "alloc" => vHeld' \subseteq VerifyBuffers
      /\ vpc # "alloc" => vHeld' = vHeld \ {"round xof"}
      /\ UNCHANGED <<vArg, vOpen, vRound, vAttempt, vResponse, vSeed, mOut, mlenOut, vResult,
                     vTranscript, vChallenges, vActive>>
  BY DEF VerifyFault
<1>2. vResult = -1
  BY <1>1 DEF VInv, VerifyInv, VerifyOutputs
<1>3. VerifyTypeOK'
  <2>1. vHeld' \subseteq VerifyBuffers \cup {"transcript", "round xof"}
    BY <1>1 DEF VInv, VerifyTypeOK
  <2> QED
    BY <1>1, <2>1 DEF VInv, VerifyTypeOK
<1>4. VerifyResources'
  <2>1. vActive' = vActive /\ "round xof" \notin vHeld'
    BY <1>1 DEF VerifyBuffers
  <2>2. "transcript" \in vHeld' <=> "transcript" \in vHeld
    BY <1>1 DEF VInv, VerifyInv, VerifyResources, VerifyBuffers
  <2>3. vActive <=> "transcript" \in vHeld
    BY DEF VInv, VerifyInv, VerifyResources
  <2>4. vActive' <=> "transcript" \in vHeld'
    BY <2>1, <2>2, <2>3, Zenon
  <2> QED
    BY <1>1, <2>1, <2>4 DEF VerifyResources
<1>5. VerifyChallenges'
  BY <1>1 DEF VerifyChallenges
<1>6. Completeness'
  BY <1>1 DEF Completeness
<1> QED
  BY <1>1, <1>2, <1>3, <1>4, <1>5, <1>6, UnchangedGrows, VerifyElsewhere DEF VInv

LEMMA VerifyReturnInv ==
  ASSUME VInv, UNCHANGED <<oracle, issued>>, VerifyReturn
  PROVE  VInv'
<1>1. /\ vpc = "cleanup" /\ vpc' = "idle"
      /\ vHeld' = vHeld \ (VerifyBuffers \cup IF vActive THEN {"transcript"} ELSE {})
      /\ vRound' = 0 /\ vAttempt' = 0 /\ vResponse' = 0 /\ vSeed' = 0
      /\ vTranscript' = <<>> /\ vActive' = FALSE /\ vChallenges' = Raw
      /\ vResult' = vResult /\ vFault' = vFault /\ vArg' = vArg /\ vOpen' = vOpen
      /\ vResult # 0 => mOut' = mOut /\ mlenOut' = mlenOut
  BY DEF VerifyReturn, verifyInput, verifyOutput, Opens
<1>2. vHeld' = {}
  <2>1. vHeld \subseteq VerifyBuffers \cup {"transcript", "round xof"} /\ vActive \in BOOLEAN
    BY DEF VInv, VerifyTypeOK
  <2>2. "round xof" \notin vHeld /\ (vActive <=> "transcript" \in vHeld)
    BY <1>1 DEF VInv, VerifyInv, VerifyResources
  <2>3. CASE vActive
    BY <1>1, <2>1, <2>2, <2>3
  <2>4. CASE ~vActive
    BY <1>1, <2>1, <2>2, <2>4
  <2> QED
    BY <2>3, <2>4
<1>3. VerifyTypeOK'
  <2>1. 0 \in 0 .. R /\ 0 \in Attempts /\ <<>> \in Seq(Chunks)
    BY ParametersAssumption, BoundAssumption DEF Attempts
  <2> QED
    BY <1>1, <1>2, <2>1 DEF VInv, VerifyTypeOK
<1>4. VerifyResources'
  BY <1>1, <1>2 DEF VerifyResources
<1>5. VerifyOutputs'
  BY <1>1 DEF VInv, VerifyInv, VerifyOutputs
<1>6. VerifyChallenges' /\ VerifyIndices' /\ VerifyRetraces' /\ Completeness'
  BY <1>1 DEF VerifyChallenges, VerifyIndices, VerifyRetraces, Completeness
<1>7. OracleGrows /\ OracleType'
  BY UnchangedGrows DEF VInv, OracleGrows
<1>8. IssuedInv'
  BY <1>7, IssuedStable DEF VInv
<1> QED
  BY <1>3, <1>4, <1>5, <1>6, <1>7, <1>8 DEF VInv, VerifyInv

-----------------------------------------------------------------------------
(* The rounds.                                                              *)

\* What is being verified, by its parts.
LEMMA ArgumentFacts ==
  ASSUME IsArgument(vArg)
  PROVE  /\ vArg.msg \in Messages /\ vArg.sig.salt \in Salts
         /\ vArg.sig.responses \in [1 .. K -> Vectors]
         /\ vArg.sig.seeds \in [1 .. BaseSeedCount -> RoundSeeds]
         /\ \E s \in SecretSeeds : vArg.pk.seed = PublicSeed(s)
                                   /\ vArg.pk.forms = [i \in FormIndex |-> NonbaseForm(s, i)]
<1>1. PICK k \in PublicKeys : vArg.pk \in {k, [k EXCEPT !.canonical = FALSE]}
  BY DEF IsArgument
<1>2. PICK s \in SecretSeeds : k = PublicKey(s)
  BY DEF PublicKeys
<1>3. vArg.pk.seed = PublicSeed(s) /\ vArg.pk.forms = [i \in FormIndex |-> NonbaseForm(s, i)]
  BY <1>1, <1>2 DEF PublicKey
<1> QED
  BY <1>3 DEF IsArgument

\* A round finds its answer, and what it hashes is a form unless it has none.
LEMMA RoundFacts ==
  ASSUME VInv, vpc = "rounds", vRound < R
  PROVE  /\ vRound \in Rounds /\ R \in Nat /\ vChallenges \in ChallengeVectors
         /\ vChallenges[vRound] \in 0 .. X
         /\ vResponse = NonbaseBefore(vChallenges, vRound) /\ vResponse \in Nat
         /\ vSeed = BaseBefore(vChallenges, vRound) /\ vSeed \in Nat
         /\ vChallenges[vRound] < X =>
              /\ vResponse + 1 \in 1 .. K /\ vResponse + 1 \in 0 .. R /\ vSeed \in 0 .. R
              /\ NonbaseBefore(vChallenges, vRound + 1) = vResponse + 1
              /\ BaseBefore(vChallenges, vRound + 1) = vSeed
              /\ ResponseForm \in TriForms \cup {Degenerate}
         /\ vChallenges[vRound] = X =>
              /\ vSeed + 1 \in 1 .. BaseSeedCount /\ vSeed + 1 \in 0 .. R /\ vResponse \in 0 .. R
              /\ BaseBefore(vChallenges, vRound + 1) = vSeed + 1
              /\ NonbaseBefore(vChallenges, vRound + 1) = vResponse
              /\ SeedForm \in TriForms \cup {Degenerate}
<1>1. vRound \in Rounds /\ R \in Nat /\ K \in 0 .. R /\ BaseSeedCount \in 0 .. R /\ X \in Nat
  <2>1. vRound \in 0 .. R
    BY DEF VInv, VerifyTypeOK
  <2> QED
    BY <2>1, ParametersAssumption DEF Rounds, BaseSeedCount
<1>2. vChallenges \in ChallengeVectors /\ ChallengesValid(vChallenges)
  BY DEF VInv, VerifyInv, VerifyChallenges
<1>3. vChallenges[vRound] \in 0 .. X
  BY <1>1, <1>2 DEF ChallengeVectors
<1>4. /\ vResponse = NonbaseBefore(vChallenges, vRound) /\ vResponse \in Nat
      /\ vSeed = BaseBefore(vChallenges, vRound) /\ vSeed \in Nat
  BY <1>1, <1>2, CountStep DEF VInv, VerifyInv, VerifyIndices
<1>5. /\ vChallenges[vRound] < X => vResponse + 1 \in 1 .. K
      /\ vChallenges[vRound] = X => vSeed + 1 \in 1 .. BaseSeedCount
  BY <1>1, <1>2, <1>4, CountBelow
<1>6. IsArgument(vArg)
  BY DEF VInv, VerifyTypeOK
<1>7. PICK s \in SecretSeeds : vArg.pk.seed = PublicSeed(s)
                               /\ vArg.pk.forms = [i \in FormIndex |-> NonbaseForm(s, i)]
  BY <1>6, ArgumentFacts
<1>8. ASSUME vChallenges[vRound] < X
      PROVE  ResponseForm \in TriForms \cup {Degenerate}
  <2>1. vChallenges[vRound] \in FormIndex
    BY <1>1, <1>3, <1>8 DEF FormIndex
  <2>2. vArg.sig.responses[vResponse + 1] \in Vectors
    BY <1>5, <1>6, <1>8, ArgumentFacts
  <2> QED
    BY <1>7, <2>1, <2>2, AlgebraAssumption DEF ResponseForm
<1>9. ASSUME vChallenges[vRound] = X
      PROVE  SeedForm \in TriForms \cup {Degenerate}
  <2>1. vArg.sig.seeds[vSeed + 1] \in RoundSeeds /\ vArg.sig.salt \in Salts
    BY <1>5, <1>6, <1>9, ArgumentFacts
  <2>2. vAttempt \in Attempts
    BY DEF VInv, VerifyTypeOK
  <2>3. Candidate(BaseOf(s), RoundStream(vArg.sig.salt, vArg.sig.seeds[vSeed + 1], vRound), vAttempt)
          \in Vectors
    BY <1>1, <2>1, <2>2, CandidateIsPoint DEF StreamCandidate
  <2> QED
    BY <1>7, <2>3, AlgebraAssumption DEF SeedForm, VerifyBase, BaseOf
<1>10. /\ vResponse \in 0 .. R /\ vSeed \in 0 .. R
  BY DEF VInv, VerifyTypeOK
<1>11. /\ vChallenges[vRound] < X =>
            /\ NonbaseBefore(vChallenges, vRound + 1) = vResponse + 1
            /\ BaseBefore(vChallenges, vRound + 1) = vSeed
       /\ vChallenges[vRound] = X =>
            /\ NonbaseBefore(vChallenges, vRound + 1) = vResponse
            /\ BaseBefore(vChallenges, vRound + 1) = vSeed + 1
  BY <1>1, <1>2, <1>3, <1>4, CountStep
<1>12. /\ vResponse + 1 \in 1 .. K => vResponse + 1 \in 0 .. R
       /\ vSeed + 1 \in 1 .. BaseSeedCount => vSeed + 1 \in 0 .. R
  BY <1>1, <1>4
<1> QED
  BY <1>1, <1>2, <1>3, <1>4, <1>5, <1>8, <1>9, <1>10, <1>11, <1>12

\* What a soundly issued signature for the argument consists of.
LEMMA GenuineFacts ==
  ASSUME VInv, vpc = "rounds", NEW e \in issued, Genuine(e, vArg), e.marred = {},
         NEW s \in SecretSeeds, NEW seeds, NEW points, OpenedBy(e, s, seeds, points)
  PROVE  /\ vArg.pk = PublicKey(s) /\ vArg.msg \in Messages
         /\ vArg.sig.digest = Hash(TranscriptOf(vArg.msg, s, points, R))
         /\ Answered(s, vChallenges, seeds, points, vArg.sig.responses, vArg.sig.seeds, R)
         /\ \A j \in Rounds :
              /\ points[j] \in RoundPoints(s) /\ points[j] \in Vectors /\ Usable(s, points[j])
              /\ vChallenges[j] = X =>
                   IsFirstUsable(s, vArg.sig.salt, seeds[j], j, points[j])
<1>1. e.pk = vArg.pk /\ e.msg = vArg.msg /\ e.sig = vArg.sig
  BY DEF Genuine
<1>2. vChallenges = oracle[e.sig.digest]
  BY <1>1 DEF VInv, VerifyInv, VerifyChallenges
<1>3. vArg.msg \in Messages
  BY ArgumentFacts DEF VInv, VerifyTypeOK
<1>4. Committed(s, vArg.sig.salt, seeds, points, {j \in Rounds : vChallenges[j] < X}, R)
  BY <1>1, <1>2 DEF OpenedBy
<1>5. RoundPoints(s) \subseteq Vectors
  BY AlgebraAssumption
<1>6. ASSUME NEW j \in Rounds
      PROVE  /\ points[j] \in RoundPoints(s) /\ points[j] \in Vectors /\ Usable(s, points[j])
             /\ vChallenges[j] = X =>
                  IsFirstUsable(s, vArg.sig.salt, seeds[j], j, points[j])
  <2>1. j \in 0 .. (R - 1)
    BY DEF Rounds
  <2>2. vChallenges[j] = X => j \notin {i \in Rounds : vChallenges[i] < X}
    BY ParametersAssumption
  <2> QED
    BY <1>4, <1>5, <2>1, <2>2 DEF Committed
<1> QED
  BY <1>1, <1>2, <1>3, <1>6 DEF OpenedBy

\* A response leads back to the canonical form the signer hashed.
LEMMA ResponseReopens ==
  ASSUME VInv, vpc = "rounds", vRound < R, vChallenges[vRound] < X,
         NEW e \in issued, Genuine(e, vArg), e.marred = {},
         NEW s \in SecretSeeds, NEW seeds, NEW points, OpenedBy(e, s, seeds, points)
  PROVE  ResponseForm = CanonicalForm(BaseOf(s), points[vRound]) /\ ResponseForm # Degenerate
<1> DEFINE c == vChallenges[vRound]
<1>1. vRound \in Rounds /\ c \in FormIndex /\ vResponse = NonbaseBefore(vChallenges, vRound)
  BY RoundFacts, ParametersAssumption DEF FormIndex
<1>2. vRound \in 0 .. (R - 1)
  BY <1>1 DEF Rounds
<1>3. Answered(s, vChallenges, seeds, points, vArg.sig.responses, vArg.sig.seeds, R)
      /\ points[vRound] \in RoundPoints(s) /\ Usable(s, points[vRound])
      /\ vArg.pk = PublicKey(s)
  BY <1>1, GenuineFacts
<1>4. vArg.sig.responses[vResponse + 1] = InverseTimes(SecretMatrix(s, "A", c), points[vRound])
  BY <1>1, <1>2, <1>3, Zenon DEF Answered
<1>5. vArg.pk.forms[c] = NonbaseForm(s, c)
  BY <1>1, <1>3 DEF PublicKey
<1>6. ResponseForm = CanonicalForm(BaseOf(s), points[vRound])
  BY <1>1, <1>3, <1>4, <1>5, Equivariance DEF ResponseForm, BaseOf
<1> QED
  BY <1>3, <1>6 DEF Usable

\* A revealed seed gives the candidates the signer drew.
LEMMA SeedRetraces ==
  ASSUME VInv, vpc = "rounds", vRound < R, vChallenges[vRound] = X,
         NEW e \in issued, Genuine(e, vArg), e.marred = {},
         NEW s \in SecretSeeds, NEW seeds, NEW points, OpenedBy(e, s, seeds, points)
  PROVE  SeedForm = CanonicalForm(BaseOf(s),
                      StreamCandidate(s, vArg.sig.salt, seeds[vRound], vRound, vAttempt))
<1>1. vRound \in Rounds /\ vSeed = BaseBefore(vChallenges, vRound)
  BY RoundFacts
<1>2. vRound \in 0 .. (R - 1)
  BY <1>1 DEF Rounds
<1>3. Answered(s, vChallenges, seeds, points, vArg.sig.responses, vArg.sig.seeds, R)
      /\ vArg.pk = PublicKey(s)
  BY <1>1, GenuineFacts
<1>4. vArg.sig.seeds[vSeed + 1] = seeds[vRound]
  BY <1>1, <1>2, <1>3, Zenon DEF Answered
<1>5. VerifyBase = BaseOf(s)
  BY <1>3 DEF VerifyBase, BaseOf, PublicKey
<1> QED
  BY <1>4, <1>5 DEF SeedForm, StreamCandidate

\* In the rounds nothing is acquired or released but the XOF of a round.
HeldStep ==
  vHeld' = vHeld \/ vHeld' = vHeld \cup {"round xof"} \/ vHeld' = vHeld \ {"round xof"}

XofReleased == "round xof" \notin vHeld

\* What every step does that enters the rounds or stays in them.
LEMMA VerifyInRounds ==
  ASSUME VInv, UNCHANGED <<oracle, issued>>,
         UNCHANGED <<vArg, vOpen, vChallenges, vActive, mOut, mlenOut, vResult>>,
         vpc \in {"message", "rounds"}, vpc' = "rounds",
         vRound' \in 0 .. R, vAttempt' \in Attempts, vResponse' \in 0 .. R, vSeed' \in 0 .. R,
         vTranscript' \in Seq(Chunks), vFault' \in BOOLEAN,
         HeldStep,
         vAttempt' = 0 => XofReleased',
         VerifyIndices', VerifyRetraces'
  PROVE  VInv'
<1>1. VerifyTypeOK'
  <2>1. vHeld' \subseteq VerifyBuffers \cup {"transcript", "round xof"}
    BY DEF VInv, VerifyTypeOK, HeldStep
  <2> QED
    BY <2>1 DEF VInv, VerifyTypeOK
<1>2. VerifyResources'
  <2>1. "transcript" \in vHeld' <=> "transcript" \in vHeld
    BY DEF HeldStep
  <2>2. vActive <=> "transcript" \in vHeld
    BY DEF VInv, VerifyInv, VerifyResources
  <2>3. vActive' <=> "transcript" \in vHeld'
    BY <2>1, <2>2, Zenon
  <2> QED
    BY <2>3 DEF VerifyResources, XofReleased
<1>3. VerifyOutputs'
  BY DEF VInv, VerifyInv, VerifyOutputs
<1>4. VerifyChallenges'
  BY DEF VInv, VerifyInv, VerifyChallenges
<1>5. Completeness'
  BY DEF Completeness
<1>6. OracleGrows /\ OracleType'
  BY UnchangedGrows DEF VInv, OracleGrows
<1>7. IssuedInv'
  BY <1>6, IssuedStable DEF VInv
<1> QED
  BY <1>1, <1>2, <1>3, <1>4, <1>5, <1>6, <1>7 DEF VInv, VerifyInv

\* To show that a step goes on retracing it is enough to look at one signature
\* and at what was opened before the step.
LEMMA RetracesOn ==
  ASSUME VInv, UNCHANGED <<oracle, issued, vArg>>,
         \A e \in issued : ~vFault' /\ Genuine(e, vArg) /\ e.marred = {} =>
           \A s \in SecretSeeds : \A seeds \in [Rounds -> RoundSeeds],
                                     points \in [Rounds -> RoundPoints(s)] :
             OpenedBy(e, s, seeds, points) => RetracedBy(s, seeds, points)'
  PROVE  VerifyRetraces'
<1>1. OracleGrows
  BY UnchangedGrows DEF VInv
<1>2. \A e \in issued : \A s, seeds, points :
        OpenedBy(e, s, seeds, points)' <=> OpenedBy(e, s, seeds, points)
  BY <1>1, OpenedStable DEF VInv, IssuedInv, IssuedEntry
<1> QED
  BY <1>2 DEF VerifyRetraces, Genuine

LEMMA VerifyMessageInv ==
  ASSUME VInv, UNCHANGED <<oracle, issued>>, VerifyMessage
  PROVE  VInv'
<1>1. /\ vpc = "message" /\ vpc' = "rounds" /\ vTranscript' = MessageChunk(vArg.msg)
      /\ UNCHANGED <<vArg, vOpen, vChallenges, vActive, mOut, mlenOut, vResult, vFault, vHeld,
                     vRound, vAttempt, vResponse, vSeed>>
  BY DEF VerifyMessage, verifyRounds, verifyInput, verifyOutput
<1>8. HeldStep
  BY <1>1 DEF HeldStep
<1>2. vRound = 0 /\ vAttempt = 0 /\ vResponse = 0 /\ vSeed = 0
      /\ vChallenges \in ChallengeVectors /\ XofReleased'
  BY <1>1 DEF VInv, VerifyInv, VerifyChallenges, VerifyResources, XofReleased
<1>3. vArg.msg \in Messages
  BY <1>1, ArgumentFacts DEF VInv, VerifyTypeOK
<1>4. vTranscript' \in Seq(Chunks)
  BY <1>1, <1>3, MessageChunkType
<1>5. VerifyIndices'
  BY <1>1, <1>2, CountZero DEF VerifyIndices
<1>6. VerifyRetraces'
  <2>1. ASSUME NEW s, NEW seeds, NEW points
        PROVE  RetracedBy(s, seeds, points)'
    <3>1. vTranscript' = TranscriptOf(vArg.msg, s, points, 0)
      BY <1>1, <1>3, TranscriptZero
    <3>2. AllUnusable(s, vArg.sig.salt, seeds[0], 0, 0)
      BY DEF AllUnusable
    <3> QED
      BY <1>1, <1>2, <3>1, <3>2 DEF RetracedBy
  <2> QED
    BY <1>1, <2>1, RetracesOn
<1>7. /\ vRound' \in 0 .. R /\ vAttempt' \in Attempts /\ vResponse' \in 0 .. R /\ vSeed' \in 0 .. R
      /\ vFault' \in BOOLEAN
  BY <1>1 DEF VInv, VerifyTypeOK
<1> QED
  BY <1>1, <1>2, <1>4, <1>5, <1>6, <1>7, <1>8, VerifyInRounds

\* A rejected candidate was unusable to the signer, too; after a masked failure
\* nothing is claimed.
LEMMA VerifyRejects ==
  ASSUME VInv, UNCHANGED <<oracle, issued>>, VerifyRejectCandidate \/ VerifyPassOverCandidate
  PROVE  VInv'
<1>1. /\ vpc = "rounds" /\ vRound < R /\ vChallenges[vRound] = X /\ vpc' = "rounds"
      /\ vAttempt < MaxAttempts /\ vAttempt' = vAttempt + 1 /\ HeldStep
      /\ UNCHANGED <<vArg, vOpen, vChallenges, vActive, mOut, mlenOut, vResult, vTranscript,
                     vRound, vResponse, vSeed>>
      /\ \/ SeedForm = Degenerate /\ vFault' = vFault
         \/ vFault' = TRUE
  BY DEF VerifyRejectCandidate, VerifyPassOverCandidate, InBaseRound, BaseIndex, verifyHash,
         verifyInput, verifyOutput, HeldStep
<1>2. vAttempt \in Nat /\ vAttempt' \in Attempts
  <2>1. vAttempt \in Attempts
    BY DEF VInv, VerifyTypeOK
  <2>2. vAttempt < MaxAttempts /\ vAttempt' = vAttempt + 1
    BY <1>1
  <2> QED
    BY <2>1, <2>2, ParametersAssumption, BoundAssumption DEF Attempts
<1>3. VerifyIndices'
  <2>1. /\ vResponse = NonbaseBefore(vChallenges, vRound)
        /\ vSeed = BaseBefore(vChallenges, vRound) /\ vRound \in Rounds /\ R \in Nat
    BY <1>1, RoundFacts
  <2>2. vRound # R
    BY <2>1 DEF Rounds
  <2> QED
    BY <1>1, <2>1, <2>2 DEF VerifyIndices, BaseIndex
<1>4. VerifyRetraces'
  <2>1. ASSUME NEW e \in issued, ~vFault', Genuine(e, vArg), e.marred = {}, NEW s \in SecretSeeds,
               NEW seeds \in [Rounds -> RoundSeeds], NEW points \in [Rounds -> RoundPoints(s)],
               OpenedBy(e, s, seeds, points)
        PROVE  RetracedBy(s, seeds, points)'
    <3>1. SeedForm = Degenerate /\ ~vFault
      BY <1>1, <2>1
    <3>2. RetracedBy(s, seeds, points)
      BY <1>1, <2>1, <3>1 DEF VInv, VerifyInv, VerifyRetraces
    <3>3. ~Usable(s, StreamCandidate(s, vArg.sig.salt, seeds[vRound], vRound, vAttempt))
      BY <1>1, <2>1, <3>1, SeedRetraces DEF Usable
    <3>4. AllUnusable(s, vArg.sig.salt, seeds[vRound], vRound, vAttempt)
      BY <1>1, <3>2 DEF RetracedBy, BaseIndex
    <3>5. AllUnusable(s, vArg.sig.salt, seeds[vRound], vRound, vAttempt + 1)
      BY <1>2, <3>3, <3>4, UnusableStep
    <3> QED
      BY <1>1, <3>2, <3>5 DEF RetracedBy
  <2> QED
    BY <1>1, <2>1, RetracesOn
<1>5. /\ vRound' \in 0 .. R /\ vResponse' \in 0 .. R /\ vSeed' \in 0 .. R
      /\ vTranscript' \in Seq(Chunks) /\ vFault' \in BOOLEAN
  BY <1>1 DEF VInv, VerifyTypeOK
<1> QED
  BY <1>1, <1>2, <1>3, <1>4, <1>5, VerifyInRounds

\* The form is the one the signer of a soundly issued signature hashed.
SignersForm(form) ==
  \A e \in issued : Genuine(e, vArg) /\ e.marred = {} =>
    \A s \in SecretSeeds : \A seeds \in [Rounds -> RoundSeeds],
                              points \in [Rounds -> RoundPoints(s)] :
      OpenedBy(e, s, seeds, points) /\ RetracedBy(s, seeds, points)
        => form = CanonicalForm(BaseOf(s), points[vRound])

\* Absorbing the form of a round moves on to the next, where no candidate has
\* been looked at yet.
LEMMA VerifyAbsorbs ==
  ASSUME VInv, UNCHANGED <<oracle, issued>>, vpc = "rounds", vpc' = "rounds", vRound < R,
         UNCHANGED <<vArg, vOpen, vChallenges, vActive, mOut, mlenOut, vResult, vFault>>,
         vRound' = vRound + 1, vAttempt' = 0,
         vResponse' = NonbaseBefore(vChallenges, vRound + 1),
         vSeed' = BaseBefore(vChallenges, vRound + 1),
         vResponse' \in 0 .. R, vSeed' \in 0 .. R,
         HeldStep, XofReleased',
         NEW form \in TriForms, vTranscript' = Append(vTranscript, form),
         ~vFault => SignersForm(form)
  PROVE  VInv'
<1>1. /\ vRound \in Rounds /\ R \in Nat /\ vRound + 1 \in 0 .. R /\ vRound \in Nat
      /\ vChallenges \in ChallengeVectors
  BY RoundFacts DEF Rounds
<1>4. VerifyIndices'
  BY DEF VerifyIndices
<1>5. VerifyRetraces'
  <2>1. ASSUME NEW e \in issued, ~vFault', Genuine(e, vArg), e.marred = {}, NEW s \in SecretSeeds,
               NEW seeds \in [Rounds -> RoundSeeds], NEW points \in [Rounds -> RoundPoints(s)],
               OpenedBy(e, s, seeds, points)
        PROVE  RetracedBy(s, seeds, points)'
    <3>1. RetracedBy(s, seeds, points)
      BY <2>1 DEF VInv, VerifyInv, VerifyRetraces
    <3>2. form = CanonicalForm(BaseOf(s), points[vRound])
      BY <2>1, <3>1 DEF SignersForm
    <3>3. vArg.msg \in Messages
      BY ArgumentFacts DEF VInv, VerifyTypeOK
    <3>4. TranscriptOf(vArg.msg, s, points, vRound + 1)
            = Append(TranscriptOf(vArg.msg, s, points, vRound), form)
      BY <1>1, <3>2, <3>3, TranscriptStep, ZenonT(40)
    <3>5. vTranscript' = TranscriptOf(vArg.msg, s, points, vRound + 1)
      BY <3>1, <3>4 DEF RetracedBy
    <3>6. AllUnusable(s, vArg.sig.salt, seeds[vRound + 1], vRound + 1, 0)
      BY DEF AllUnusable
    <3> QED
      BY <3>5, <3>6 DEF RetracedBy
  <2> QED
    BY <2>1, RetracesOn
<1>6. vTranscript' \in Seq(Chunks) /\ vFault' \in BOOLEAN
  <2>1. vTranscript \in Seq(Chunks) /\ vFault \in BOOLEAN
    BY DEF VInv, VerifyTypeOK
  <2>2. form \in Chunks
    BY DEF Chunks
  <2> QED
    BY <2>1, <2>2
<1>7. vAttempt' \in Attempts
  BY ParametersAssumption, BoundAssumption DEF Attempts
<1> QED
  BY <1>1, <1>4, <1>5, <1>6, <1>7, VerifyInRounds

\* A response of an issued signature has a canonical form, the signer's.
LEMMA VerifyNonbaseRoundInv ==
  ASSUME VInv, UNCHANGED <<oracle, issued>>, VerifyNonbaseRound
  PROVE  VInv'
<1>1. /\ vpc = "rounds" /\ vRound < R /\ vChallenges[vRound] < X
      /\ UNCHANGED <<vResult, vHeld, vFault, vActive, vChallenges, vArg, vOpen, mOut, mlenOut>>
  BY DEF VerifyNonbaseRound, verifyInput, verifyOutput
<1>2. vChallenges[vRound] # X /\ vChallenges[vRound] # BaseIndex
  BY <1>1, RoundFacts, ParametersAssumption DEF BaseIndex
<1>3. vResult = -1 /\ vAttempt = 0
  BY <1>1, <1>2 DEF VInv, VerifyInv, VerifyOutputs, VerifyIndices
<1>6. "round xof" \notin vHeld
  BY <1>3 DEF VInv, VerifyInv, VerifyResources
<1>4. CASE ResponseForm = Degenerate
  <2>1. /\ vpc' = "cleanup"
        /\ UNCHANGED <<vTranscript, vRound, vAttempt, vResponse, vSeed>>
    BY <1>1, <1>4 DEF VerifyNonbaseRound, verifyRounds
  <2>2. VerifyTypeOK'
    BY <1>1, <2>1 DEF VInv, VerifyTypeOK
  <2>3. VerifyResources'
    BY <1>1, <1>6, <2>1 DEF VInv, VerifyInv, VerifyResources
  <2>4. VerifyChallenges'
    BY <2>1 DEF VerifyChallenges
  <2>5. Completeness'
    <3> SUFFICES ASSUME ~vFault, NEW e \in issued, Genuine(e, vArg), e.marred = {}
                 PROVE  FALSE
      BY <1>1 DEF Completeness, Genuine
    <3>1. IssuedEntry(e)
      BY DEF VInv, IssuedInv
    <3>2. PICK s \in SecretSeeds : \E seeds \in [Rounds -> RoundSeeds],
                                      points \in [Rounds -> RoundPoints(s)] :
            OpenedBy(e, s, seeds, points)
      BY <3>1 DEF IssuedEntry
    <3>3. ResponseForm # Degenerate
      BY <1>1, <3>2, ResponseReopens
    <3> QED
      BY <1>4, <3>3
  <2> QED
    BY <1>1, <1>3, <2>1, <2>2, <2>3, <2>4, <2>5, UnchangedGrows, VerifyElsewhere DEF VInv
<1>5. CASE ResponseForm # Degenerate
  <2>1. /\ vpc' = "rounds" /\ vTranscript' = Append(vTranscript, ResponseForm)
        /\ vResponse' = vResponse + 1 /\ vRound' = vRound + 1
        /\ vAttempt' = vAttempt /\ vSeed' = vSeed
    BY <1>1, <1>5 DEF VerifyNonbaseRound
  <2>2. /\ ResponseForm \in TriForms
        /\ vResponse' = NonbaseBefore(vChallenges, vRound + 1) /\ vResponse' \in 0 .. R
        /\ vSeed' = BaseBefore(vChallenges, vRound + 1) /\ vSeed' \in 0 .. R
    BY <1>1, <1>5, <2>1, RoundFacts
  <2>3. SignersForm(ResponseForm)
    BY <1>1, ResponseReopens DEF SignersForm
  <2> QED
    BY <1>1, <1>3, <1>6, <2>1, <2>2, <2>3, VerifyAbsorbs DEF HeldStep, XofReleased
<1> QED
  BY <1>4, <1>5

\* The first candidate with a canonical form is the one the signer committed to.
LEMMA VerifyBaseRoundInv ==
  ASSUME VInv, UNCHANGED <<oracle, issued>>, VerifyBaseRound
  PROVE  VInv'
<1>1. /\ vpc = "rounds" /\ vpc' = "rounds" /\ vRound < R /\ vChallenges[vRound] = X
      /\ SeedForm # Degenerate /\ vTranscript' = Append(vTranscript, SeedForm)
      /\ HeldStep /\ XofReleased' /\ vAttempt' = 0 /\ vSeed' = vSeed + 1
      /\ vRound' = vRound + 1 /\ vResponse' = vResponse
      /\ UNCHANGED <<vResult, vFault, vActive, vChallenges, vArg, vOpen, mOut, mlenOut>>
  BY DEF VerifyBaseRound, InBaseRound, BaseIndex, verifyInput, verifyOutput, HeldStep,
         XofReleased
<1>2. /\ SeedForm \in TriForms /\ vRound \in Rounds
      /\ vResponse' = NonbaseBefore(vChallenges, vRound + 1) /\ vResponse' \in 0 .. R
      /\ vSeed' = BaseBefore(vChallenges, vRound + 1) /\ vSeed' \in 0 .. R
  BY <1>1, RoundFacts
<1>3. vAttempt \in Attempts
  BY DEF VInv, VerifyTypeOK
<1>4. ASSUME ~vFault, NEW e \in issued, Genuine(e, vArg), e.marred = {}, NEW s \in SecretSeeds,
             NEW seeds \in [Rounds -> RoundSeeds], NEW points \in [Rounds -> RoundPoints(s)],
             OpenedBy(e, s, seeds, points), RetracedBy(s, seeds, points)
      PROVE  SeedForm = CanonicalForm(BaseOf(s), points[vRound])
  <2> DEFINE w == StreamCandidate(s, vArg.sig.salt, seeds[vRound], vRound, vAttempt)
  <2>1. SeedForm = CanonicalForm(BaseOf(s), w)
    BY <1>1, <1>4, SeedRetraces
  <2>2. Usable(s, w)
    BY <1>1, <2>1 DEF Usable
  <2>3. AllUnusable(s, vArg.sig.salt, seeds[vRound], vRound, vAttempt)
    BY <1>1, <1>4 DEF RetracedBy, BaseIndex
  <2>4. Usable(s, points[vRound])
        /\ IsFirstUsable(s, vArg.sig.salt, seeds[vRound], vRound, points[vRound])
    BY <1>1, <1>2, <1>4, GenuineFacts
  <2>5. points[vRound] = w
    BY <1>3, <2>2, <2>3, <2>4, FirstUsableUnique
  <2> QED
    BY <2>1, <2>5
<1>5. ~vFault => SignersForm(SeedForm)
  BY <1>4 DEF SignersForm
<1> QED
  BY <1>1, <1>2, <1>5, VerifyAbsorbs

-----------------------------------------------------------------------------
(* The verdict.                                                             *)

\* The transcript of a soundly issued signature hashes to its own digest, so
\* the challenges agree and it is accepted.
LEMMA VerifyCompareInv ==
  ASSUME VInv, UNCHANGED issued, VerifyCompare
  PROVE  VInv' /\ OracleGrows
<1>1. /\ vpc = "rounds" /\ vRound = R /\ vpc' = "cleanup"
      /\ UNCHANGED <<vArg, vOpen, vRound, vAttempt, vResponse, vSeed, mOut, mlenOut, vFault,
                     vTranscript, vActive, vHeld, vChallenges>>
  BY DEF VerifyCompare, verifyRounds, verifyHash, verifyInput, verifyOutput
<1>2. \/ /\ CountsMatch(vResponse, vSeed)
         /\ \E ch \in Challenges :
              /\ ParseHash(Hash(vTranscript), ch)
              /\ vResult' = IF ChallengesEqual(vChallenges, ch) THEN 0 ELSE -1
      \/ /\ ~CountsMatch(vResponse, vSeed)
         /\ UNCHANGED <<oracle, vResult>>
  BY DEF VerifyCompare
<1>3. /\ vResult = -1 /\ mOut = Raw /\ mlenOut = 0
      /\ vResponse = NonbaseBefore(vChallenges, R) /\ vSeed = BaseBefore(vChallenges, R)
      /\ vAttempt = 0 /\ ChallengesValid(vChallenges)
      /\ vArg.sig.digest \in DOMAIN oracle /\ vChallenges = oracle[vArg.sig.digest]
  BY <1>1 DEF VInv, VerifyInv, VerifyOutputs, VerifyIndices, VerifyChallenges
<1>4. CountsMatch(vResponse, vSeed)
  BY <1>3 DEF CountsMatch, ChallengesValid
<1>5. PICK ch \in Challenges :
        /\ ParseHash(Hash(vTranscript), ch)
        /\ vResult' = IF ChallengesEqual(vChallenges, ch) THEN 0 ELSE -1
  BY <1>2, <1>4
<1>6. OracleGrows /\ OracleType'
  BY <1>5, ParseGrows DEF VInv, OracleGrows
<1>7. vResult' \in {0, -1}
  BY <1>5
<1>8. VerifyTypeOK'
  BY <1>1, <1>7 DEF VInv, VerifyTypeOK
<1>9. VerifyResources' /\ VerifyOutputs'
  BY <1>1, <1>3 DEF VInv, VerifyInv, VerifyResources, VerifyOutputs
<1>10. VerifyChallenges' /\ VerifyIndices' /\ VerifyRetraces'
  BY <1>1 DEF VerifyChallenges, VerifyIndices, VerifyRetraces
<1>11. IssuedInv'
  BY <1>6, IssuedStable DEF VInv
<1>12. Completeness'
  <2> SUFFICES ASSUME ~vFault, NEW e \in issued, Genuine(e, vArg), e.marred = {}
               PROVE  vResult' = 0
    BY <1>1 DEF Completeness, Genuine
  <2>1. IssuedEntry(e)
    BY DEF VInv, IssuedInv
  <2>2. PICK s \in SecretSeeds : \E seeds \in [Rounds -> RoundSeeds],
                                    points \in [Rounds -> RoundPoints(s)] :
          OpenedBy(e, s, seeds, points)
    BY <2>1 DEF IssuedEntry
  <2>3. PICK seeds \in [Rounds -> RoundSeeds], points \in [Rounds -> RoundPoints(s)] :
          OpenedBy(e, s, seeds, points)
    BY <2>2
  <2>4. RetracedBy(s, seeds, points)
    BY <1>1, <2>3 DEF VInv, VerifyInv, VerifyRetraces
  <2>5. vTranscript = TranscriptOf(vArg.msg, s, points, R)
    BY <1>1, <2>4 DEF RetracedBy
  <2>6. vArg.sig.digest = Hash(TranscriptOf(vArg.msg, s, points, R))
    BY <1>1, <2>3, GenuineFacts
  <2>7. ch = vChallenges
    BY <1>3, <1>5, <2>5, <2>6 DEF ParseHash
  <2> QED
    BY <1>5, <2>7 DEF ChallengesEqual
<1> QED
  BY <1>6, <1>8, <1>9, <1>10, <1>11, <1>12 DEF VInv, VerifyInv

LEMMA VerifyStepInv ==
  ASSUME VInv, UNCHANGED issued, VerifyStep
  PROVE  VInv' /\ OracleGrows
<1>1. CASE VerifyLocalStep /\ UNCHANGED oracle
  <2>1. OracleGrows
    BY <1>1, UnchangedGrows DEF VInv
  <2> QED
    BY <1>1, <2>1, VerifyAllocInv, VerifyDecodeInv, VerifyMessageInv, VerifyRejects,
       VerifyNonbaseRoundInv, VerifyBaseRoundInv, VerifyFaultInv DEF VerifyLocalStep
<1>2. CASE VerifyParse
  BY <1>2, VerifyParseInv
<1>3. CASE VerifyCompare
  BY <1>3, VerifyCompareInv
<1> QED
  BY <1>1, <1>2, <1>3 DEF VerifyStep

LEMMA VerifyInitInv ==
  ASSUME VerifyInit, oracle = <<>>, issued = {}
  PROVE  VInv
<1> USE DEF VerifyInit
<1>1. VerifyTypeOK
  <2>1. 0 \in 0 .. R /\ 0 \in Attempts /\ <<>> \in Seq(Chunks)
    BY ParametersAssumption, BoundAssumption DEF Attempts
  <2> QED
    BY <2>1 DEF VerifyTypeOK
<1>2. OracleType
  <2>1. DOMAIN oracle = {} /\ oracle = [d \in {} |-> Raw]
    OBVIOUS
  <2> QED
    BY <2>1 DEF OracleType
<1>3. VerifyResources
  BY DEF VerifyResources
<1>4. VerifyOutputs /\ VerifyChallenges /\ VerifyIndices /\ VerifyRetraces
  BY DEF VerifyOutputs, VerifyChallenges, VerifyIndices, VerifyRetraces
<1>5. IssuedInv /\ Completeness
  BY DEF IssuedInv, Completeness
<1> QED
  BY <1>1, <1>2, <1>3, <1>4, <1>5 DEF VInv, VerifyInv
-----------------------------------------------------------------------------
(* Key generation.                                                          *)

KInv == KeypairTypeOK /\ KeypairInv

LEMMA KeypairCallInv ==
  ASSUME KInv, NEW nullPointer \in BOOLEAN, KeypairCall(nullPointer)
  PROVE  KInv'
<1>1. KeypairTypeOK'
  BY DEF KInv, KeypairTypeOK, KeypairCall
<1>2. KeypairInv'
  BY DEF KInv, KeypairInv, KeypairCall
<1> QED
  BY <1>1, <1>2 DEF KInv

LEMMA KeypairFormInv ==
  ASSUME KInv, KeypairForm
  PROVE  KInv'
<1>1. /\ kpc = "forms" /\ kIndex < X /\ kIndex' = kIndex + 1
      /\ kForms' = [kForms EXCEPT ![kIndex] = NonbaseForm(kSeed, kIndex)]
      /\ UNCHANGED <<kpc, kResult, kSeed, kHeld, pkOut, skOut>>
  BY DEF KeypairForm, NextForm
<1>2. kIndex \in 0 .. X /\ kForms = [i \in FormIndex |-> kForms[i]]
  BY DEF KInv, KeypairTypeOK
<1>3. X \in Nat /\ kIndex \in FormIndex /\ kIndex' \in 0 .. X
  BY <1>1, <1>2, ParametersAssumption DEF FormIndex
<1>4. kForms' = [i \in FormIndex |-> kForms'[i]]
  BY <1>1, <1>2
<1>5. KeypairTypeOK'
  BY <1>1, <1>3, <1>4 DEF KInv, KeypairTypeOK
<1>6. \A i \in 0 .. (kIndex' - 1) : kForms'[i] = NonbaseForm(kSeed, i)
  <2>1. \A i \in 0 .. (kIndex - 1) : kForms[i] = NonbaseForm(kSeed, i) /\ i \in FormIndex
    BY <1>1, <1>3 DEF KInv, KeypairInv, FormIndex
  <2>2. \A i \in 0 .. (kIndex' - 1) : i = kIndex \/ i \in 0 .. (kIndex - 1)
    BY <1>1, <1>3 DEF FormIndex
  <2>3. \A i \in FormIndex : kForms'[i] = IF i = kIndex THEN NonbaseForm(kSeed, kIndex)
                                                        ELSE kForms[i]
    BY <1>1, <1>2
  <2> QED
    BY <1>3, <2>1, <2>2, <2>3
<1>7. KeypairInv'
  BY <1>1, <1>6 DEF KInv, KeypairInv
<1> QED
  BY <1>5, <1>7 DEF KInv

LEMMA KeypairPublishInv ==
  ASSUME KInv, KeypairPublish
  PROVE  KInv'
<1>1. /\ kpc = "forms" /\ kIndex = X /\ kpc' = "cleanup" /\ kResult' = 0
      /\ pkOut' = [seed |-> PublicSeed(kSeed), forms |-> kForms, canonical |-> TRUE]
      /\ skOut' = kSeed
      /\ UNCHANGED <<kSeed, kIndex, kForms, kHeld>>
  BY DEF KeypairPublish
<1>2. /\ kSeed \in SecretSeeds /\ \A i \in FormIndex : kForms[i] = NonbaseForm(kSeed, i)
      /\ kForms = [i \in FormIndex |-> kForms[i]]
  BY <1>1 DEF KInv, KeypairInv, KeypairTypeOK, FormIndex
<1>3. pkOut' = PublicKey(kSeed)
  BY <1>1, <1>2 DEF PublicKey
<1>4. KeypairTypeOK'
  BY <1>1, <1>2 DEF KInv, KeypairTypeOK
<1>5. KeypairInv'
  BY <1>1, <1>2, <1>3 DEF KInv, KeypairInv
<1> QED
  BY <1>4, <1>5 DEF KInv

LEMMA KeypairStepInv ==
  ASSUME KInv, KeypairStep
  PROVE  KInv'
<1>1. CASE KeypairAlloc
  BY <1>1 DEF KInv, KeypairTypeOK, KeypairInv, KeypairAlloc
<1>2. CASE KeypairRandom
  <2>1. KeypairTypeOK'
    BY <1>2 DEF KInv, KeypairTypeOK, KeypairRandom
  <2>2. KeypairInv'
    BY <1>2 DEF KInv, KeypairInv, KeypairRandom
  <2> QED
    BY <2>1, <2>2 DEF KInv
<1>3. CASE KeypairFault
  <2>1. KeypairTypeOK'
    BY <1>3 DEF KInv, KeypairTypeOK, KeypairFault
  <2>2. KeypairInv'
    BY <1>3 DEF KInv, KeypairInv, KeypairFault
  <2> QED
    BY <2>1, <2>2 DEF KInv
<1> QED
  BY <1>1, <1>2, <1>3, KeypairFormInv, KeypairPublishInv DEF KeypairStep

\* A key pair that is handed out is consistent.
LEMMA KeypairReturnInv ==
  ASSUME KInv, KeysMatch, keys \subseteq [pk : PublicKeys, sk : SecretSeeds], KeypairReturns
  PROVE  KInv' /\ KeysMatch' /\ keys' \subseteq [pk : PublicKeys, sk : SecretSeeds]
<1>1. /\ kpc = "cleanup" /\ kpc' = "idle" /\ kSeed' = Raw /\ kIndex' = 0
      /\ kForms' = [i \in FormIndex |-> Raw] /\ kHeld' = kHeld \ {"forms"}
      /\ UNCHANGED <<kResult, pkOut, skOut>>
      /\ keys' = IF kResult = 0 THEN keys \cup {[pk |-> pkOut, sk |-> skOut]} ELSE keys
  BY DEF KeypairReturns, KeypairReturn
<1>2. kHeld' = {}
  BY <1>1 DEF KInv, KeypairTypeOK
<1>3. KeypairTypeOK'
  <2>1. 0 \in 0 .. X
    BY ParametersAssumption
  <2> QED
    BY <1>1, <1>2, <2>1 DEF KInv, KeypairTypeOK
<1>4. KeypairInv'
  BY <1>1, <1>2 DEF KInv, KeypairInv
<1>5. kResult = 0 => skOut \in SecretSeeds /\ pkOut = PublicKey(skOut) /\ pkOut \in PublicKeys
  BY <1>1 DEF KInv, KeypairInv, PublicKeys
<1>6. KeysMatch' /\ keys' \subseteq [pk : PublicKeys, sk : SecretSeeds]
  BY <1>1, <1>5 DEF KeysMatch
<1> QED
  BY <1>3, <1>4, <1>6 DEF KInv

-----------------------------------------------------------------------------
(* What is issued, and what is delivered.                                   *)

\* crypto_sign returns 0 with a signature that opens a transcript.
LEMMA PublishedIsIssuable ==
  ASSUME SInv, Published, NEW e,
         e = [pk |-> PublicKey(secretSeed), msg |-> sm.msg, sig |-> sm.sig,
              marred |-> {j \in skipped : sChallenges[j] = BaseIndex}]
  PROVE  IssuedEntry(e)
<1>1. /\ secretSeed \in SecretSeeds /\ sMsg \in Messages /\ salt \in Salts
      /\ roundSeeds \in [Rounds -> RoundSeeds]
  BY DEF SInv, SignInv, SignInputs, HasKey, HasSalt, HasSeeds, HasChallenge
<1>2. /\ Committed(secretSeed, salt, roundSeeds, aAll, skipped, R)
      /\ sDigest = Hash(TranscriptOf(sMsg, secretSeed, aAll, R))
      /\ sDigest \in DOMAIN oracle /\ sChallenges = oracle[sDigest]
      /\ sChallenges \in ChallengeVectors /\ ChallengesValid(sChallenges)
      /\ Answered(secretSeed, sChallenges, roundSeeds, aAll, responses, baseSeeds, R)
  BY DEF SInv, SignInv, SignResponding, SignPublished, HasChallenge
<1>3. /\ sm.sig = [responses |-> responses, seeds |-> baseSeeds, digest |-> sDigest,
                   salt |-> salt, canonical |-> TRUE]
      /\ sm.msg = sMsg
  BY DEF SInv, SignInv, SignPublished
<1>4. responses \in [1 .. K -> Vectors] /\ baseSeeds \in [1 .. BaseSeedCount -> RoundSeeds]
  <2>1. Len(responses) = K /\ Len(baseSeeds) = BaseSeedCount
    BY <1>2 DEF Answered, ChallengesValid
  <2>2. responses \in Seq(Vectors) /\ baseSeeds \in Seq(RoundSeeds)
    BY DEF SInv, SignTypeOK
  <2> QED
    BY <2>1, <2>2
<1>5. IsArgument([pk |-> e.pk, msg |-> e.msg, sig |-> e.sig])
  <2>1. PublicKey(secretSeed) \in PublicKeys
    BY <1>1 DEF PublicKeys
  <2> DEFINE arg == [pk |-> e.pk, msg |-> e.msg, sig |-> e.sig]
  <2>2. DOMAIN arg = {"pk", "msg", "sig"} /\ arg.pk = PublicKey(secretSeed)
        /\ arg.msg \in Messages /\ arg.sig = sm.sig
    BY <1>1, <1>3
  <2> HIDE DEF arg
  <2>3. DOMAIN arg.sig = {"responses", "seeds", "digest", "salt", "canonical"}
        /\ arg.sig.responses \in [1 .. K -> Vectors]
        /\ arg.sig.seeds \in [1 .. BaseSeedCount -> RoundSeeds]
        /\ arg.sig.salt \in Salts /\ arg.sig.canonical \in BOOLEAN
    <3>1. DOMAIN arg.sig = {"responses", "seeds", "digest", "salt", "canonical"}
      BY <1>3, <2>2
    <3>2. arg.sig.responses = responses /\ arg.sig.seeds = baseSeeds
          /\ arg.sig.salt = salt /\ arg.sig.canonical = TRUE
      BY <1>3, <2>2
    <3> QED
      BY <1>1, <1>4, <3>1, <3>2, Zenon
  <2>4. \E k \in PublicKeys : arg.pk \in {k, [k EXCEPT !.canonical = FALSE]}
    BY <2>1, <2>2
  <2>5. IsArgument(arg)
    BY <2>2, <2>3, <2>4 DEF IsArgument
  <2> QED
    BY <2>5 DEF arg
<1>6. e.sig.canonical /\ e.sig.digest \in DOMAIN oracle /\ ChallengesValid(oracle[e.sig.digest])
  BY <1>2, <1>3
<1>7. aAll \in [Rounds -> RoundPoints(secretSeed)]
  <2>1. aAll \in [Rounds -> Vectors \cup {Raw}]
    BY DEF SInv, SignTypeOK
  <2>2. \A j \in Rounds : aAll[j] \in RoundPoints(secretSeed)
    BY <1>2 DEF Committed, Rounds
  <2> QED
    BY <2>1, <2>2
<1>8. OpenedBy(e, secretSeed, roundSeeds, aAll)
  <2> DEFINE except == {j \in Rounds : sChallenges[j] < X} \cup e.marred
  <2>1. \A j \in Rounds : j \in skipped => j \in except
    <3>1. \A j \in Rounds : sChallenges[j] < X \/ sChallenges[j] = BaseIndex
      BY <1>2, CountStep DEF BaseIndex
    <3> QED
      BY <3>1
  <2>2. Committed(secretSeed, salt, roundSeeds, aAll, except, R)
    <3> HIDE DEF except
    <3>1. \A j \in 0 .. (R - 1) : j \in skipped => j \in except
      BY <2>1 DEF Rounds
    <3> QED
      BY <1>2, <3>1 DEF Committed
  <2>3. oracle[e.sig.digest] = sChallenges /\ e.sig.salt = salt /\ e.sig.responses = responses
        /\ e.sig.seeds = baseSeeds /\ e.msg = sMsg /\ e.sig.digest = sDigest
        /\ e.pk = PublicKey(secretSeed)
    BY <1>2, <1>3
  <2> HIDE DEF except
  <2>4. Committed(secretSeed, e.sig.salt, roundSeeds, aAll,
                  {j \in Rounds : oracle[e.sig.digest][j] < X} \cup e.marred, R)
    BY <2>2, <2>3, Zenon DEF except
  <2> QED
    BY <1>2, <2>3, <2>4, Zenon DEF OpenedBy
<1> QED
  BY <1>1, <1>5, <1>6, <1>7, <1>8 DEF IssuedEntry

\* Damage replaces components of a signature by others of their kind.
LEMMA DeliveriesAreArguments ==
  ASSUME IssuedInv, keys \subseteq [pk : PublicKeys, sk : SecretSeeds], NEW arg \in Deliveries
  PROVE  IsArgument(arg)
<1>1. /\ arg.pk \in {k.pk : k \in keys} \cup {[k.pk EXCEPT !.canonical = FALSE] : k \in keys}
      /\ arg.msg \in Messages
      /\ arg.sig \in UNION {{e.sig} \cup DamagedSignatures(e.sig) : e \in issued}
      /\ DOMAIN arg = {"pk", "msg", "sig"}
  BY DEF Deliveries
<1>2. \E k \in PublicKeys : arg.pk \in {k, [k EXCEPT !.canonical = FALSE]}
  BY <1>1
<1>3. PICK e \in issued : arg.sig \in {e.sig} \cup DamagedSignatures(e.sig)
  BY <1>1
<1>4. /\ DOMAIN e.sig = {"responses", "seeds", "digest", "salt", "canonical"}
      /\ e.sig.responses \in [1 .. K -> Vectors]
      /\ e.sig.seeds \in [1 .. BaseSeedCount -> RoundSeeds]
      /\ e.sig.salt \in Salts /\ e.sig.canonical \in BOOLEAN
  BY DEF IssuedInv, IssuedEntry, IsArgument
<1> DEFINE WellFormed(g) ==
             /\ DOMAIN g = {"responses", "seeds", "digest", "salt", "canonical"}
             /\ g.responses \in [1 .. K -> Vectors]
             /\ g.seeds \in [1 .. BaseSeedCount -> RoundSeeds]
             /\ g.salt \in Salts /\ g.canonical \in BOOLEAN
<1>5. WellFormed(arg.sig)
  <2>1. \A d : WellFormed([e.sig EXCEPT !.digest = d])
    BY <1>4
  <2>2. \A t \in Salts : WellFormed([e.sig EXCEPT !.salt = t])
    BY <1>4
  <2>3. WellFormed([e.sig EXCEPT !.canonical = FALSE])
    BY <1>4
  <2>4. \A i \in 1 .. K : \A v \in Altered(e.sig.responses[i]) :
          WellFormed([e.sig EXCEPT !.responses[i] = v])
    <3> SUFFICES ASSUME NEW i \in 1 .. K, NEW v \in Altered(e.sig.responses[i])
                 PROVE  WellFormed([e.sig EXCEPT !.responses[i] = v])
      OBVIOUS
    <3>1. v \in Vectors
      BY <1>4, AlteredAssumption
    <3> QED
      BY <1>4, <3>1
  <2>5. \A i \in 1 .. BaseSeedCount, t \in RoundSeeds : WellFormed([e.sig EXCEPT !.seeds[i] = t])
    BY <1>4
  <2>6. WellFormed(e.sig)
    BY <1>4
  <2> HIDE DEF WellFormed
  <2>7. \A g \in Redigested(e.sig) : WellFormed(g)
    BY <2>1 DEF Redigested
  <2>8. \A g \in Resalted(e.sig) : WellFormed(g)
    BY <2>2 DEF Resalted
  <2>9. \A g \in Misencoded(e.sig) : WellFormed(g)
    BY <2>3 DEF Misencoded
  <2>10. \A g \in Reanswered(e.sig) : WellFormed(g)
    BY <2>4 DEF Reanswered
  <2>11. \A g \in Reseeded(e.sig) : WellFormed(g)
    BY <2>5 DEF Reseeded
  <2>12. \A g \in DamagedSignatures(e.sig) : WellFormed(g)
    BY <2>7, <2>8, <2>9, <2>10, <2>11 DEF DamagedSignatures
  <2> QED
    BY <1>3, <2>6, <2>12
<1> QED
  BY <1>1, <1>2, <1>5 DEF IsArgument

-----------------------------------------------------------------------------
(* Steps of the program.  A handler that is not called keeps its invariant. *)

KeysInv == KInv /\ KeysMatch /\ keys \subseteq [pk : PublicKeys, sk : SecretSeeds]

LEMMA KeypairFrame ==
  ASSUME KeysInv, UNCHANGED <<keypairVars, keys>>
  PROVE  KeysInv'
<1> USE DEF keypairVars
<1>1. KeypairTypeOK'
  BY DEF KeysInv, KInv, KeypairTypeOK
<1>2. KeypairInv'
  BY DEF KeysInv, KInv, KeypairInv
<1>3. KeysMatch' /\ keys' \subseteq [pk : PublicKeys, sk : SecretSeeds]
  BY DEF KeysInv, KeysMatch
<1> QED
  BY <1>1, <1>2, <1>3 DEF KeysInv, KInv

LEMMA CallInvParts ==
  CallInv <=> OneCallRuns /\ KeysInv /\ SInv /\ VInv
BY DEF CallInv, TypeOK, KeysInv, KInv, SInv, VInv

LEMMA CallInvPartsNext ==
  ASSUME OneCallRuns', KeysInv', SInv', VInv'
  PROVE  CallInv'
BY DEF CallInv, TypeOK, KeysInv, KInv, SInv, VInv

\* Where a step of one handler leaves the program counters.
LEMMA StepFromWork ==
  /\ KeypairStep => kpc # "idle"
  /\ SignStep => spc # "idle"
  /\ VerifyStep => vpc # "idle"
<1>1. KeypairStep => kpc # "idle"
  BY DEF KeypairStep, KeypairAlloc, KeypairRandom, KeypairForm, KeypairPublish, KeypairFault
<1>2. SignStep => spc # "idle"
  BY DEF SignStep, SignLocalStep, SignAlloc, SignExpand, SignSalt, SignSeeds, SignHashInit,
         SignMessage, SignRejectCandidate, SignPassOverCandidate, SignCommit, SignDigest,
         SignNonbaseRound, SignBaseRound, SignPublish, SignFault, SignParse
<1>3. VerifyStep => vpc # "idle"
  BY DEF VerifyStep, VerifyLocalStep, VerifyAlloc, VerifyDecode, VerifyHashInit, VerifyMessage,
         VerifyNonbaseRound, VerifyRejectCandidate, VerifyPassOverCandidate, VerifyBaseRound,
         VerifyFault, VerifyParse, VerifyCompare, InBaseRound
<1> QED
  BY <1>1, <1>2, <1>3

\* A signature that is issued joins entries that stay as they are.
LEMMA IssuedGrows ==
  ASSUME SInv, VInv, SignReturns
  PROVE  IssuedInv'
<1>1. UNCHANGED oracle
  BY DEF SignReturns
<1>2. \A e : IssuedEntry(e)' <=> IssuedEntry(e)
  BY <1>1 DEF IssuedEntry, OpenedBy
<1>3. \A e \in issued : IssuedEntry(e)
  BY DEF VInv, IssuedInv
<1> DEFINE entry == [pk |-> PublicKey(secretSeed), msg |-> sm.msg, sig |-> sm.sig,
                     marred |-> {j \in skipped : sChallenges[j] = BaseIndex}]
<1>4. CASE sResult = 0
  <2>1. Published
    BY <1>4 DEF SignReturns, SignReturn, Published
  <2>2. IssuedEntry(entry)
    BY <2>1, PublishedIsIssuable
  <2>3. issued' = issued \cup {entry}
    BY <1>4 DEF SignReturns
  <2> HIDE DEF entry
  <2> QED
    BY <1>2, <1>3, <2>2, <2>3 DEF IssuedInv
<1>5. CASE sResult # 0
  <2>1. issued' = issued
    BY <1>5 DEF SignReturns
  <2> QED
    BY <1>2, <1>3, <2>1 DEF IssuedInv
<1> QED
  BY <1>4, <1>5

-----------------------------------------------------------------------------
(* One lemma for each kind of step.                                         *)

LEMMA CallKeypairInv ==
  ASSUME CallInv, CallKeypair
  PROVE  CallInv'
<1>1. PICK nullPointer \in BOOLEAN : KeypairCall(nullPointer)
  BY DEF CallKeypair
<1>2. /\ UNCHANGED <<oracle, signVars, verifyVars, keys, issued>>
      /\ spc = "idle" /\ vpc = "idle"
  BY DEF CallKeypair, NoCallRuns
<1>3. KeysInv /\ SInv /\ VInv
  BY CallInvParts
<1>4. OracleGrows
  BY <1>2, <1>3, UnchangedGrows DEF SInv
<1>5. KeysInv'
  <2>1. KInv'
    BY <1>1, <1>3, KeypairCallInv DEF KeysInv
  <2> QED
    BY <1>2, <1>3, <2>1 DEF KeysInv, KeysMatch
<1>6. SInv'
  BY <1>2, <1>3, <1>4, SignFrame
<1>7. IssuedInv'
  BY <1>2, <1>3, <1>4, IssuedStable DEF VInv
<1>8. VInv'
  BY <1>2, <1>3, <1>4, <1>7, VerifyFrame
<1>9. OneCallRuns'
  BY <1>2 DEF OneCallRuns, signVars, verifyVars
<1> QED
  BY <1>5, <1>6, <1>8, <1>9, CallInvPartsNext

LEMMA CallSignInv ==
  ASSUME CallInv, CallSign
  PROVE  CallInv'
<1>1. PICK k \in keys, msg \in Messages, bad \in BOOLEAN : SignCall(k.sk, msg, bad)
  BY DEF CallSign
<1>2. /\ UNCHANGED <<oracle, keypairVars, verifyVars, keys, issued>>
      /\ kpc = "idle" /\ vpc = "idle"
  BY DEF CallSign, NoCallRuns
<1>3. KeysInv /\ SInv /\ VInv
  BY CallInvParts
<1>4. OracleGrows
  BY <1>2, <1>3, UnchangedGrows DEF SInv
<1>5. KeysInv'
  BY <1>2, <1>3, KeypairFrame
<1>6. SInv'
  <2>1. k.sk \in SecretSeeds
    BY <1>3 DEF KeysInv
  <2> QED
    BY <1>1, <1>2, <1>3, <2>1, SignCallInv
<1>7. IssuedInv'
  BY <1>2, <1>3, <1>4, IssuedStable DEF VInv
<1>8. VInv'
  BY <1>2, <1>3, <1>4, <1>7, VerifyFrame
<1>9. OneCallRuns'
  BY <1>2 DEF OneCallRuns, keypairVars, verifyVars
<1> QED
  BY <1>5, <1>6, <1>8, <1>9, CallInvPartsNext

LEMMA CallVerifyInv ==
  ASSUME CallInv, CallVerify
  PROVE  CallInv'
<1>1. PICK arg \in Deliveries, open \in BOOLEAN, bad \in BOOLEAN : VerifyCall(arg, open, bad)
  BY DEF CallVerify
<1>2. /\ UNCHANGED <<oracle, keypairVars, signVars, keys, issued>>
      /\ kpc = "idle" /\ spc = "idle"
  BY DEF CallVerify, NoCallRuns
<1>3. KeysInv /\ SInv /\ VInv
  BY CallInvParts
<1>4. OracleGrows
  BY <1>2, <1>3, UnchangedGrows DEF SInv
<1>5. KeysInv'
  BY <1>2, <1>3, KeypairFrame
<1>6. SInv'
  BY <1>2, <1>3, <1>4, SignFrame
<1>7. IsArgument(arg)
  BY <1>3, DeliveriesAreArguments DEF KeysInv, VInv
<1>8. VInv'
  BY <1>1, <1>2, <1>3, <1>7, VerifyCallInv
<1>9. OneCallRuns'
  BY <1>2 DEF OneCallRuns, keypairVars, signVars
<1> QED
  BY <1>5, <1>6, <1>8, <1>9, CallInvPartsNext

LEMMA KeypairWorksInv ==
  ASSUME CallInv, KeypairRuns \/ KeypairReturns
  PROVE  CallInv'
<1>1. UNCHANGED <<oracle, signVars, verifyVars, issued>>
  BY DEF KeypairRuns, KeypairReturns, callerVars
<1>2. KeysInv /\ SInv /\ VInv /\ OneCallRuns
  BY CallInvParts
<1>3. OracleGrows
  BY <1>1, <1>2, UnchangedGrows DEF SInv
<1>4. KeysInv'
  <2>1. CASE KeypairRuns
    <3>1. KInv'
      BY <1>2, <2>1, KeypairStepInv DEF KeysInv, KeypairRuns
    <3> QED
      BY <1>2, <2>1, <3>1 DEF KeysInv, KeysMatch, KeypairRuns, callerVars
  <2>2. CASE KeypairReturns
    BY <1>2, <2>2, KeypairReturnInv DEF KeysInv
  <2> QED
    BY <2>1, <2>2
<1>5. SInv'
  BY <1>1, <1>2, <1>3, SignFrame
<1>6. IssuedInv'
  BY <1>1, <1>2, <1>3, IssuedStable DEF VInv
<1>7. VInv'
  BY <1>1, <1>2, <1>3, <1>6, VerifyFrame
<1>8. kpc # "idle"
  BY StepFromWork DEF KeypairRuns, KeypairReturns, KeypairReturn
<1>9. OneCallRuns'
  BY <1>1, <1>2, <1>8 DEF OneCallRuns, signVars, verifyVars
<1> QED
  BY <1>4, <1>5, <1>7, <1>9, CallInvPartsNext

LEMMA SignWorksInv ==
  ASSUME CallInv, SignRuns \/ SignReturns
  PROVE  CallInv'
<1>1. UNCHANGED <<keypairVars, verifyVars, keys>>
  BY DEF SignRuns, SignReturns, callerVars
<1>2. KeysInv /\ SInv /\ VInv /\ OneCallRuns
  BY CallInvParts
<1>3. KeysInv'
  BY <1>1, <1>2, KeypairFrame
<1>4. SInv' /\ OracleGrows
  <2>1. CASE SignRuns
    BY <1>2, <2>1, SignStepInv DEF SignRuns
  <2>2. CASE SignReturns
    BY <1>2, <2>2, SignReturnInv, UnchangedGrows DEF SignReturns, SInv
  <2> QED
    BY <2>1, <2>2
<1>5. spc # "idle"
  BY StepFromWork DEF SignRuns, SignReturns, SignReturn
<1>6. vpc = "idle" /\ kpc = "idle"
  BY <1>2, <1>5 DEF OneCallRuns
<1>7. IssuedInv'
  <2>1. CASE SignRuns
    BY <1>2, <1>4, <2>1, IssuedStable DEF SignRuns, callerVars, VInv
  <2>2. CASE SignReturns
    BY <1>2, <2>2, IssuedGrows
  <2> QED
    BY <2>1, <2>2
<1>8. VInv'
  BY <1>1, <1>2, <1>4, <1>6, <1>7, VerifyFrame
<1>9. OneCallRuns'
  BY <1>1, <1>6 DEF OneCallRuns, keypairVars, verifyVars
<1> QED
  BY <1>3, <1>4, <1>8, <1>9, CallInvPartsNext

LEMMA VerifyWorksInv ==
  ASSUME CallInv, VerifyRuns \/ VerifyReturns
  PROVE  CallInv'
<1>1. UNCHANGED <<keypairVars, signVars, keys, issued>>
  BY DEF VerifyRuns, VerifyReturns, callerVars
<1>2. KeysInv /\ SInv /\ VInv /\ OneCallRuns
  BY CallInvParts
<1>3. KeysInv'
  BY <1>1, <1>2, KeypairFrame
<1>4. VInv' /\ OracleGrows
  <2>1. CASE VerifyRuns
    BY <1>1, <1>2, <2>1, VerifyStepInv DEF VerifyRuns
  <2>2. CASE VerifyReturns
    BY <1>1, <1>2, <2>2, VerifyReturnInv, UnchangedGrows DEF VerifyReturns, callerVars, VInv
  <2> QED
    BY <2>1, <2>2
<1>5. SInv'
  BY <1>1, <1>2, <1>4, SignFrame
<1>6. vpc # "idle"
  BY StepFromWork DEF VerifyRuns, VerifyReturns, VerifyReturn
<1>7. OneCallRuns'
  BY <1>1, <1>2, <1>6 DEF OneCallRuns, keypairVars, signVars
<1> QED
  BY <1>3, <1>4, <1>5, <1>7, CallInvPartsNext

LEMMA StutterInv ==
  ASSUME CallInv, UNCHANGED vars
  PROVE  CallInv'
<1>1. UNCHANGED <<oracle, keypairVars, signVars, verifyVars, keys, issued>>
  BY DEF vars, callerVars
<1>2. KeysInv /\ SInv /\ VInv /\ OneCallRuns
  BY CallInvParts
<1>3. OracleGrows
  BY <1>1, <1>2, UnchangedGrows DEF SInv
<1>4. KeysInv' /\ SInv'
  BY <1>1, <1>2, <1>3, KeypairFrame, SignFrame
<1>5. IssuedInv'
  BY <1>1, <1>2, <1>3, IssuedStable DEF VInv
<1>6. VInv'
  BY <1>1, <1>2, <1>3, <1>5, VerifyFrame
<1>7. OneCallRuns'
  BY <1>1, <1>2 DEF OneCallRuns, keypairVars, signVars, verifyVars
<1> QED
  BY <1>4, <1>6, <1>7, CallInvPartsNext

-----------------------------------------------------------------------------
LEMMA InitInv ==
  Init => CallInv
<1> SUFFICES ASSUME Init
             PROVE  CallInv
  OBVIOUS
<1>1. KeypairInit /\ SignInit /\ VerifyInit /\ oracle = <<>> /\ keys = {} /\ issued = {}
  BY DEF Init
<1>2. KeysInv
  <2>1. KeypairTypeOK
    <3>1. 0 \in 0 .. X
      BY ParametersAssumption
    <3> QED
      BY <1>1, <3>1 DEF KeypairInit, KeypairTypeOK
  <2>2. KeypairInv
    BY <1>1 DEF KeypairInit, KeypairInv
  <2> QED
    BY <1>1, <2>1, <2>2 DEF KeysInv, KInv, KeysMatch
<1>3. SInv
  BY <1>1, SignInitInv
<1>4. VInv
  BY <1>1, VerifyInitInv
<1>5. OneCallRuns
  BY <1>1 DEF KeypairInit, SignInit, OneCallRuns
<1> QED
  BY <1>2, <1>3, <1>4, <1>5, CallInvParts

LEMMA NextInv ==
  CallInv /\ [Next]_vars => CallInv'
BY CallKeypairInv, CallSignInv, CallVerifyInv, KeypairWorksInv, SignWorksInv, VerifyWorksInv,
   StutterInv DEF Next, LibraryStep

\* What is known of the call in progress holds in every history of calls to
\* crypto_sign_keypair, crypto_sign, crypto_sign_verify and crypto_sign_open.
THEOREM CallsInvariant == Spec => []CallInv
<1>1. Init => CallInv
  BY InitInv
<1>2. CallInv /\ [Next]_vars => CallInv'
  BY NextInv
<1> QED
  BY <1>1, <1>2, PTL DEF Spec

\* Every variable of the three handlers keeps its type.
THEOREM TypeCorrect == Spec => []TypeOK
<1>1. CallInv => TypeOK
  BY DEF CallInv
<1> QED
  BY <1>1, CallsInvariant, PTL

\* crypto_sign and crypto_sign_verify never store or read an answer outside
\* responses, base_seeds and the arrays of a decoded signature.
THEOREM AnswersStayInBounds == Spec => []AnswersInBounds
<1>1. CallInv => AnswersInBounds
  <2> SUFFICES ASSUME CallInv
               PROVE  AnswersInBounds
    OBVIOUS
  <2>1. SInv /\ VInv
    BY CallInvParts
  <2>2. ASSUME spc = "respond", sRound < R
        PROVE  IF sChallenges[sRound] < X THEN Len(responses) < K
                                          ELSE Len(baseSeeds) < BaseSeedCount
    <3>1. /\ sChallenges \in ChallengeVectors /\ ChallengesValid(sChallenges)
          /\ Len(responses) = NonbaseBefore(sChallenges, sRound)
          /\ Len(baseSeeds) = BaseBefore(sChallenges, sRound)
      BY <2>1, <2>2, RespondFacts DEF Answered, SInv, SignInv, SignResponding, HasChallenge
    <3>2. sRound \in Rounds /\ sChallenges[sRound] \in 0 .. X /\ X \in Nat
      BY <2>1, <2>2, <3>1, RespondFacts, ParametersAssumption DEF Rounds, ChallengeVectors
    <3>3. sChallenges[sRound] < X \/ sChallenges[sRound] = X
      BY <3>2
    <3> QED
      BY <3>1, <3>2, <3>3, CountBelow
  <2>3. ASSUME vpc = "rounds", vRound < R
        PROVE  IF vChallenges[vRound] < X THEN vResponse < Len(vArg.sig.responses)
                                          ELSE vSeed < Len(vArg.sig.seeds)
    <3>1. /\ vChallenges[vRound] < X => vResponse + 1 \in 1 .. K
          /\ vChallenges[vRound] = X => vSeed + 1 \in 1 .. BaseSeedCount
          /\ vChallenges[vRound] \in 0 .. X /\ vResponse \in Nat /\ vSeed \in Nat
      BY <2>1, <2>3, RoundFacts
    <3>2. K \in Nat /\ BaseSeedCount \in Nat /\ X \in Nat
      BY ParametersAssumption DEF BaseSeedCount
    <3>3. Len(vArg.sig.responses) = K /\ Len(vArg.sig.seeds) = BaseSeedCount
      <4>1. IsArgument(vArg)
        BY <2>1, <2>3 DEF VInv, VerifyTypeOK
      <4>2. vArg.sig.responses \in [1 .. K -> Vectors]
            /\ vArg.sig.seeds \in [1 .. BaseSeedCount -> RoundSeeds]
        BY <4>1 DEF IsArgument
      <4> QED
        BY <3>2, <4>2
    <3> QED
      BY <3>1, <3>2, <3>3
  <2> QED
    BY <2>2, <2>3 DEF AnswersInBounds
<1> QED
  BY <1>1, CallsInvariant, PTL

\* crypto_sign_verify accepts what crypto_sign issued, unless a resource fails
\* during the verification or failed during the signing of a base round.
THEOREM IssuedSignaturesVerify == Spec => []Completeness
<1>1. CallInv => Completeness
  BY DEF CallInv
<1> QED
  BY <1>1, CallsInvariant, PTL

\* A call that does not return 0 leaves the buffers of its caller alone.
THEOREM FailuresLeaveNoOutput == Spec => []FailureLeavesNoOutput
<1>1. CallInv => FailureLeavesNoOutput
  <2> SUFFICES ASSUME CallInv
               PROVE  FailureLeavesNoOutput
    OBVIOUS
  <2>1. kpc = "idle" /\ kResult # 0 => pkOut = Raw /\ skOut = Raw
    BY DEF CallInv, KeypairInv
  <2>2. spc = "idle" /\ sResult # 0 => sm = Raw /\ smlen = 0
    BY DEF CallInv, TypeOK, SignTypeOK, SignInv, SignOutputs
  <2>3. vpc = "idle" /\ vResult # 0 => mOut = Raw /\ mlenOut = 0
    BY DEF CallInv, TypeOK, VerifyTypeOK, VerifyInv, VerifyOutputs
  <2> QED
    BY <2>1, <2>2, <2>3 DEF FailureLeavesNoOutput
<1> QED
  BY <1>1, CallsInvariant, PTL

\* Every path through the three handlers releases what it acquired.
THEOREM EverythingIsReleased == Spec => []NothingHeldAfterReturn
<1>1. CallInv => NothingHeldAfterReturn
  BY DEF CallInv, KeypairInv, SignInv, SignResources, VerifyInv, VerifyResources,
         NothingHeldAfterReturn
<1> QED
  BY <1>1, CallsInvariant, PTL

\* crypto_sign_keypair hands out only key pairs that belong together.
THEOREM KeyPairsMatch == Spec => []KeysMatch
<1>1. CallInv => KeysMatch
  BY DEF CallInv
<1> QED
  BY <1>1, CallsInvariant, PTL

-----------------------------------------------------------------------------
(* Transcripts as sequences.                                                *)

\* A sequence that begins with m and goes on with g is m \o g.
LEMMA ConcatOf ==
  ASSUME NEW m \in Seq(Chunks), NEW n \in Nat, NEW g \in [1 .. n -> Chunks],
         NEW w \in Seq(Chunks), Len(w) = Len(m) + n,
         \A i \in 1 .. Len(m) : w[i] = m[i],
         \A i \in 1 .. n : w[Len(m) + i] = g[i]
  PROVE  w = m \o g
<1>1. g \in Seq(Chunks) /\ Len(g) = n
  OBVIOUS
<1>2. m \o g \in Seq(Chunks) /\ Len(m \o g) = Len(m) + n
  BY <1>1, ConcatProperties
<1>3. \A i \in 1 .. Len(w) : w[i] = (m \o g)[i]
  <2> SUFFICES ASSUME NEW i \in 1 .. (Len(m) + n)
               PROVE  w[i] = (m \o g)[i]
    OBVIOUS
  <2>1. CASE i \in 1 .. Len(m)
    <3>1. (m \o g)[i] = m[i]
      BY <1>1, <2>1
    <3> QED
      BY <2>1, <3>1
  <2>2. CASE i \notin 1 .. Len(m)
    <3>1. i - Len(m) \in 1 .. n /\ i = Len(m) + (i - Len(m))
      BY <2>2
    <3>2. (m \o g)[i] = g[i - Len(m)]
      BY <1>1, <2>2
    <3>3. w[Len(m) + (i - Len(m))] = g[i - Len(m)]
      BY <3>1
    <3> QED
      BY <3>1, <3>2, <3>3
  <2> QED
    BY <2>1, <2>2
<1> QED
  BY <1>2, <1>3, SeqEqual

\* Absorbing one form more extends the forms absorbed after the message.
LEMMA AbsorbOne ==
  ASSUME NEW m \in Seq(Chunks), NEW n \in Nat, NEW f \in [1 .. n -> Chunks],
         NEW x \in Chunks, NEW g \in [1 .. (n + 1) -> Chunks],
         \A i \in 1 .. (n + 1) : g[i] = Append(m \o f, x)[Len(m) + i]
  PROVE  /\ Append(m \o f, x) = m \o g
         /\ \A i \in 1 .. n : g[i] = f[i]
         /\ g[n + 1] = x
<1> DEFINE w == Append(m \o f, x)
<1>1. /\ w \in Seq(Chunks) /\ Len(w) = Len(m) + (n + 1)
      /\ \A i \in 1 .. Len(m) : w[i] = m[i]
      /\ \A i \in 1 .. n : w[Len(m) + i] = f[i]
      /\ w[Len(m) + (n + 1)] = x
  <2>1. f \in Seq(Chunks) /\ Len(f) = n
    OBVIOUS
  <2> QED
    BY <2>1, SMTT(30)
<1>2. \A i \in 1 .. (n + 1) : g[i] = w[Len(m) + i]
  OBVIOUS
<1> HIDE DEF w
<1>3. w = m \o g
  BY <1>1, <1>2, ConcatOf
<1>4. \A i \in 1 .. n : g[i] = f[i]
  <2>1. \A i \in 1 .. n : i \in 1 .. (n + 1)
    OBVIOUS
  <2> QED
    BY <1>1, <1>2, <2>1
<1>5. g[n + 1] = x
  BY <1>1, <1>2
<1> QED
  BY <1>3, <1>4, <1>5 DEF w

\* A transcript of R forms says which message it is of, and which forms.
LEMMA SameTranscript ==
  ASSUME NEW m \in Messages, NEW msg \in Messages,
         NEW f \in [1 .. R -> TriForms], NEW g \in [1 .. R -> TriForms],
         Transcript(m, f) = Transcript(msg, g)
  PROVE  m = msg /\ f = g
<1> USE DEF Transcript
<1>1. R \in Nat
  BY ParametersAssumption
<1>2. f \in Seq(Chunks) /\ Len(f) = R /\ g \in Seq(Chunks) /\ Len(g) = R
  BY <1>1 DEF Chunks
<1>3. MessageChunk(m) \in Seq(Chunks) /\ MessageChunk(msg) \in Seq(Chunks)
  BY MessageChunkType
<1>4. Len(MessageChunk(m)) = Len(MessageChunk(msg))
  <2>1. Len(MessageChunk(m) \o f) = Len(MessageChunk(m)) + R
        /\ Len(MessageChunk(msg) \o g) = Len(MessageChunk(msg)) + R
    BY <1>2, <1>3
  <2> QED
    BY <1>1, <1>3, <2>1
<1>5. f = g
  <2>1. \A i \in 1 .. R : f[i] = (MessageChunk(m) \o f)[Len(MessageChunk(m)) + i]
                          /\ g[i] = (MessageChunk(msg) \o g)[Len(MessageChunk(msg)) + i]
    BY <1>1, <1>2, <1>3
  <2>2. \A i \in 1 .. R : f[i] = g[i]
    BY <1>4, <2>1
  <2>3. f = [i \in 1 .. R |-> f[i]] /\ g = [i \in 1 .. R |-> g[i]]
    OBVIOUS
  <2>4. [i \in 1 .. R |-> f[i]] = [i \in 1 .. R |-> g[i]]
    BY <2>2
  <2> QED
    BY <2>3, <2>4
<1>6. m = msg
  <2>1. CASE Len(m) # 0 /\ Len(msg) # 0
    <3>1. MessageChunk(m) = <<m>> /\ MessageChunk(msg) = <<msg>>
      BY <2>1 DEF MessageChunk
    <3>2. (<<m>> \o f)[1] = m /\ (<<msg>> \o g)[1] = msg
      <4>1. <<m>> \in Seq(Chunks) /\ <<msg>> \in Seq(Chunks)
        BY <1>3, <3>1
      <4> QED
        BY <1>1, <1>2, <4>1
    <3> QED
      BY <3>1, <3>2
  <2>2. CASE Len(m) = 0 /\ Len(msg) = 0
    BY <2>2, MessageAssumption
  <2>3. ~(Len(m) = 0 /\ Len(msg) # 0) /\ ~(Len(m) # 0 /\ Len(msg) = 0)
    BY <1>4 DEF MessageChunk
  <2> QED
    BY <2>1, <2>2, <2>3
<1> QED
  BY <1>5, <1>6

\* The transcript of usable points is one a call can have hashed.
LEMMA TranscriptForms ==
  ASSUME NEW s \in SecretSeeds, NEW points,
         \A j \in Rounds : points[j] \in RoundPoints(s) /\ Usable(s, points[j])
  PROVE  [i \in 1 .. R |-> CanonicalForm(BaseOf(s), points[i - 1])] \in [1 .. R -> TriForms]
<1>1. RoundPoints(s) \subseteq Vectors
  BY AlgebraAssumption
<1>2. ASSUME NEW i \in 1 .. R
      PROVE  CanonicalForm(BaseOf(s), points[i - 1]) \in TriForms
  <2>1. i - 1 \in Rounds
    BY ParametersAssumption DEF Rounds
  <2> QED
    BY <1>1, <2>1, UsableForm
<1> QED
  BY <1>2

-----------------------------------------------------------------------------
(* What is known of an accepted signature is preserved by every step.       *)

\* Verification is undisturbed while nothing of it moves.
LEMMA AuthFrame ==
  ASSUME AuthInv, UNCHANGED verifyVars, OracleGrows, issued \subseteq issued'
  PROVE  AuthInv'
<1> USE DEF verifyVars, verifyRounds, verifyHash, verifyInput, verifyOutput
<1>1. VerifyDigest'
  BY DEF AuthInv, VerifyDigest
<1>2. VerifyDecoded'
  BY DEF AuthInv, VerifyDecoded, Accepted
<1>3. VerifyAbsorbed'
  <2>1. UNCHANGED <<Accepted, AbsorbedForms>>
    BY DEF Accepted, AbsorbedForms
  <2>2. \A j, form : AnswerLeadsTo(j, form)' <=> AnswerLeadsTo(j, form)
    BY DEF AnswerLeadsTo, ResponseLeadsTo, SeedLeadsTo, VerifyBase
  <2> QED
    BY <2>1, <2>2 DEF AuthInv, VerifyAbsorbed
<1>4. VerifyAccepted'
  <2>1. UNCHANGED <<vpc, vResult, vArg, vRound, vSeed, vChallenges, vTranscript>>
    OBVIOUS
  <2> HIDE DEF verifyVars, verifyRounds, verifyHash, verifyInput, verifyOutput
  <2> QED
    BY <2>1 DEF AuthInv, VerifyAccepted, Accepted, OracleGrows
<1> QED
  BY <1>1, <1>2, <1>3, <1>4 DEF AuthInv

\* Damage keeps the digest of a signature or puts a stray one in its place.
LEMMA DeliveredDigest ==
  ASSUME IssuedInv, NEW arg \in Deliveries
  PROVE  arg.sig.digest \in StrayDigests \cup {e.sig.digest : e \in issued}
<1>1. PICK e \in issued : arg.sig \in {e.sig} \cup DamagedSignatures(e.sig)
  BY DEF Deliveries
<1>2. DOMAIN e.sig = {"responses", "seeds", "digest", "salt", "canonical"}
  BY DEF IssuedInv, IssuedEntry, IsArgument
<1>3. \A g \in Redigested(e.sig) : g.digest \in StrayDigests
  BY <1>2 DEF Redigested
<1>4. \A g \in Resalted(e.sig) \cup Misencoded(e.sig) : g.digest = e.sig.digest
  BY <1>2 DEF Resalted, Misencoded
<1>5. \A g \in Reanswered(e.sig) \cup Reseeded(e.sig) : g.digest = e.sig.digest
  BY <1>2 DEF Reanswered, Reseeded
<1> QED
  BY <1>1, <1>3, <1>4, <1>5 DEF DamagedSignatures

LEMMA CallVerifyAuth ==
  ASSUME CallInv, AuthInv, CallVerify
  PROVE  AuthInv'
<1>1. PICK arg \in Deliveries, open \in BOOLEAN, bad \in BOOLEAN : VerifyCall(arg, open, bad)
  BY DEF CallVerify
<1>2. vpc' \in {"cleanup", "alloc"} /\ vResult' = -1 /\ vArg' = arg /\ issued' = issued
  BY <1>1 DEF VerifyCall, CallVerify
<1>3. arg.sig.digest \in StrayDigests \cup {e.sig.digest : e \in issued}
  BY DeliveredDigest DEF CallInv
<1>4. ~Accepted'
  BY <1>2 DEF Accepted
<1> QED
  BY <1>2, <1>3, <1>4 DEF AuthInv, VerifyDigest, VerifyDecoded, VerifyAbsorbed, VerifyAccepted

\* The stages before the rounds, and the exits, accept nothing.
LEMMA AuthElsewhere ==
  ASSUME AuthInv, UNCHANGED <<vArg, issued>>, vpc # "idle",
         vpc' \in {"decode", "parse", "hash", "message", "cleanup"}, vResult' = -1,
         vpc' \in {"decode", "cleanup"} \/ vArg.pk.canonical
  PROVE  AuthInv'
<1>1. ~Accepted' /\ vpc' # "rounds"
  BY DEF Accepted
<1>2. VerifyDigest' /\ VerifyDecoded'
  BY <1>1 DEF AuthInv, VerifyDigest, VerifyDecoded
<1> QED
  BY <1>1, <1>2 DEF AuthInv, VerifyAbsorbed, VerifyAccepted

LEMMA VerifyElsewhereAuth ==
  ASSUME CallInv, AuthInv, UNCHANGED issued,
         VerifyAlloc \/ VerifyDecode \/ VerifyParse \/ VerifyHashInit \/ VerifyFault
  PROVE  AuthInv'
<1>1. /\ vpc \in {"alloc", "decode", "parse", "hash", "message", "rounds"}
      /\ vResult' = vResult /\ vArg' = vArg
      /\ vpc' \in {"decode", "parse", "hash", "message", "cleanup"}
      /\ vpc' = "parse" => vArg.pk.canonical
      /\ vpc' = "hash" => vpc = "parse"
      /\ vpc' = "message" => vpc = "hash"
  BY DEF VerifyAlloc, VerifyDecode, VerifyParse, VerifyHashInit, VerifyFault, verifyInput,
         verifyOutput
<1>2. vResult = -1
  BY <1>1 DEF CallInv, VerifyInv, VerifyOutputs
<1>3. vpc' \in {"decode", "cleanup"} \/ vArg.pk.canonical
  BY <1>1 DEF AuthInv, VerifyDecoded
<1> QED
  BY <1>1, <1>2, <1>3, AuthElsewhere

\* What every step does that stays in the rounds.
LEMMA AuthInRounds ==
  ASSUME AuthInv, UNCHANGED <<vArg, vResult, issued>>, vpc \in {"message", "rounds"},
         vpc' = "rounds", VerifyAbsorbed'
  PROVE  AuthInv'
<1>1. ~Accepted'
  BY DEF Accepted
<1> QED
  BY <1>1 DEF AuthInv, VerifyDigest, VerifyDecoded, VerifyAccepted

\* The message alone: no round is absorbed yet.
LEMMA VerifyMessageAuth ==
  ASSUME CallInv, AuthInv, UNCHANGED issued, VerifyMessage
  PROVE  AuthInv'
<1>1. /\ vpc = "message" /\ vpc' = "rounds" /\ vTranscript' = MessageChunk(vArg.msg)
      /\ UNCHANGED <<vArg, vResult, vRound, vSeed, vChallenges>>
  BY DEF VerifyMessage, verifyRounds, verifyInput
<1>2. vRound = 0 /\ vSeed = 0 /\ vArg.msg \in Messages
  BY <1>1, ArgumentFacts DEF CallInv, VerifyInv, VerifyChallenges, TypeOK, VerifyTypeOK
<1>3. AbsorbedForms' = <<>>
  BY <1>1, <1>2 DEF AbsorbedForms
<1>4. vTranscript' = MessageChunk(vArg.msg) \o <<>>
  BY <1>1, <1>2, MessageChunkType, ConcatEmptySeq
<1>5. VerifyAbsorbed'
  BY <1>1, <1>2, <1>3, <1>4 DEF VerifyAbsorbed, Transcript
<1> QED
  BY <1>1, <1>5, AuthInRounds

\* A candidate that is not taken is not absorbed.
LEMMA VerifyRejectsAuth ==
  ASSUME CallInv, AuthInv, UNCHANGED issued, VerifyRejectCandidate \/ VerifyPassOverCandidate
  PROVE  AuthInv'
<1>1. /\ vpc = "rounds" /\ vpc' = "rounds"
      /\ UNCHANGED <<vArg, vResult, vTranscript, vRound, vSeed, vChallenges>>
  BY DEF VerifyRejectCandidate, VerifyPassOverCandidate, InBaseRound, verifyHash, verifyInput
<1>2. AbsorbedForms' = AbsorbedForms
  BY <1>1 DEF AbsorbedForms
<1>3. \A j, form : AnswerLeadsTo(j, form)' <=> AnswerLeadsTo(j, form)
  BY <1>1 DEF AnswerLeadsTo, ResponseLeadsTo, SeedLeadsTo, VerifyBase
<1>4. VerifyAbsorbed'
  BY <1>1, <1>2, <1>3 DEF AuthInv, VerifyAbsorbed
<1> QED
  BY <1>1, <1>4, AuthInRounds

\* A round that is absorbed adds what its answer leads to, and counts its seed
\* if it is a base round.
LEMMA AbsorbsAuth ==
  ASSUME CallInv, AuthInv, vpc = "rounds", vpc' = "rounds", vRound < R,
         UNCHANGED <<vArg, vResult, vChallenges, issued>>,
         vRound' = vRound + 1, vSeed' = BaseBefore(vChallenges, vRound + 1),
         NEW form, vTranscript' = Append(vTranscript, form), AnswerLeadsTo(vRound, form)
  PROVE  AuthInv'
<1> DEFINE m == MessageChunk(vArg.msg)
           f == AbsorbedForms
           g == AbsorbedForms'
<1>1. VInv
  BY CallInvParts
<1>2. /\ vRound \in Rounds /\ vRound \in Nat /\ vChallenges \in ChallengeVectors
      /\ vSeed = BaseBefore(vChallenges, vRound) /\ vSeed \in Nat
  BY <1>1, RoundFacts DEF Rounds
<1>3. /\ vTranscript = m \o f
      /\ \A j \in 0 .. (vRound - 1) : AnswerLeadsTo(j, f[j + 1])
      /\ \A i \in 1 .. vSeed : \E j \in 0 .. (vRound - 1) :
           vChallenges[j] = X /\ i = BaseBefore(vChallenges, j) + 1
  BY DEF AuthInv, VerifyAbsorbed, Transcript
<1>4. m \in Seq(Chunks)
  BY <1>1, ArgumentFacts, MessageChunkType DEF VInv, VerifyTypeOK
<1>5. f \in [1 .. vRound -> Chunks] /\ form \in Chunks
  <2>1. \A i \in 1 .. vRound : f[i] \in TriForms
    <3> SUFFICES ASSUME NEW i \in 1 .. vRound
                 PROVE  f[i] \in TriForms
      OBVIOUS
    <3>1. i - 1 \in 0 .. (vRound - 1) /\ (i - 1) + 1 = i
      BY <1>2
    <3>2. AnswerLeadsTo(i - 1, f[(i - 1) + 1])
      BY <1>3, <3>1
    <3> QED
      BY <3>1, <3>2 DEF AnswerLeadsTo
  <2>2. f = [i \in 1 .. vRound |-> f[i]]
    BY DEF AbsorbedForms
  <2>3. form \in TriForms
    BY DEF AnswerLeadsTo
  <2> HIDE DEF f
  <2> QED
    BY <2>1, <2>2, <2>3 DEF Chunks
<1>6. g = [i \in 1 .. (vRound + 1) |-> vTranscript'[Len(m) + i]]
  BY DEF AbsorbedForms
<1>7. vTranscript' = Append(m \o f, form)
  BY <1>3
<1> HIDE DEF f, g, m
<1>8. /\ vTranscript' = m \o g
      /\ \A i \in 1 .. vRound : g[i] = f[i]
      /\ g[vRound + 1] = form
  <2>1. vTranscript' \in Seq(Chunks) /\ Len(vTranscript') = Len(m) + (vRound + 1)
    <3>1. f \in Seq(Chunks) /\ Len(f) = vRound
      BY <1>2, <1>5
    <3>2. m \o f \in Seq(Chunks) /\ Len(m \o f) = Len(m) + vRound
      BY <1>4, <3>1, ConcatProperties
    <3> QED
      BY <1>2, <1>4, <1>5, <1>7, <3>2, AppendProperties
  <2>2. \A i \in 1 .. (vRound + 1) : vTranscript'[Len(m) + i] \in Chunks
    <3> SUFFICES ASSUME NEW i \in 1 .. (vRound + 1)
                 PROVE  vTranscript'[Len(m) + i] \in Chunks
      OBVIOUS
    <3> DEFINE k == Len(m) + i
    <3>1. k \in 1 .. Len(vTranscript')
      BY <1>2, <1>4, <2>1
    <3> HIDE DEF k
    <3>2. vTranscript'[k] \in Chunks
      BY <2>1, <3>1, ElementOfSeq
    <3> QED
      BY <3>2 DEF k
  <2>3. /\ g \in [1 .. (vRound + 1) -> Chunks]
        /\ \A i \in 1 .. (vRound + 1) : g[i] = Append(m \o f, form)[Len(m) + i]
    <3>1. \A i \in 1 .. (vRound + 1) : g[i] = vTranscript'[Len(m) + i]
      BY <1>6
    <3>2. g \in [1 .. (vRound + 1) -> Chunks]
      BY <1>6, <2>2
    <3> QED
      BY <1>7, <3>1, <3>2, Zenon
  <2>4. /\ Append(m \o f, form) = m \o g
        /\ \A i \in 1 .. vRound : g[i] = f[i]
        /\ g[vRound + 1] = form
    BY <1>2, <1>4, <1>5, <2>3, AbsorbOne, ZenonT(40)
  <2> QED
    BY <1>7, <2>4, Zenon
<1>9. \A j \in 0 .. vRound : AnswerLeadsTo(j, g[j + 1])
  <2> SUFFICES ASSUME NEW j \in 0 .. vRound
               PROVE  AnswerLeadsTo(j, g[j + 1])
    OBVIOUS
  <2>1. CASE j = vRound
    BY <1>8, <2>1
  <2>2. CASE j # vRound
    <3>1. j \in 0 .. (vRound - 1) /\ j + 1 \in 1 .. vRound
      BY <1>2, <2>2
    <3> QED
      BY <1>3, <1>8, <3>1
  <2> QED
    BY <2>1, <2>2
<1>10. \A i \in 1 .. vSeed' : \E j \in 0 .. vRound :
         vChallenges[j] = X /\ i = BaseBefore(vChallenges, j) + 1
  <2> SUFFICES ASSUME NEW i \in 1 .. vSeed'
               PROVE  \E j \in 0 .. vRound :
                        vChallenges[j] = X /\ i = BaseBefore(vChallenges, j) + 1
    OBVIOUS
  <2>1. CASE i \in 1 .. vSeed
    <3>1. PICK j \in 0 .. (vRound - 1) :
            vChallenges[j] = X /\ i = BaseBefore(vChallenges, j) + 1
      BY <1>3, <2>1
    <3>2. j \in 0 .. vRound
      BY <1>2
    <3> QED
      BY <3>1, <3>2
  <2>2. CASE i \notin 1 .. vSeed
    <3>1. vSeed' = vSeed + IF vChallenges[vRound] = X THEN 1 ELSE 0
      BY <1>2, CountStep
    <3>2. vChallenges[vRound] = X /\ i = vSeed + 1
      BY <1>2, <2>2, <3>1
    <3>3. vRound \in 0 .. vRound
      BY <1>2
    <3> QED
      BY <1>2, <3>2, <3>3
  <2> QED
    BY <2>1, <2>2
<1>11. VerifyAbsorbed'
  <2>1. vTranscript' = Transcript(vArg.msg, AbsorbedForms')
    BY <1>8 DEF m, g, Transcript
  <2>2. ASSUME NEW j \in 0 .. vRound
        PROVE  AnswerLeadsTo(j, AbsorbedForms[j + 1])'
    <3>1. AnswerLeadsTo(j, g[j + 1])
      BY <1>9
    <3> QED
      BY <3>1 DEF g, AnswerLeadsTo, ResponseLeadsTo, SeedLeadsTo, VerifyBase
  <2>3. 0 .. (vRound' - 1) = 0 .. vRound
    BY <1>2
  <2> QED
    BY <1>10, <2>1, <2>2, <2>3 DEF VerifyAbsorbed
<1> QED
  BY <1>11, AuthInRounds

LEMMA VerifyNonbaseRoundAuth ==
  ASSUME CallInv, AuthInv, UNCHANGED issued, VerifyNonbaseRound
  PROVE  AuthInv'
<1>1. /\ vpc = "rounds" /\ vRound < R /\ vChallenges[vRound] < X
      /\ UNCHANGED <<vArg, vResult, vChallenges>>
  BY DEF VerifyNonbaseRound, verifyInput
<1>2. VInv
  BY CallInvParts
<1>3. CASE ResponseForm = Degenerate
  <2>1. vpc' = "cleanup" /\ vResult = -1
    BY <1>1, <1>2, <1>3 DEF VerifyNonbaseRound, VInv, VerifyInv, VerifyOutputs
  <2> QED
    BY <1>1, <2>1, AuthElsewhere
<1>4. CASE ResponseForm # Degenerate
  <2>1. /\ vpc' = vpc /\ vRound' = vRound + 1 /\ vSeed' = vSeed
        /\ vTranscript' = Append(vTranscript, ResponseForm)
    BY <1>4 DEF VerifyNonbaseRound
  <2>2. /\ vResponse = NonbaseBefore(vChallenges, vRound)
        /\ BaseBefore(vChallenges, vRound + 1) = vSeed
        /\ ResponseForm \in TriForms
    BY <1>1, <1>2, <1>4, RoundFacts
  <2>3. X \in Nat /\ vChallenges[vRound] \in 0 .. X
    BY <1>1, <1>2, RoundFacts, ParametersAssumption
  <2>4. AnswerLeadsTo(vRound, ResponseForm)
    BY <1>1, <2>2, <2>3 DEF AnswerLeadsTo, ResponseLeadsTo, ResponseForm
  <2> QED
    BY <1>1, <2>1, <2>2, <2>4, AbsorbsAuth
<1> QED
  BY <1>3, <1>4

LEMMA VerifyBaseRoundAuth ==
  ASSUME CallInv, AuthInv, UNCHANGED issued, VerifyBaseRound
  PROVE  AuthInv'
<1>1. /\ vpc = "rounds" /\ vRound < R /\ vChallenges[vRound] = X /\ SeedForm # Degenerate
      /\ vpc' = vpc /\ vRound' = vRound + 1 /\ vSeed' = vSeed + 1
      /\ vTranscript' = Append(vTranscript, SeedForm)
      /\ UNCHANGED <<vArg, vResult, vChallenges>>
  BY DEF VerifyBaseRound, InBaseRound, BaseIndex, verifyInput
<1>2. VInv
  BY CallInvParts
<1>3. /\ vSeed = BaseBefore(vChallenges, vRound)
      /\ BaseBefore(vChallenges, vRound + 1) = vSeed + 1
      /\ SeedForm \in TriForms
  BY <1>1, <1>2, RoundFacts
<1>4. X \in Nat /\ vAttempt \in Attempts
  BY <1>2, ParametersAssumption DEF VInv, VerifyTypeOK
<1>5. AnswerLeadsTo(vRound, SeedForm)
  BY <1>1, <1>3, <1>4 DEF AnswerLeadsTo, SeedLeadsTo, SeedForm
<1> QED
  BY <1>1, <1>3, <1>5, AbsorbsAuth

\* The challenges compared are those of the digest given and of the digest found.
LEMMA VerifyCompareAuth ==
  ASSUME CallInv, AuthInv, UNCHANGED issued, VerifyCompare
  PROVE  AuthInv'
<1>1. /\ vpc = "rounds" /\ vRound = R /\ vpc' = "cleanup"
      /\ UNCHANGED <<vArg, vRound, vResponse, vSeed, vTranscript, vChallenges>>
  BY DEF VerifyCompare, verifyRounds, verifyHash, verifyInput
<1>2. VInv
  BY CallInvParts
<1>3. /\ vResult = -1 /\ vSeed = BaseSeedCount /\ vResponse = K
      /\ vArg.sig.digest \in DOMAIN oracle /\ vChallenges = oracle[vArg.sig.digest]
      /\ vChallenges \in ChallengeVectors
  BY <1>1, <1>2 DEF VInv, VerifyInv, VerifyOutputs, VerifyIndices, VerifyChallenges,
                    ChallengesValid
<1>4. PICK ch \in Challenges :
        /\ ParseHash(Hash(vTranscript), ch)
        /\ vResult' = IF ChallengesEqual(vChallenges, ch) THEN 0 ELSE -1
  BY <1>3 DEF VerifyCompare, CountsMatch
<1>5. /\ OracleGrows /\ Hash(vTranscript) \in DOMAIN oracle'
      /\ oracle'[Hash(vTranscript)] = ch /\ ch \in ChallengeVectors
  BY <1>2, <1>4, ParseGrows DEF VInv
<1>6. VerifyDigest' /\ VerifyDecoded'
  BY <1>1 DEF AuthInv, VerifyDigest, VerifyDecoded
<1>7. VerifyAbsorbed'
  <2>1. AbsorbedForms' = AbsorbedForms
    BY <1>1 DEF AbsorbedForms
  <2>2. \A j, form : AnswerLeadsTo(j, form)' <=> AnswerLeadsTo(j, form)
    BY <1>1 DEF AnswerLeadsTo, ResponseLeadsTo, SeedLeadsTo, VerifyBase
  <2> QED
    BY <1>1, <2>1, <2>2 DEF AuthInv, VerifyAbsorbed
<1>8. VerifyAccepted'
  <2> SUFFICES ASSUME Accepted'
               PROVE  VerifyAccepted'
    BY DEF VerifyAccepted
  <2>1. ChallengesEqual(vChallenges, ch)
    BY <1>4 DEF Accepted
  <2>2. ch = vChallenges
    <3>1. \A j \in Rounds : vChallenges[j] = ch[j]
      BY <2>1 DEF ChallengesEqual
    <3> QED
      BY <1>3, <1>5, <3>1 DEF ChallengeVectors
  <2>3. /\ vArg.sig.digest \in DOMAIN oracle' /\ oracle'[vArg.sig.digest] = vChallenges
    BY <1>3, <1>5 DEF OracleGrows
  <2> QED
    BY <1>1, <1>3, <1>5, <2>2, <2>3 DEF VerifyAccepted
<1> QED
  BY <1>6, <1>7, <1>8 DEF AuthInv

LEMMA VerifyReturnAuth ==
  ASSUME AuthInv, VerifyReturn
  PROVE  AuthInv'
<1>1. vpc' = "idle"
  BY DEF VerifyReturn
<1> QED
  BY <1>1 DEF AuthInv, Accepted, VerifyDigest, VerifyDecoded, VerifyAbsorbed, VerifyAccepted

LEMMA VerifyStepAuth ==
  ASSUME CallInv, AuthInv, UNCHANGED issued, VerifyStep
  PROVE  AuthInv'
BY VerifyElsewhereAuth, VerifyMessageAuth, VerifyRejectsAuth, VerifyNonbaseRoundAuth,
   VerifyBaseRoundAuth, VerifyCompareAuth DEF VerifyStep, VerifyLocalStep

-----------------------------------------------------------------------------
LEMMA InitAuth ==
  Init => AuthInv
BY DEF Init, VerifyInit, AuthInv, Accepted, VerifyDigest, VerifyDecoded, VerifyAbsorbed,
       VerifyAccepted

\* What the other handlers and the program do leaves verification alone.
LEMMA ElsewhereAuth ==
  ASSUME CallInv, AuthInv,
         CallKeypair \/ CallSign \/ KeypairRuns \/ SignRuns \/ KeypairReturns \/ SignReturns
           \/ UNCHANGED vars
  PROVE  AuthInv'
<1>1. UNCHANGED verifyVars
  BY DEF CallKeypair, CallSign, KeypairRuns, SignRuns, KeypairReturns, SignReturns, vars
<1>2. issued \subseteq issued'
  BY DEF CallKeypair, CallSign, KeypairRuns, SignRuns, KeypairReturns, SignReturns, vars,
         callerVars
<1>3. SInv
  BY CallInvParts
<1>4. OracleGrows
  <2>1. CASE SignRuns
    BY <1>3, <2>1, SignStepInv DEF SignRuns
  <2>2. CASE ~SignRuns
    <3>1. UNCHANGED oracle
      BY <2>2 DEF CallKeypair, CallSign, KeypairRuns, KeypairReturns, SignReturns, vars
    <3> QED
      BY <1>3, <3>1, UnchangedGrows DEF SInv
  <2> QED
    BY <2>1, <2>2
<1> QED
  BY <1>1, <1>2, <1>4, AuthFrame

LEMMA NextAuth ==
  ASSUME CallInv, AuthInv, [Next]_vars
  PROVE  AuthInv'
<1>1. CASE VerifyRuns \/ VerifyReturns
  <2>1. UNCHANGED issued
    BY <1>1 DEF VerifyRuns, VerifyReturns, callerVars
  <2> QED
    BY <1>1, <2>1, VerifyStepAuth, VerifyReturnAuth DEF VerifyRuns, VerifyReturns
<1>2. CASE ~(VerifyRuns \/ VerifyReturns)
  BY <1>2, CallVerifyAuth, ElsewhereAuth DEF Next, LibraryStep
<1> QED
  BY <1>1, <1>2

\* The inductive invariant holds in every history of calls.
THEOREM InvariantHolds == Spec => []IInv
<1>1. Init => IInv
  BY InitInv, InitAuth DEF IInv
<1>2. IInv /\ [Next]_vars => IInv'
  BY NextInv, NextAuth DEF IInv
<1> QED
  BY <1>1, <1>2, PTL DEF Spec

-----------------------------------------------------------------------------
(* Acceptance.                                                              *)

\* A key that decodes is a key pair's public key.
LEMMA DecodedKey ==
  ASSUME IsArgument(vArg), vArg.pk.canonical
  PROVE  \E s \in SecretSeeds : vArg.pk = PublicKey(s)
<1>1. PICK k \in PublicKeys : vArg.pk \in {k, [k EXCEPT !.canonical = FALSE]}
  BY DEF IsArgument
<1>2. PICK s \in SecretSeeds : k = PublicKey(s)
  BY DEF PublicKeys
<1>3. [k EXCEPT !.canonical = FALSE].canonical = FALSE
  BY <1>2 DEF PublicKey
<1>4. vArg.pk = k
  BY <1>1, <1>3
<1> QED
  BY <1>2, <1>4

\* What is known of an accepted signature when no challenges collide: its digest
\* is that of the transcript, whose forms its answers lead to.
LEMMA AcceptedFacts ==
  ASSUME IInv, Accepted, ~OracleCollides
  PROVE  /\ IsArgument(vArg) /\ vChallenges \in ChallengeVectors
         /\ vChallenges = oracle[vArg.sig.digest]
         /\ AbsorbedForms \in [1 .. R -> TriForms]
         /\ vArg.sig.digest = Hash(Transcript(vArg.msg, AbsorbedForms))
         /\ \A j \in Rounds : AnswerLeadsTo(j, AbsorbedForms[j + 1])
         /\ \A i \in 1 .. BaseSeedCount : \E j \in Rounds :
              vChallenges[j] = X /\ i = BaseBefore(vChallenges, j) + 1
<1>1. CallInv /\ AuthInv /\ vpc = "cleanup"
  BY DEF IInv, Accepted
<1>2. IsArgument(vArg)
  BY <1>1 DEF CallInv, TypeOK, VerifyTypeOK
<1>3. /\ vRound = R /\ vSeed = BaseSeedCount
      /\ vChallenges \in ChallengeVectors /\ vChallenges = oracle[vArg.sig.digest]
      /\ vArg.sig.digest \in DOMAIN oracle /\ Hash(vTranscript) \in DOMAIN oracle
      /\ oracle[Hash(vTranscript)] = vChallenges
  BY <1>1 DEF AuthInv, VerifyAccepted
<1>4. /\ vTranscript = Transcript(vArg.msg, AbsorbedForms)
      /\ \A j \in Rounds : AnswerLeadsTo(j, AbsorbedForms[j + 1])
      /\ \A i \in 1 .. BaseSeedCount : \E j \in Rounds :
           vChallenges[j] = X /\ i = BaseBefore(vChallenges, j) + 1
  BY <1>1, <1>3 DEF AuthInv, VerifyAbsorbed, Rounds
<1>5. AbsorbedForms \in [1 .. R -> TriForms]
  <2>1. AbsorbedForms = [i \in 1 .. R |-> AbsorbedForms[i]]
    BY <1>3 DEF AbsorbedForms
  <2>2. ASSUME NEW i \in 1 .. R
        PROVE  AbsorbedForms[i] \in TriForms
    <3>1. i - 1 \in Rounds /\ (i - 1) + 1 = i
      BY ParametersAssumption DEF Rounds
    <3>2. AnswerLeadsTo(i - 1, AbsorbedForms[(i - 1) + 1])
      BY <1>4, <3>1
    <3> QED
      BY <3>1, <3>2 DEF AnswerLeadsTo
  <2> QED
    BY <2>1, <2>2
<1>6. vArg.sig.digest = Hash(vTranscript)
  BY <1>3 DEF OracleCollides
<1> QED
  BY <1>2, <1>3, <1>4, <1>5, <1>6, Zenon

\* The digest of an accepted signature was issued, and with it the message and
\* every form absorbed.
LEMMA AcceptedEntry ==
  ASSUME IInv, Accepted, ~OracleCollides
  PROVE  \E e \in issued : \E s \in SecretSeeds : \E seeds, points :
           /\ IssuedEntry(e) /\ OpenedBy(e, s, seeds, points)
           /\ seeds \in [Rounds -> RoundSeeds] /\ points \in [Rounds -> RoundPoints(s)]
           /\ e.msg = vArg.msg /\ e.sig.digest = vArg.sig.digest
           /\ \A j \in Rounds :
                /\ AbsorbedForms[j + 1] = CanonicalForm(BaseOf(s), points[j])
                /\ AbsorbedForms[j + 1] \in TriForms
<1>1. /\ IsArgument(vArg) /\ vArg.msg \in Messages
      /\ AbsorbedForms \in [1 .. R -> TriForms]
      /\ vArg.sig.digest = Hash(Transcript(vArg.msg, AbsorbedForms))
  BY AcceptedFacts DEF IsArgument
<1>2. /\ Preimage(vArg.sig.digest) = Transcript(vArg.msg, AbsorbedForms)
      /\ vArg.sig.digest \notin StrayDigests
  BY <1>1, HashAssumption, Zenon
<1>3. PICK e \in issued : e.sig.digest = vArg.sig.digest
  BY <1>2 DEF IInv, AuthInv, VerifyDigest, Accepted
<1>4. IssuedEntry(e)
  BY DEF IInv, CallInv, IssuedInv
<1>5. PICK s \in SecretSeeds : \E seeds \in [Rounds -> RoundSeeds],
                                  points \in [Rounds -> RoundPoints(s)] :
        OpenedBy(e, s, seeds, points)
  BY <1>4 DEF IssuedEntry
<1>6. PICK seeds \in [Rounds -> RoundSeeds], points \in [Rounds -> RoundPoints(s)] :
        OpenedBy(e, s, seeds, points)
  BY <1>5
<1> DEFINE forms == [i \in 1 .. R |-> CanonicalForm(BaseOf(s), points[i - 1])]
<1>7. forms \in [1 .. R -> TriForms]
  <2>1. \A j \in 0 .. (R - 1) : points[j] \in RoundPoints(s) /\ Usable(s, points[j])
    BY <1>6 DEF OpenedBy, Committed
  <2> QED
    BY <2>1, TranscriptForms DEF Rounds
<1>8. e.msg \in Messages
  BY <1>4 DEF IssuedEntry, IsArgument
<1>9. vArg.sig.digest = Hash(Transcript(e.msg, forms))
  BY <1>3, <1>6, Zenon DEF OpenedBy, TranscriptOf
<1>10. \A j \in Rounds : j + 1 \in 1 .. R /\ forms[j + 1] = CanonicalForm(BaseOf(s), points[j])
  BY ParametersAssumption DEF Rounds
<1> HIDE DEF forms
<1>11. Transcript(vArg.msg, AbsorbedForms) = Transcript(e.msg, forms)
  <2>1. Preimage(Hash(Transcript(e.msg, forms))) = Transcript(e.msg, forms)
    BY <1>7, <1>8, HashAssumption, Zenon
  <2> QED
    BY <1>2, <1>9, <2>1, Zenon
<1>12. vArg.msg = e.msg /\ AbsorbedForms = forms
  BY <1>1, <1>7, <1>8, <1>11, SameTranscript
<1>13. \A j \in Rounds :
         /\ AbsorbedForms[j + 1] = CanonicalForm(BaseOf(s), points[j])
         /\ AbsorbedForms[j + 1] \in TriForms
  BY <1>7, <1>10, <1>12
<1> QED
  BY <1>3, <1>4, <1>6, <1>12, <1>13

\* A round whose form is in the orbit of a key was answered under that key.
LEMMA OrbitNamesKey ==
  ASSUME IsArgument(vArg), vChallenges \in ChallengeVectors, ChallengesValid(vChallenges),
         NEW j \in Rounds, NEW form \in TriForms, AnswerLeadsTo(j, form),
         NEW other \in SecretSeeds, vArg.pk = PublicKey(other),
         NEW s \in SecretSeeds, NEW p \in RoundPoints(s), form = CanonicalForm(BaseOf(s), p)
  PROVE  other = s
<1> SUFFICES ASSUME other # s
             PROVE  FALSE
  OBVIOUS
<1>1. /\ vArg.pk.seed = PublicSeed(other)
      /\ vArg.pk.forms = [i \in FormIndex |-> NonbaseForm(other, i)]
  BY DEF PublicKey
<1>2. \A v \in Vectors :
        /\ CanonicalForm(BaseOf(other), v) # form
        /\ \A i \in FormIndex : CanonicalForm(NonbaseForm(other, i), v) # form
  BY AlgebraAssumption, OrbitsDiffer DEF BaseOf
<1>3. X \in Nat /\ vChallenges[j] \in 0 .. X
  BY ParametersAssumption DEF ChallengeVectors
<1>4. /\ NonbaseBefore(vChallenges, j) \in Nat /\ BaseBefore(vChallenges, j) \in Nat
      /\ vChallenges[j] < X => NonbaseBefore(vChallenges, j) < K
      /\ vChallenges[j] = X => BaseBefore(vChallenges, j) < BaseSeedCount
  BY CountStep, CountBelow
<1>5. K \in Nat /\ BaseSeedCount \in Nat
  BY ParametersAssumption DEF BaseSeedCount
<1>6. CASE vChallenges[j] < X
  <2>1. vChallenges[j] \in FormIndex /\ NonbaseBefore(vChallenges, j) + 1 \in 1 .. K
    BY <1>3, <1>4, <1>5, <1>6 DEF FormIndex
  <2>2. vArg.sig.responses[NonbaseBefore(vChallenges, j) + 1] \in Vectors
    BY <2>1, ArgumentFacts
  <2>3. vArg.pk.forms[vChallenges[j]] = NonbaseForm(other, vChallenges[j])
    BY <1>1, <2>1
  <2> QED
    BY <1>2, <1>6, <2>1, <2>2, <2>3 DEF AnswerLeadsTo, ResponseLeadsTo
<1>7. CASE vChallenges[j] = X
  <2>1. PICK n \in Attempts :
          form = CanonicalForm(VerifyBase,
                   Candidate(VerifyBase,
                             RoundStream(vArg.sig.salt,
                                         vArg.sig.seeds[BaseBefore(vChallenges, j) + 1], j), n))
    BY <1>7 DEF AnswerLeadsTo, SeedLeadsTo
  <2>2. BaseBefore(vChallenges, j) + 1 \in 1 .. BaseSeedCount
    BY <1>4, <1>5, <1>7
  <2>3. vArg.sig.seeds[BaseBefore(vChallenges, j) + 1] \in RoundSeeds /\ vArg.sig.salt \in Salts
    BY <2>2, ArgumentFacts
  <2>4. VerifyBase = BaseOf(other)
    BY <1>1 DEF VerifyBase, BaseOf
  <2>5. Candidate(BaseOf(other),
                  RoundStream(vArg.sig.salt, vArg.sig.seeds[BaseBefore(vChallenges, j) + 1], j), n)
          \in Vectors
    BY <2>3, CandidateIsPoint DEF StreamCandidate
  <2> QED
    BY <1>2, <2>1, <2>4, <2>5
<1> QED
  BY <1>3, <1>6, <1>7

\* A base round that leads to the form the signer absorbed reveals the signer's
\* seed under the signer's salt.
LEMMA StreamNamesSeed ==
  ASSUME IsArgument(vArg), vChallenges \in ChallengeVectors, ChallengesValid(vChallenges),
         NEW j \in Rounds, vChallenges[j] = X, NEW form \in TriForms, AnswerLeadsTo(j, form),
         NEW s \in SecretSeeds, vArg.pk = PublicKey(s),
         NEW t \in Salts, NEW seed \in RoundSeeds, NEW p, IsCandidate(s, t, seed, j, p),
         form = CanonicalForm(BaseOf(s), p)
  PROVE  t = vArg.sig.salt /\ seed = vArg.sig.seeds[BaseBefore(vChallenges, j) + 1]
<1> DEFINE given == vArg.sig.seeds[BaseBefore(vChallenges, j) + 1]
<1>1. PICK m \in Attempts : p = Candidate(BaseOf(s), RoundStream(t, seed, j), m)
  BY DEF IsCandidate, StreamCandidate
<1>2. VerifyBase = BaseOf(s)
  BY DEF PublicKey, VerifyBase, BaseOf
<1>3. PICK n \in Attempts :
        form = CanonicalForm(BaseOf(s),
                 Candidate(BaseOf(s), RoundStream(vArg.sig.salt, given, j), n))
  BY <1>2 DEF AnswerLeadsTo, SeedLeadsTo
<1>4. given \in RoundSeeds /\ vArg.sig.salt \in Salts
  <2>1. BaseBefore(vChallenges, j) \in Nat /\ BaseBefore(vChallenges, j) < BaseSeedCount
    BY CountStep, CountBelow
  <2>2. BaseBefore(vChallenges, j) + 1 \in 1 .. BaseSeedCount
    BY <2>1, ParametersAssumption DEF BaseSeedCount
  <2> QED
    BY <2>2, ArgumentFacts
<1>5. form # Degenerate
  BY AlgebraAssumption
<1> HIDE DEF given
<1>6. t = vArg.sig.salt /\ seed = given
  <2> DEFINE Form(u, other, k) == CanonicalForm(BaseOf(s),
                                    Candidate(BaseOf(s), RoundStream(u, other, j), k))
  <2>1. \A u \in Salts, other \in RoundSeeds, k, l \in Attempts :
          Form(t, seed, k) # Degenerate /\ Form(t, seed, k) = Form(u, other, l)
            => t = u /\ seed = other
    BY StreamsDiffer DEF BaseOf
  <2>2. Form(t, seed, m) = form /\ Form(vArg.sig.salt, given, n) = form
    BY <1>1, <1>3
  <2> HIDE DEF Form
  <2> QED
    BY <1>4, <1>5, <2>1, <2>2
<1> QED
  BY <1>6 DEF given

\* crypto_sign_verify accepts only what was issued.
LEMMA AcceptedWasIssued ==
  ASSUME IInv, Accepted, ~OracleCollides
  PROVE  \E e \in issued : AboutEntry(e, vArg)
<1>1. /\ IsArgument(vArg) /\ vChallenges \in ChallengeVectors
      /\ vChallenges = oracle[vArg.sig.digest]
      /\ \A j \in Rounds : AnswerLeadsTo(j, AbsorbedForms[j + 1])
      /\ \A i \in 1 .. BaseSeedCount : \E j \in Rounds :
           vChallenges[j] = X /\ i = BaseBefore(vChallenges, j) + 1
  BY AcceptedFacts
<1>2. PICK e \in issued, s \in SecretSeeds : \E seeds, points :
        /\ IssuedEntry(e) /\ OpenedBy(e, s, seeds, points)
        /\ seeds \in [Rounds -> RoundSeeds] /\ points \in [Rounds -> RoundPoints(s)]
        /\ e.msg = vArg.msg /\ e.sig.digest = vArg.sig.digest
        /\ \A j \in Rounds :
             /\ AbsorbedForms[j + 1] = CanonicalForm(BaseOf(s), points[j])
             /\ AbsorbedForms[j + 1] \in TriForms
  BY AcceptedEntry
<1>3. PICK seeds, points :
        /\ IssuedEntry(e) /\ OpenedBy(e, s, seeds, points)
        /\ seeds \in [Rounds -> RoundSeeds] /\ points \in [Rounds -> RoundPoints(s)]
        /\ e.msg = vArg.msg /\ e.sig.digest = vArg.sig.digest
        /\ \A j \in Rounds :
             /\ AbsorbedForms[j + 1] = CanonicalForm(BaseOf(s), points[j])
             /\ AbsorbedForms[j + 1] \in TriForms
  BY <1>2
<1>4. ChallengesValid(vChallenges)
  BY <1>1, <1>3 DEF IssuedEntry
<1>5. vArg.pk = e.pk /\ e.pk = PublicKey(s)
  <2>1. vArg.pk.canonical
    BY DEF IInv, AuthInv, VerifyDecoded
  <2>2. PICK other \in SecretSeeds : vArg.pk = PublicKey(other)
    BY <1>1, <2>1, DecodedKey
  <2>3. 0 \in Rounds
    BY ParametersAssumption DEF Rounds
  <2>4. points[0] \in RoundPoints(s)
    BY <1>3, <2>3
  <2>5. other = s
    BY <1>1, <1>3, <1>4, <2>2, <2>3, <2>4, OrbitNamesKey
  <2>6. e.pk = PublicKey(s)
    BY <1>3 DEF OpenedBy
  <2> QED
    BY <2>2, <2>5, <2>6
<1>6. e.sig.salt \in Salts /\ e.sig.seeds \in [1 .. BaseSeedCount -> RoundSeeds]
  BY <1>3 DEF IssuedEntry, IsArgument
<1>7. ASSUME NEW i \in 1 .. BaseSeedCount
      PROVE  e.sig.salt = vArg.sig.salt /\ e.sig.seeds[i] = vArg.sig.seeds[i]
  <2>1. PICK j \in Rounds : vChallenges[j] = X /\ i = BaseBefore(vChallenges, j) + 1
    BY <1>1
  <2>2. IsCandidate(s, e.sig.salt, seeds[j], j, points[j]) /\ seeds[j] \in RoundSeeds
    BY <1>3 DEF OpenedBy, Committed, Rounds
  <2>3. e.sig.salt = vArg.sig.salt /\ seeds[j] = vArg.sig.seeds[i]
    BY <1>1, <1>3, <1>4, <1>5, <1>6, <2>1, <2>2, StreamNamesSeed
  <2>4. e.sig.seeds[i] = seeds[j]
    BY <1>1, <1>3, <2>1 DEF OpenedBy, Answered, Rounds
  <2> QED
    BY <2>3, <2>4
<1>8. e.sig.seeds = vArg.sig.seeds
  <2>1. vArg.sig.seeds \in [1 .. BaseSeedCount -> RoundSeeds]
    BY <1>1 DEF IsArgument
  <2>2. e.sig.seeds = [i \in 1 .. BaseSeedCount |-> e.sig.seeds[i]]
    BY <1>6
  <2>3. vArg.sig.seeds = [i \in 1 .. BaseSeedCount |-> vArg.sig.seeds[i]]
    BY <2>1
  <2>4. [i \in 1 .. BaseSeedCount |-> e.sig.seeds[i]]
          = [i \in 1 .. BaseSeedCount |-> vArg.sig.seeds[i]]
    BY <1>7
  <2> QED
    BY <2>2, <2>3, <2>4
<1>9. BaseSeedCount > 0 => e.sig.salt = vArg.sig.salt
  <2>1. BaseSeedCount > 0 => 1 \in 1 .. BaseSeedCount
    BY ParametersAssumption DEF BaseSeedCount
  <2> QED
    BY <1>7, <2>1
<1> QED
  BY <1>3, <1>5, <1>8, <1>9 DEF AboutEntry

\* Unless challenges collide, crypto_sign_verify and crypto_sign_open accept only
\* what crypto_sign issued for the key and the message.
THEOREM AcceptedSignaturesWereIssued == Spec => []Authenticity
<1>1. IInv => Authenticity
  BY AcceptedWasIssued DEF Authenticity, Accepted
<1> QED
  BY <1>1, InvariantHolds, PTL

-----------------------------------------------------------------------------
(* The library implements SignatureScheme.                                  *)

LEMMA InitRefines ==
  Init => Scheme!Init
<1> SUFFICES ASSUME Init
             PROVE  Scheme!Init
  OBVIOUS
<1>1. issued = {} /\ vpc = "idle" /\ vResult = -1 /\ vFault = FALSE
  BY DEF Init, VerifyInit
<1>2. DOMAIN oracle = {}
  BY DEF Init
<1>3. Answer = "reject"
  BY <1>1 DEF Answer
<1>4. OracleCollides = FALSE
  BY <1>2 DEF OracleCollides
<1> QED
  BY <1>1, <1>3, <1>4 DEF Scheme!Init

\* A growing oracle keeps the collisions it has.
LEMMA CollisionsLast ==
  ASSUME OracleGrows
  PROVE  OracleCollides' = OracleCollides \/ OracleCollides' = TRUE
<1>1. OracleCollides => OracleCollides'
  BY DEF OracleCollides, OracleGrows
<1>2. OracleCollides \in BOOLEAN /\ OracleCollides' \in BOOLEAN
  BY DEF OracleCollides
<1> QED
  BY <1>1, <1>2

\* Nothing happens to the scheme, unless challenges come to collide.
LEMMA OracleStepRefines ==
  ASSUME OracleGrows, UNCHANGED <<issued, vArg, Answer, vFault>>
  PROVE  [Scheme!Next]_Scheme!vars
<1>1. CASE OracleCollides' = OracleCollides
  BY <1>1 DEF Scheme!vars
<1>2. CASE OracleCollides' = TRUE
  <2>1. Scheme!Coincide
    BY <1>2 DEF Scheme!Coincide
  <2> QED
    BY <2>1 DEF Scheme!Next
<1> QED
  BY <1>1, <1>2, CollisionsLast

\* Calls of the other functions and their steps, up to the return of crypto_sign.
LEMMA ElsewhereRefines ==
  ASSUME IInv, CallKeypair \/ CallSign \/ KeypairRuns \/ SignRuns \/ KeypairReturns
                 \/ UNCHANGED vars
  PROVE  [Scheme!Next]_Scheme!vars
<1>1. UNCHANGED <<issued, verifyVars>>
  BY DEF CallKeypair, CallSign, KeypairRuns, SignRuns, KeypairReturns, vars, callerVars
<1>2. UNCHANGED <<issued, vArg, Answer, vFault>>
  BY <1>1 DEF verifyVars, verifyInput, Answer
<1>3. SInv
  BY CallInvParts DEF IInv
<1>4. OracleGrows
  <2>1. CASE SignRuns
    BY <1>3, <2>1, SignStepInv DEF SignRuns
  <2>2. CASE ~SignRuns
    <3>1. UNCHANGED oracle
      BY <2>2 DEF CallKeypair, CallSign, KeypairRuns, KeypairReturns, vars
    <3> QED
      BY <1>3, <3>1, UnchangedGrows DEF SInv
  <2> QED
    BY <2>1, <2>2
<1> QED
  BY <1>2, <1>4, OracleStepRefines

\* crypto_sign returns: a signature is issued, and no question is open.
LEMMA SignReturnRefines ==
  ASSUME IInv, SignReturns
  PROVE  [Scheme!Next]_Scheme!vars
<1>1. spc = "cleanup" /\ UNCHANGED <<oracle, verifyVars>> /\ issued \subseteq issued'
  BY DEF SignReturns, SignReturn
<1>2. vpc = "idle"
  BY <1>1 DEF IInv, CallInv, OneCallRuns
<1>3. UNCHANGED <<vArg, Answer, vFault, OracleCollides>>
  BY <1>1 DEF verifyVars, verifyInput, Answer, OracleCollides
<1>4. Answer # "open"
  BY <1>2 DEF Answer
<1>5. Scheme!Issue
  BY <1>1, <1>3, <1>4 DEF Scheme!Issue
<1> QED
  BY <1>5 DEF Scheme!Next

LEMMA CallVerifyRefines ==
  ASSUME CallVerify
  PROVE  [Scheme!Next]_Scheme!vars
<1>1. vpc = "idle" /\ vpc' # "idle" /\ UNCHANGED <<oracle, issued>>
  BY DEF CallVerify, VerifyCall
<1>2. Answer # "open" /\ Answer' = "open"
  BY <1>1 DEF Answer
<1>3. UNCHANGED OracleCollides
  BY <1>1 DEF OracleCollides
<1>4. Scheme!Ask
  BY <1>1, <1>2, <1>3 DEF Scheme!Ask
<1> QED
  BY <1>4 DEF Scheme!Next

\* While the verifier works the question stays open: a resource may fail, or
\* the challenges of a digest it parses may collide.
LEMMA VerifyStepRefines ==
  ASSUME IInv, VerifyRuns
  PROVE  [Scheme!Next]_Scheme!vars
<1>1. VerifyStep /\ UNCHANGED issued /\ VInv
  BY CallInvParts DEF VerifyRuns, callerVars, IInv
<1>2. /\ vpc # "idle" /\ vpc' # "idle" /\ vArg' = vArg
      /\ vFault' = vFault \/ (vFault' = TRUE /\ UNCHANGED oracle)
  <2>1. CASE VerifyParse \/ VerifyCompare
    BY <2>1 DEF VerifyParse, VerifyCompare, verifyInput
  <2>2. CASE VerifyLocalStep /\ UNCHANGED oracle
    <3>1. CASE VerifyAlloc \/ VerifyDecode \/ VerifyHashInit \/ VerifyMessage \/ VerifyFault
      BY <2>2, <3>1
         DEF VerifyAlloc, VerifyDecode, VerifyHashInit, VerifyMessage, VerifyFault, verifyInput
    <3>2. CASE VerifyNonbaseRound \/ VerifyRejectCandidate \/ VerifyPassOverCandidate
                 \/ VerifyBaseRound
      BY <2>2, <3>2 DEF VerifyNonbaseRound, VerifyRejectCandidate, VerifyPassOverCandidate,
                        VerifyBaseRound, InBaseRound, verifyInput
    <3> QED
      BY <2>2, <3>1, <3>2 DEF VerifyLocalStep
  <2> QED
    BY <1>1, <2>1, <2>2 DEF VerifyStep
<1>3. Answer = "open" /\ Answer' = "open"
  BY <1>2 DEF Answer
<1>4. CASE vFault' = vFault
  <2>1. OracleGrows
    BY <1>1, VerifyStepInv
  <2> QED
    BY <1>1, <1>2, <1>3, <1>4, <2>1, OracleStepRefines
<1>5. CASE vFault' = TRUE /\ UNCHANGED oracle
  <2>1. UNCHANGED OracleCollides
    BY <1>5 DEF OracleCollides
  <2>2. Scheme!Obstruct
    BY <1>1, <1>2, <1>3, <1>5, <2>1 DEF Scheme!Obstruct
  <2> QED
    BY <2>2 DEF Scheme!Next
<1> QED
  BY <1>2, <1>4, <1>5

\* The verifier returns: its answer is right, or is excused.
LEMMA VerifyReturnRefines ==
  ASSUME IInv, VerifyReturns
  PROVE  [Scheme!Next]_Scheme!vars
<1>1. /\ vpc = "cleanup" /\ vpc' = "idle"
      /\ UNCHANGED <<oracle, issued, vArg, vResult, vFault>>
  BY DEF VerifyReturns, VerifyReturn, callerVars, verifyInput
<1>2. UNCHANGED OracleCollides
  BY <1>1 DEF OracleCollides
<1>3. Answer = "open"
  BY <1>1 DEF Answer
<1>4. CASE vResult = 0
  <2>1. Answer' = "accept"
    BY <1>1, <1>4 DEF Answer
  <2>2. Scheme!AlikeIssued(vArg) \/ OracleCollides
    <3>1. (\E e \in issued : AboutEntry(e, vArg)) \/ OracleCollides
      BY <1>1, <1>4, AcceptedWasIssued DEF Accepted
    <3> QED
      BY <3>1 DEF Scheme!AlikeIssued
  <2>3. Scheme!Accept
    BY <1>1, <1>2, <1>3, <2>1, <2>2 DEF Scheme!Accept
  <2> QED
    BY <2>3 DEF Scheme!Next
<1>5. CASE vResult # 0
  <2>1. Answer' = "reject"
    BY <1>1, <1>5 DEF Answer
  <2>2. ~Scheme!SoundlyIssuedFor(vArg) \/ vFault
    <3>1. vFault \/ \A e \in issued : Genuine(e, vArg) => e.marred # {}
      BY <1>1, <1>5 DEF IInv, CallInv, Completeness
    <3> QED
      BY <3>1 DEF Scheme!SoundlyIssuedFor
  <2>3. Scheme!Reject
    BY <1>1, <1>2, <1>3, <2>1, <2>2 DEF Scheme!Reject
  <2> QED
    BY <2>3 DEF Scheme!Next
<1> QED
  BY <1>4, <1>5

LEMMA NextRefines ==
  ASSUME IInv, [Next]_vars
  PROVE  [Scheme!Next]_Scheme!vars
BY ElsewhereRefines, SignReturnRefines, CallVerifyRefines, VerifyStepRefines,
   VerifyReturnRefines DEF Next, LibraryStep

\* In every history of calls an answer of crypto_sign_verify and crypto_sign_open
\* is right, or is excused by what happened before it.
THEOREM LibraryImplementsScheme == Spec => ImplementsScheme
<1>1. Init => Scheme!Init
  BY InitRefines
<1>2. IInv /\ [Next]_vars => [Scheme!Next]_Scheme!vars
  BY NextRefines
<1> QED
  BY <1>1, <1>2, InvariantHolds, PTL DEF Spec, ImplementsScheme, Scheme!Spec
=============================================================================
