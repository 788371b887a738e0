-------------------------- MODULE TrineChallenges --------------------------
(***************************************************************************)
(* The challenge of a signature: for each of its R rounds one of X         *)
(* non-base forms, or BaseIndex.  K rounds name a non-base form.           *)
(***************************************************************************)
EXTENDS Integers, FiniteSets

CONSTANTS
  R,   \* TRINE_r: rounds of a signature
  K,   \* TRINE_K: rounds answered on a non-base form
  X    \* TRINE_X: non-base forms of a public key

ASSUME ParametersAssumption ==
  /\ R \in Nat \ {0} /\ K \in 0 .. R /\ X \in Nat \ {0}

Rounds    == 0 .. (R - 1)
FormIndex == 0 .. (X - 1)

\* TRINE_BASE_FORM_INDEX: the challenge that opens a round by its seed.
BaseIndex == X
BaseSeedCount == R - K

ChallengeVectors == [Rounds -> 0 .. X]

\* The responses of a signature are stored densely, so the position of a
\* round's answer is the number of earlier rounds of its kind.
NonbaseBefore(ch, round) == Cardinality({j \in 0 .. (round - 1) : ch[j] < X})
BaseBefore(ch, round)    == Cardinality({j \in 0 .. (round - 1) : ch[j] = X})

ChallengesValid(ch) ==
  /\ NonbaseBefore(ch, R) = K
  /\ BaseBefore(ch, R) = BaseSeedCount

\* The counts both handlers check after their rounds.
\* mutant: compared with the number of all rounds
CountsMatch_AllRounds(answered, revealed) == answered = R /\ revealed = BaseSeedCount
CountsMatch(answered, revealed) == answered = K /\ revealed = BaseSeedCount

\* trine_challenges_equal.
\* mutant: only the first round is compared
ChallengesEqual_First(a, b) == a[0] = b[0]
ChallengesEqual(a, b) == \A j \in Rounds : a[j] = b[j]

\* What trine_parse_hash returns when it succeeds (shown in TrineParseHash).
Challenges == {ch \in ChallengeVectors : Cardinality({j \in Rounds : ch[j] < X}) = K}
=============================================================================
