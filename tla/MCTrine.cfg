SPECIFICATION Spec
CONSTANTS
  R = 3
  K = 2
  X = 2
  SecretSeeds = {k1}
  Messages <- MCOneMessage
  RoundSeeds <- MCRoundSeeds
  Salts <- MCTwoSalts
  StrayDigests <- MCStrayDigests
  Vectors <- MCVectors
  TriForms <- MCTriForms
  Degenerate = Degenerate
  Raw = Raw
  MaxAttempts = 1
  Pullback <- MCPullback
  InverseTimes <- MCInverseTimes
  Candidate <- MCCandidate
  CanonicalForm <- MCCanonicalForm
  Hash <- MCHash
  Preimage <- MCPreimage
  Altered <- MCAltered
  SigBytes = 5
  MaxKeypairs = 1
  MaxSigns = 1
  MaxVerifies = 1
INVARIANTS
  FailureLeavesNoOutput
  NothingHeldAfterReturn
  KeysMatch
  AnswersInBounds
  Completeness
  Authenticity
CHECK_DEADLOCK FALSE
