SPECIFICATION Spec
CONSTANTS
  R = 2
  K = 1
  X = 2
  SecretSeeds = {k1}
  Messages <- MCMessages
  RoundSeeds <- MCRoundSeeds
  Salts <- MCSalts
  StrayDigests <- MCStrayDigests
  Vectors <- MCVectors
  TriForms <- MCTriForms
  Degenerate = Degenerate
  Raw = Raw
  MaxAttempts = 1
  Pullback <- MCPullback
  InverseTimes <- MCInverseTimes
  Candidate <- MCCandidate
  CanonicalForm <- MCCanonicalForm
  Hash <- MCHash
  Preimage <- MCPreimage
  Altered <- MCAltered
  SigBytes = 5
  MaxKeypairs = 1
  MaxSigns = 1
  MaxVerifies = 1
INVARIANT
  EverySignatureVerifies
CHECK_DEADLOCK FALSE
