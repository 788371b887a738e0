SPECIFICATION MCSpec
CONSTANTS
  Q = 7
  N = 5
  GivenMatrices <- MCMatrices
  GivenLists <- MCLists
  BaseForms <- MCBaseForms
  Secrets <- MCSecrets
  Candidates <- MCCandidates
  Strays <- MCStrays
INVARIANTS
  ReducedByRowOperations
  ReadsOff
  InvertsAllOrNothing
  PathAnnihilates
  BasesAreIndependent
  AnchorsAreOne
  CommitmentReproduced
CHECK_DEADLOCK FALSE
