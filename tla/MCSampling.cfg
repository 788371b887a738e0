SPECIFICATION MCSpec
CONSTANTS
  R = 5
  K = 3
  X = 2
  Q = 2
  N = 2
  QBits = 2
  Cells = 11
  FirstMatrix = 4
  Untouched = Untouched
  UntouchedCell = UntouchedCell
  BlockBytes = 2
  Base = 3
  MaxRequest = 9
  MaxKey = 3
INVARIANTS
  ParsedIsChallenge
  PairMatches
  NoBlockTwice
  RequestFilled
PROPERTIES
  ParsingEnds
  ExpansionEnds
CHECK_DEADLOCK FALSE
