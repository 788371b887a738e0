SPECIFICATION IccsSpec
CONSTANTS
  PkBytes = 3
  SkBytes = 2
  SigBytes = 2
  SizeMax = 4
  LenMax = 7
  ByteBits = 2
  SEEDLEN = 3
  OUTLEN = 2
  sm3_bit <- MCSm3
  DrngSeeds <- MCDrngSeeds
  DrngRequests <- MCDrngRequests
  MaxGets = 66
  SEED_LEN_BYTES = 4
  FirstLength = 3
  Growth = 1
  BufferLength = 12
  Records = 10
  DrawBytes = 4
INVARIANT
  SuccessMeansSeeded
CHECK_DEADLOCK FALSE
