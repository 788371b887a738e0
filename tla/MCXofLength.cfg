SPECIFICATION BuildSpec
CONSTANTS
  Inputs <- MCInputs
  Lengths <- MCLengths
  DigestLengths <- MCDigestLengths
  InitialCapacity = 2
  SizeBits = 4
  SizeMax = 15
  MaxHashed = 12
  Block = 2
  MaxInput = 17
  MaxOutput = 17
  SpongeInputs <- MCSpongeInputs
  SpongeLengths <- MCSpongeLengths
  Rate = 3
  Width = 4
  Xor <- MCXor
  ZeroByte <- MCZero
  Suffix <- MCSuffix
  LastBit <- MCLastBit
  Permute <- MCPermute
  MaxAbsorbed = 6
  MaxSqueezed = 7
  ByteBits = 4
  WordBits = 8
  BlockBits = 32
  MaxBitlen = 270
  MsgBitlens <- MCMsgBitlens
  OutputBitlens <- MCOutputBitlens
INVARIANT
  PadsEveryLength
