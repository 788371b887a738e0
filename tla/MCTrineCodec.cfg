SPECIFICATION MCSpec
CONSTANTS
  Q = 5
  QBits = 3
  ByteBits = 4
  X = 2
  FormElements = 1
  ResponseElements = 3
  SeedBytes = 1
  BaseSeedBytes = 1
  DigestBytes = 1
  SaltBytes = 1
  Objects <- MCObjects
  GivenContents <- MCContents
  GivenStrings <- MCStrings
  StreamByteBits = 3
  BufLen = 3
  Fields <- MCFields
INVARIANTS
  EncodesNumbers
  AcceptsExactlyEncodings
  FailureLeavesBuffers
  RoundTrip
