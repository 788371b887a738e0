----------------------------- MODULE DrngCalls -----------------------------
(***************************************************************************)
(* One generator of iccs/drng.c with a caller that initializes it and asks *)
(* for numbers of any length, in any order.                                *)
(***************************************************************************)
EXTENDS Sm3Drng

CONSTANTS
  DrngSeeds,      \* sequences of bytes
  DrngRequests,   \* numbers of bits
  MaxGets         \* requests between two initializations

ASSUME CallsAssumption ==
  /\ DrngSeeds \subseteq Seq(0 .. Base - 1) /\ DrngRequests \subseteq Nat /\ MaxGets \in Nat

VARIABLES context, random_number, drngResult,
          drngSeed,      \* of the last initialization, <<>> before the first
          drngMemory,    \* where memory ran out in the last call
          gets           \* requests since then

drngVars == <<context, random_number, drngResult, drngSeed, drngMemory, gets>>

DrngInit ==
  /\ context = Cleared /\ random_number = <<>> /\ drngResult = 0
  /\ drngSeed = <<>> /\ drngMemory = Plenty /\ gets = 0

init_random_number(seed, memory) ==
  /\ context' = SM3_DRNG_Instantiate(seed, memory)
  /\ drngResult' = init_random_number_result(memory)
  /\ random_number' = <<>>
  /\ drngSeed' = seed /\ drngMemory' = memory /\ gets' = 0

\* drng.h: not before the first initialization.
get_random_number(bits) ==
  /\ drngSeed # <<>> /\ gets < MaxGets
  /\ random_number' = ReturnBits(context, bits)
  /\ context' = AfterGenerate(context)
  /\ drngResult' = 0
  /\ drngMemory' = Plenty /\ gets' = gets + 1
  /\ UNCHANGED drngSeed

DrngNext ==
  \/ \E seed \in DrngSeeds, memory \in Memory : init_random_number(seed, memory)
  \/ \E bits \in DrngRequests : get_random_number(bits)

DrngSpec == DrngInit /\ [][DrngNext]_drngVars

-----------------------------------------------------------------------------
Value(bytes) ==
  LET n == Len(bytes)
  IN Total([j \in 1 .. n |-> bytes[n + 1 - j] * Pow2[ByteBits * (j - 1)]], n)

BitsOf(bytes) ==
  [k \in 1 .. ByteBits * Len(bytes) |->
    (bytes[((k - 1) \div ByteBits) + 1] \div Pow2[ByteBits - 1 - ((k - 1) % ByteBits)]) % 2]

\* The operators of HashDrbg over the numbers that bytes are.
SeedValue(seed) == Value(SM3_DRNG_Instantiate(seed, Plenty).V)
ConstantValue(v) == Value(SM3_df(<<0>> \o BigEndian(v, SEEDLEN), SEEDLEN + 1, TRUE))
HashBit(v, i) == BitsOf(sm3_bit(BigEndian(v, SEEDLEN)))[i]
ShiftValue(v) == Value(sm3_bit(<<3>> \o BigEndian(v, SEEDLEN)))

HashDrbg == INSTANCE HashDrbg WITH
  Seeds <- DrngSeeds, Requests <- DrngRequests,
  HashBits <- ByteBits * OUTLEN, Modulus <- Pow2[ByteBits * SEEDLEN],
  Seed <- SeedValue, Constant <- ConstantValue, Hash <- HashBit, Shift <- ShiftValue,
  V <- Value(context.V), C <- Value(context.C), count <- Value(context.reseed_counter),
  output <- BitsOf(random_number), result <- drngResult,
  outOfMemory <- drngMemory # Plenty

\* The bytes of drng.c compute the generator over numbers: no carry is lost
\* when V, the block counter or the count run over a byte or wrap, the blocks
\* of a request follow each other, and a request that ends within a byte gets
\* its bits first, as iccs/README.txt asks, and no bits of the hash behind them.
ImplementsHashDrbg == HashDrbg!Spec

\* drng.h says of init_random_number "0 for success, others for error": a
\* generator whose initialization returned 0 starts from its seed.
SuccessMeansSeeded ==
  drngSeed # <<>> /\ gets = 0 /\ drngResult = 0 =>
    context = SM3_DRNG_Instantiate(drngSeed, Plenty)
=============================================================================
