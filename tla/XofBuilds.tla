----------------------------- MODULE XofBuilds -----------------------------
(***************************************************************************)
(* The two builds of trine_xof_* and trine_hash_*, over SM3 and over       *)
(* SHAKE256: which of them a program contains is chosen when it is         *)
(* compiled.  And, below the first, the padding and the hashes of          *)
(* iccs/auxfunc.c, one call at a time.                                     *)
(***************************************************************************)
EXTENDS XofCached

CONSTANTS
  SpongeInputs, SpongeLengths,   \* chunks absorbed and numbers of bytes asked for
  Rate, Width, Xor(_, _), ZeroByte, Suffix, LastBit, Permute(_),
  MaxAbsorbed, MaxSqueezed,      \* bounds on the sponge's bytes
  ByteBits, WordBits, BlockBits, \* of SM3
  MaxBitlen,                     \* bound on the messages padded
  MsgBitlens, OutputBitlens      \* of the messages hashed and of what is asked for

VARIABLES
  build,
  spongeKind, spongeState, spongeFinalized, spongeAbsorbed, spongeGiven, spongeResult,
  padAt, msg_bitlen, padBlock, padDigest,
  hashPc, hashOp, lengths, values, step, held, output, hashResult

Sponge == INSTANCE XofSponge WITH
       Inputs <- SpongeInputs, Lengths <- SpongeLengths, Zero <- ZeroByte,
       MaxInput <- MaxAbsorbed, MaxOutput <- MaxSqueezed,
       kind <- spongeKind, shake <- spongeState, finalized <- spongeFinalized,
       absorbed <- spongeAbsorbed, given <- spongeGiven, result <- spongeResult
P == INSTANCE Sm3Padding WITH at <- padAt, block <- padBlock, digest <- padDigest
H == INSTANCE Pseudohash WITH pc <- hashPc, op <- hashOp, result <- hashResult

ASSUME SpongeAssumption == Sponge!RateFits
ASSUME PaddingAssumption == P!WidthsFit
ASSUME CallersAssumption == H!CallersLengths

cachedVars == <<kind, input, inputCapacity, finalized, failed, given, result, cache, offset>>
spongeVars == <<spongeKind, spongeState, spongeFinalized, spongeAbsorbed, spongeGiven,
                spongeResult>>
padVars == <<padAt, msg_bitlen, padBlock, padDigest>>
hashVars == <<hashPc, hashOp, lengths, values, step, held, output, hashResult>>

BuildInit ==
  /\ Init /\ Sponge!Init /\ P!Init /\ H!Init
  /\ \/ build = "SM3" /\ spongeKind = "xof"
     \/ build = "SHA3" /\ kind = "xof"
     \/ build \in {"padding", "pseudohash"} /\ spongeKind = "xof" /\ kind = "xof"

BuildNext ==
  /\ UNCHANGED build
  /\ \/ build = "SM3" /\ Next /\ UNCHANGED <<spongeVars, padVars, hashVars>>
     \/ build = "SHA3" /\ Sponge!Next /\ UNCHANGED <<cachedVars, padVars, hashVars>>
     \/ build = "padding" /\ P!Next /\ UNCHANGED <<cachedVars, spongeVars, hashVars>>
     \/ build = "pseudohash" /\ H!Next /\ UNCHANGED <<cachedVars, spongeVars, padVars>>

BuildSpec == BuildInit /\ [][BuildNext]_<<build, cachedVars, spongeVars, padVars, hashVars>>

-----------------------------------------------------------------------------
\* However the calls cut the stream, the incremental sponge gives out what
\* shake256 gives for the whole input at once.
SpongeGivenIsOnce == Sponge!GivenIsOnce

\* The incremental sponge keeps the promise of XofStream.
SpongeImplementsStream == Sponge!ImplementsStream

\* What sm3_bit compresses for a message whose length fits a word is the message,
\* a bit 1, the fewest bits 0 that fill the last block, and the length in two
\* words.
PadsAsStandard == P!PadsAsStandard

\* A call of sm3hash, pseudohash or pseudoXOF that succeeds delivers all the bits
\* that are promised for its message and has freed its buffers; one that fails
\* delivers none.
HashesAllOrNothing == H!HashesAllOrNothing

\* auxfunc.c calls its hash GB/T 32905-2016, auxfunc.h the SM3 hash function of
\* any number of bits: every message is padded as that standard says.
PadsEveryLength == P!PadsEveryLength
=============================================================================
