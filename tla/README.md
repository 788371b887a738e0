# TRINE signatures: a TLA+ model of the reference implementation

The repository implements TRINE, a signature scheme whose keys are trilinear
forms over a finite field.  A signer commits to `r` rounds, each a point of the
base form of its key; a hash of the message and of the canonical forms at those
points chooses challenges; `K` of the rounds are answered by a vector on one of
the `X` other forms of the key, the `r - K` others by revealing the seed of the
round.  A verifier recomputes the canonical forms, and the challenges must come
out the same.

This directory holds the specifications, the model-checking configurations and
the machine-checked proofs that go with the code.

## Inventory of the system

| Part | Source | State it keeps | Operations | Interacts with |
|---|---|---|---|---|
| Protocol | `meds.c`, `meds.h`, `api.h` | none between calls; per call: heap arrays, a transcript hash, a round XOF, the cache of inverses, two dense indices | `crypto_sign_keypair`, `crypto_sign`, `crypto_sign_verify`, `crypto_sign_open` | everything below |
| Parameters | `params.h` | none | sizes, offsets and counts for six parameter sets | all |
| Challenges | `util.c` (`trine_parse_hash`, `sample_masked_le`) | an XOF and a partly filled array | rejection sampling of positions and values | XOF |
| XOF and hash | `hashkdf.c` | input buffer, output cache, offset, `finalized`, `failed`; or a sponge state | init, absorb, finalize, squeeze, release, once | `fips202.c` or `iccs/auxfunc.c`, chosen at build time |
| Keccak | `fips202.c` | sponge state, `pos` | absorb, finalize, squeeze, one-shot functions | - |
| SM3 | `iccs/auxfunc.c` | none | `sm3hash`, `pseudohash`, `pseudoXOF` | - |
| Seed expansion | `trine_expand.c` | an XOF | public seed, base form, matrix pairs | XOF, `util.c`, matrices |
| Byte formats | `trine_codec.c` | temporaries | encode and checked decode of field arrays, keys, signatures | - |
| Canonical form | `canonical.c`, `corank1.c`, `triform.c` | scratch matrices | canonical form at a point, corank-one points, pullback | matrices |
| Linear algebra | `matrixmod.c`, `matrixelim.c`, `field.c` | none | products, inverses, kernels, field arithmetic | - |
| System randomness | `randombytes.c` | the global `DRBG_ctx`: AES key, counter, reseed counter | `randombytes_init`, `randombytes` | called by protocol and tests |
| SM3 generator | `iccs/drng.c` | one context per generator, `drng_algorithm` among them: V, C, count | `init_random_number`, `get_random_number` | `KAT_SIG.c`; under `randombytes` in that build |
| Adapter | `iccs/SIG_AlgorithmInstance.*` | a temporary signed message | `sig_keygen`, `sig_sign`, `sig_verify` | protocol |
| Known answers | `iccs/KAT_SIG.c` | three generators, buffers, lengths | ten rounds of keygen, sign, verify | adapter, generators |
| Measurements | `test_speed/*`, `osfreq.c`, `log.h` | counters | timing of every layer | all |
| Bit stream | `bitstream.c` | buffer, byte and bit position | init, write, read, finalize | built, called by nothing |

`CMakeLists.txt:46` and `Makefile:46` also name `randombytes_iccs.c`, which is not in
the repository; it has to supply `randombytes` from the generator `drng_algorithm`.

The library has no threads, no persistent state and no messages of its own.
What is hard in it is of another kind:

  * over twenty exits per handler, each of which has to release what was
    acquired so far, and must not have touched the caller's buffers;
  * two sides, written separately, that have to walk through the same rounds with
    the same dense indices, the same seeds and the same candidates;
  * loops that draw again until something is usable, where "not usable" and
    "failed" share one return value;
  * a cache of inverses that outlives the round that filled it;
  * stream state (an offset, a position in a block, a growing cache) whose result
    must not depend on how the calls cut the stream;
  * byte formats that must have exactly one encoding for each value;
  * generators that are global, so that every caller moves the state of all
    others, and whose arithmetic is carried from byte to byte by hand;
  * messages, requests and fields that end within a byte;
  * two outputs of one call that the caller may let overlap.

What makes each part correct:

  * protocol: what is signed verifies; what verifies was signed, for that key and
    message; no answer outside its array; no output of a failing call; nothing kept
    after a call; loops end when the stream has what they look for;
  * challenges: exactly `K` of `r` rounds are non-base, or the call fails without
    writing;
  * seed expansion: a matrix is invertible and the inverse beside it is its own;
  * XOF and hash: the bytes given out are a function of the bytes absorbed;
  * byte formats: the encoder writes one string for a value and the decoder accepts
    exactly those;
  * canonical form and linear algebra: the verifier computes what the signer
    committed to; elimination yields rank, inverse and kernel;
  * SM3 and its hashes: the padding of the standard, for every number of bits; a
    whole digest or none;
  * generators: a request is filled exactly, no block is given out twice, and the
    bytes compute what the generator over numbers computes;
  * known answers: every record can be computed again from itself;
  * adapter: lengths in and out, no overrun, no residue in the scratch buffer.

## Modules and code

```
SignatureScheme                     what the library promises
      ^ refined by
TrineProtocol = TrineKeypair + TrineSign + TrineVerify   over TrineScheme
      |                      |                                |
      | Challenges           | seeds                          |  Equivariance
TrineParseHash          TrineExpand              RoundCommitment = CanonicalForm
 (TrineChallenges)      CtrDrbg                                   + Triform
      |  squeezes            |                                    + MatrixElim
      v                      v                                    + FieldMatrix
XofStream  <- refined by -  XofCached                Elimination, BatchInverse:
           <- refined by -  XofSponge                   the loops of both
                               | hashes with
                            Pseudohash, Sm3Padding

TrineCodec   byte formats             BitStream   fields of bits
SigAdapter   the interface around the protocol
HashDrbg  <- refined by -  DrngCalls = Sm3Drng + a caller
                           KnownAnswers = Sm3Drng + the program of iccs/KAT_SIG.c
Numbers      powers and sums, in TrineCodec and Sm3Drng
```

**Protocol** (`meds.c`).  `TrineScheme` holds what the handlers share: the constants
`R`, `K`, `X` of `params.h`, the symbolic algebra, the expansion of seeds, the
challenges and the transcript.  `TrineKeypair`, `TrineSign` and `TrineVerify` have one
action for each stage of `crypto_sign_keypair`, `crypto_sign` and
`crypto_sign_verify` (with `crypto_sign_open`); a program counter (`kpc`, `spc`,
`vpc`) names the stage, the other variables are the locals of the function that
live across stages, and `kHeld`, `sHeld`, `vHeld` are the resources it has to
release.  Each handler has one `...Fault` action for the failure exits of its
fallible calls, and the jump to `cleanup`.  The candidate loop of a round is one
action for a candidate that is refused, one for a candidate passed over because
`malloc` failed inside the canonical form, and one for the candidate that is used.
`TrineProtocol` composes the handlers with a program that calls the library, one
call at a time, and that hands signatures on as they are, or with another message,
another key, or one component changed.

A vector, a form or a matrix is an opaque value.  That signatures verify rests on one
fact of the algebra, `Equivariance`: the canonical form of the pulled-back form at the
moved point is that of the base form at the point.  `RoundCommitment` computes both
sides with real matrices, and that they are equal is proved there for every field and
dimension.  That nothing else verifies rests on
four assumptions of `TrineScheme`, idealizations of facts about large random objects, used
by no other result:

  * `MessageAssumption`: only the empty message has length zero, so only one message is
    not absorbed;
  * `HashAssumption`: different transcripts have different digests (`Preimage` takes a
    digest back to its transcript), and a digest made up by a caller is that of none;
  * `OrbitsDiffer`: a form a signer commits to is the canonical form of no point under
    another key, since the orbit belongs to one key;
  * `StreamsDiffer`: the seeds and salts of a round lead to different forms, since they
    start different streams.

In the program these hold but for coincidences of negligible probability.  What is not
assumed away is the coincidence of challenges: two digests may well be parsed to the
same ones, and then a damaged signature is accepted.

A digest is parsed to some
challenges, chosen when it is first seen and remembered in `oracle`, so a run covers
every assignment of challenges to the digests it meets.  The transcript is the
sequence of what was absorbed.  Concatenated bytes would be ambiguous in general;
here they are not, since the `R` canonical forms at the end have a fixed length.

**Challenges** (`util.c`).  `TrineParseHash` takes one step per sample of
`trine_parse_hash`.  Its promise, `Challenges`, is what `TrineScheme` assumes of the
call.

**Seed expansion** (`trine_expand.c`, `util.c`).  `TrineExpand` takes one step per
element drawn by `rnd_GF`, and tests the drawn matrix as `rnd_inv_matrix` does.  The
caller's memory is a row of cells and its outputs are addresses in it, so two
outputs may be apart, adjacent, overlapping by any number of elements, equal, or not
asked for.

**XOF and hash** (`hashkdf.c`).  `XofStream` is the abstract state: absorb, finalize,
then give out consecutive bytes of a stream that depends on the input only.
`XofCached` is the build over SM3, with the doubling buffers, the output cache that is
computed again when it grows, sizes that wrap at the width of `size_t`, and allocations
that fail.  `XofSponge` is the build over SHAKE256: the
incremental functions of `fips202.c` next to the one-shot functions, over a
permutation that is not interpreted.  Below the first build, `Sm3Padding` is
`sm3_bit` with its two words of length, and `Pseudohash` is the hashes of 512, 768
and 1024 bits and `pseudoXOF`, with any buffer of theirs refused.  A bit of a
message is named by its position there, and what memory holds behind the last bit
has a name of its own, so a hash that takes in a bit too many is another value.
`XofBuilds` puts these four side by side.

**Byte formats** (`trine_codec.c`).  `TrineCodec` packs elements into bytes that are
sets of bits.  One step is one segment of a layout; keys, forms and signatures are
four layouts over the same packing.  `BitStream` writes any fields that fit, pads,
and reads them again.  A field has one bit at least; the functions accept widths of
0 too, and then touch the byte behind a full buffer, which is not modelled.

**Algebra** (`field.c`, `matrixmod.c`, `matrixelim.c`, `triform.c`, `canonical.c`,
`corank1.c`).  `FieldMatrix` and `Triform` are functions.  `MatrixElim` is the step of
the row reduction; `Elimination` runs it column by column and compares what the
callers read off it with definitions over all vectors: the image, which has to have as
many as there are of one coordinate per pivot, and the kernel.  `GF_inv` is the loop of
squarings of the code; that it inverts is Fermat's theorem, which is assumed by name
(`InverseAssumption`) and evaluated by TLC for every field of a run and for that of the
program.  `BatchInverse` is the two passes of the batch inversion.  `CanonicalForm` takes one step per vector of the
path, and `RoundCommitment` lets signer and verifier of one round call it.

**Generators** (`randombytes.c`, `iccs/drng.c`).  `CtrDrbg` is the AES generator: one
step per block, with the carry of the counter byte by byte.  AES is not interpreted: a
block is named by the key and the counter it comes from, a new key is the next
number, a new counter any value.  `Sm3Drng` is the functions of the SM3 generator on
sequences of bytes, where SM3 is a parameter; `DrngCalls` is a caller that
initializes it and asks for bits in any order; `HashDrbg` is the same generator over
numbers, without bytes, carries or buffers.

**Known answers** (`iccs/KAT_SIG.c`).  `KnownAnswers` has the three generators of the
program, the records and the exits.  What the scheme draws during key generation and
signing comes through the missing `randombytes_iccs.c`; it is external, taken to be
whole requests to `drng_algorithm` in a fixed order.

**Adapter** (`iccs/SIG_AlgorithmInstance.c`).  `SigAdapter` has the three calls with
their lengths, error codes and the scratch buffer of `sig_sign`.

The modules prefixed `MC` instantiate these for TLC.  Components that are checked in the
same run do not act on each other: a variable that is set once (`running`, in `XofBuilds`
`build`) says which of them the behaviour is about.

The names of definitions are those of the code wherever it has one.  A line
`\* mutant:` marks a second version of the definition below it that contains a
plausible mistake.  It is used by nothing; put in place of the definition it makes
the run of the property it belongs to fail.

## What is checked

All runs are exhaustive for their bounds.

| Run | Module, configuration | Bounds | Shows |
|---|---|---|---|
| `protocol` | `MCTrine`, `MCTrine.cfg` | R = 3, K = 2, X = 2, one key, one message, two round seeds, two salts, one call of each function | `AnswersInBounds`, `Completeness`, `Authenticity`, `FailureLeavesNoOutput`, `NothingHeldAfterReturn`, `KeysMatch` |
| `protocol_refines` | `MCTrine`, `MCTrineRefine.cfg` | R = 2, K = 1, two keys, two messages, one of them empty | `ImplementsScheme` |
| `protocol_succeeds` | `MCTrine`, `MCTrineLive.cfg` | R = 2, K = 1, two messages, no failing call | `SigningSucceeds`, `VerifyingSucceeds`, and the inductive invariant `IInv` |
| `masked_fault` | `MCTrine`, `MCTrineMasked.cfg` | R = 2, K = 1, two messages | `EverySignatureVerifies` is violated, see Findings |
| `sampling` | `MCSampling` | challenges: R = 5, K = 3, X = 2; matrices 2 x 2 over F_2 from samples of two bits, in 12 cells of memory; generator: blocks of two bytes of base 3, requests of up to 9 bytes, three keys | `ParsedIsChallenge`, `PairMatches`, `NoBlockTwice`, `RequestFilled`, `ParsingEnds`, `ExpansionEnds`; bit lengths of all six parameter sets |
| `xof` | `MCXof`, `MCXof.cfg` | SM3 build: 4-bit sizes, up to 17 bytes; SHA3 build: rate 3, width 4, 6 bytes in, 7 out; padding: words of 8 bits, blocks of 32, up to 270 bits; hashes: 0 to 16 bits in, 0 to 520 out | both builds implement `XofStream` (`ImplementsStream`, `SpongeImplementsStream`); `TypeOK`, `GivenIsOnce`, `SpongeGivenIsOnce`, `PadsAsStandard`, `HashesAllOrNothing` |
| `sm3_length` | `MCXof`, `MCXofLength.cfg` | the same | `PadsEveryLength` is violated, see Findings |
| `codec` | `MCTrineCodec` | q = 5 in 3 bits, bytes of 4 bits, two forms, three response elements; bit stream: three bytes of 3 bits, fields of 2, 4 and 7 bits | `EncodesNumbers`, `AcceptsExactlyEncodings`, `FailureLeavesBuffers`, `RoundTrip` |
| `algebra` | `MCAlgebra` | q = 7, n = 5; 62 matrices, about two for each set of pivot columns; every list of up to 4 elements; rounds over 14 base forms, three secrets and 49 candidates; `GF_inv` for every element of F_4093 | `ReducedByRowOperations`, `ReadsOff`, `InvertsAllOrNothing`, `PathAnnihilates`, `BasesAreIndependent`, `AnchorsAreOne`, `CommitmentReproduced` |
| `iccs` | `MCIccs`, `MCIccs.cfg` | adapter: keys and signatures of 2 and 3 bytes, a `size_t` that ends at 4, lengths up to 7; generator: numbers of three bytes of two bits, requests of 0 to 12 bits, 66 in a row; program: ten records, seeds of four bytes, messages of 3 to 12 | `WritesStayWithin`, `OutputsFollowResult`, `NothingLeftInScratch`, `ImplementsHashDrbg`, `RecordsReproducible`, `MessagesFitBuffer` |
| `sig_adapter_codes` | `MCIccs`, `MCIccsCodes.cfg` | the same | `InvalidIsMinusOne` is violated, see Findings |
| `drng_masked` | `MCIccs`, `MCIccsDrng.cfg` | the same | `SuccessMeansSeeded` is violated, see Findings |

Why the bounds are enough:

  * Three rounds with two responses have, among all challenge vectors, two responses
    by the same form (the cache of inverses is used), two by different forms, and a
    seed before, between and after them, so a dense index out of step shows.  The
    round seed `late` has no canonical form at its first candidate, so both sides
    draw again.  A second key, a second message, the empty message, every component
    of a signature damaged, and key and signature in a second encoding are in the
    runs; their product with three rounds is too large, so the runs share them.
    A second salt makes a damaged salt one that leads
    to points of its own.
    `MaxAttempts` bounds the candidates passed over in a round at one.  One call of each function
    is enough for invariants about what a call leaves behind; `protocol_refines` makes
    two key pairs, so that a question can be about the wrong key.
  * With five positions in three bits and two values in two bits, positions out of range,
    positions taken and values out of range all occur.  Memory of
    12 cells lets two matrices of four lie at every distance that overlaps and at the
    nearest that do not.  Requests of 0 to 9 bytes at blocks
    of two end at and within a block, and the counter has 9 values, so it starts at
    each and carries and wraps within one key.
  * The 4-bit size makes each limit reachable: a buffer of eight bytes cannot be
    doubled, twelve bytes are the most whose bits can be counted, and the sum of
    two lengths can exceed fifteen.  The sponge crosses block boundaries on both sides
    at every offset.  Messages of 0 to 270 bits meet every rest of a block of 32
    eight times, end at every bit of a byte, and their length passes the 255 that fit
    a word of eight.  The hashes are given messages that end at, before and behind the
    end of a byte, and `pseudoXOF` outputs of no, one and several blocks.
  * Elements of 3 bits in bytes of 4 straddle bytes as 12 bits do in bytes of 8, at
    more offsets; the last byte is partly filled.  The elements enumerated lie on both sides of `q`
    and of `2^QBits`, and all strings of the packed segments are decoded, one byte too
    few included.  Fields of 2, 4 and 7 bits begin and end at every bit of a byte of 3 and
    run over up to four bytes.
  * A form of dimension 5 is the smallest at which the path, the interior anchors
    and the last diagonal entries all occur.  The field of seven elements is small
    enough that the path often ends early, at each of its stages,
    and large enough that each of the 14 forms has a point with a canonical
    form; the matrices of the third secret are scalars, so that a form with coinciding
    orbits is met.  The matrices eliminated have their pivots in each of the 32 sets of
    columns, so that the free column of a corank of one is every column, and rows have to
    be swapped for most of them.
  * The adapter's lengths run over everything from 0 past the sum that wraps.  In the
    generator a count of 66 has passed the 64 values of its number, and V wraps many
    times on the way.  The known-answer program runs all its ten records, with seeds
    of four bytes and messages that grow by one from three, so the last one still ends
    at the end of its buffer.

Fairness.  `StreamFairness` of `TrineParseHash` and of `TrineExpand` is in two parts.
Weak fairness of the steps between two samples, and of drawing, is that of sequential
code, which goes on with its next statement.  Strong fairness of drawing a value
that is looked for lets no such value stay away for ever from a stream, which is what a
stream that is indistinguishable from a random one gives; the code has no bound
of its own.  Under it a call ends, with its result or at a failing squeeze.  `MCSpec` of
`MCSampling` states the same for whichever of the two is running.
`TrineProtocol!FaultFreeSpec` says that a function that was called goes on with its
next statement, and it leaves out the failing calls: it is the specification of
the two success properties only.  The generators, the adapter and the program of
`iccs/` have safety properties only: each of their calls is a fixed number of
steps.

Deadlock.  The caller of the protocol makes a bounded number of calls, the
generator of `sampling` is used for a bounded number of keys, the algorithms of
`algebra` end with their result, the known-answer program exits: these
configurations turn the deadlock check off.  `xof`, `sm3_length` and `codec` check it.

## What is proved

The proofs hold for every value of the constants that satisfies the named
assumptions: any `R`, `K`, `X`, any number of keys, messages, seeds and candidates, any
width of `size_t` and of `unsigned long long`, any lengths of keys, messages and
buffers, any size of a block and of a request, any size of a generator's numbers and digests,
any width of a byte, a word and a block of the hash, messages of any number of bits,
any layout of elements in bytes, any prime field, any dimension and any place of a caller's outputs.

| Theorem | Module | States |
|---|---|---|
| `CallsInvariant`, `InvariantHolds` | `TrineProtocolProofs` | `Spec => []CallInv`, `Spec => []IInv` |
| `TypeCorrect`, `AnswersStayInBounds`, `IssuedSignaturesVerify`, `FailuresLeaveNoOutput`, `EverythingIsReleased`, `KeyPairsMatch` | `TrineProtocolProofs` | the invariants `TypeOK`, `AnswersInBounds`, `Completeness`, `FailureLeavesNoOutput`, `NothingHeldAfterReturn`, `KeysMatch` |
| `AcceptedSignaturesWereIssued`, `LibraryImplementsScheme` | `TrineProtocolProofs` | `Authenticity`, and that `TrineProtocol` implements `SignatureScheme` |
| `SelectionCounts`, `ParsesToChallenges` | `SamplingProofs` | `SelectedCounts`, `ParsedIsChallenge` |
| `XofTypeCorrect`, `SqueezedIsOnce`, `CachedImplementsStream` | `XofProofs` | `TypeOK`, `GivenIsOnce`, and that `XofCached` implements `XofStream` |
| `PaddingIsStandard`, `HashesAreWhole` | `XofProofs` | `PadsAsStandard` of `Sm3Padding`, `HashesAllOrNothing` of `Pseudohash` |
| `SpongeGivesOnce`, `SpongeKeepsPromise` | `XofProofs` | `GivenIsOnce` of `XofSponge`, and that it implements `XofStream` |
| `CountersDoNotRepeat`, `RequestsAreFilled` | `SamplingProofs` | `NoBlockTwice`, `RequestFilled` |
| `EncodersWriteNumbers`, `DecodersAcceptExactlyEncodings`, `FailedCodersWriteNothing` | `TrineCodecProofs` | `EncodesNumbers`, `AcceptsExactlyEncodings`, `FailureLeavesBuffers` |
| `FieldsAreReadAgain` | `TrineCodecProofs` | `RoundTrip` |
| `EliminationReduces`, `RankInverseAndKernel`, `BatchInvertsAllOrNothing`, `ExpandedPairMatches` | `AlgebraProofs` | `ReducedByRowOperations`, `ReadsOff`, `InvertsAllOrNothing`, `PairMatches` |
| `RoundIsFollowed` | `RoundProofs` | `Spec => []RoundInv` of `RoundCommitment` |
| `SuccessiveVectorsAnnihilate`, `BasesAreInvertible`, `NormalizedAnchors`, `VerifierFindsTheCommitment` | `RoundProofs` | `PathAnnihilates`, `BasesAreIndependent`, `AnchorsAreOne`, `CommitmentReproduced` |
| `NoOverrun`, `ResultsAreTrue`, `ScratchIsCleared` | `IccsProofs` | `WritesStayWithin`, `OutputsFollowResult`, `NothingLeftInScratch` |
| `GeneratorImplementsHashDrbg` | `IccsProofs` | that `DrngCalls` implements `HashDrbg` (`ImplementsHashDrbg`) |
| `RecordsAreReproducible`, `MessagesStayInBuffer` | `IccsProofs` | `RecordsReproducible`, `MessagesFitBuffer` |

`TypeOK` of `TrineProtocol` and `SelectedCounts` are proved only; the runs check the
stronger `IInv` and what the count is for, `ParsedIsChallenge`.

*The protocol.*  No safety property is inductive by itself.  That an issued signature
verifies needs to know, at every stage of the verification, that its transcript
is what the signer's was at the same round; that needs what an issued signature
consists of; and that needs what the signer's arrays hold at each stage.  `CallInv`
is the conjunction of these: `KeypairInv`, `SignInv` (what each stage of `crypto_sign`
has established), `IssuedInv` (each entry opens a transcript, `OpenedBy`) and `VerifyInv`
(a verification of such an entry retraces it, `VerifyRetraces`), with `OneCallRuns`,
which separates the handlers.  The module begins with the facts about dense
indices (`NonbaseBefore` and `BaseBefore` grow by one with the rounds, and end at `K` and
`R - K`) and the cardinalities they rest on, has one lemma per action of signing and
of verification, and composes them.  The assumptions are
`ParametersAssumption`, `BoundAssumption`, `AlgebraAssumption`, `AlteredAssumption` and
`Equivariance`; the last is what `VerifierFindsTheCommitment` proves of the computation.

*Authenticity.*  `IInv` adds `AuthInv`, what a verification knows of an argument nobody
has issued: what it has absorbed is the message and one form for each round it is past,
each of which the answer to that round leads to, by the candidate of a revealed seed
or by a response on one of the forms of the key (`VerifyAbsorbed`); an accepted digest is
parsed to the challenges of the digest it came with (`VerifyAccepted`).  When no
challenges collide these are one digest.  It is not a stray one, so it was first seen
when a signature was issued; `HashAssumption` makes the two transcripts equal, hence the
messages and, round by round, the forms.  A form names its key (`OrbitsDiffer`), and in a
round answered by its seed the seed and the salt (`StreamsDiffer`).  The responses are not
named: two vectors may lead to one form, and the theorem says no more than the code
promises.

*The abstract scheme.*  Under the mapping of `TrineProtocol` the initial states map to
initial states and every action to a step of `SignatureScheme` or a stutter: publishing a
signature is `Issue`, a call of the verification `Ask`, its end `Accept` or `Reject`, a
failing call `Obstruct`, a new entry of the oracle `Coincide` if it collides.  `Accept` is
allowed by `Authenticity` and `Reject` by `Completeness`, so both are needed before
the actions are.

*The generator.*  `RequestFilled` follows from counting blocks, whole ones until the
last.  `NoBlockTwice` does not follow from counting: it needs that the carry of
`randombytes.c`, which works byte by byte, visits every counter before it returns to one.
The proof avoids the number a counter stands for.  Call a set of counters closed when it
holds the successor of each of its members.  A nonempty closed set holds the counter
of full digits (digit by digit from the last: a digit counts up to the full one if those
behind it do, `DigitRises`), so it holds the counter of zeros; if its complement were
nonempty, that would hold the counter of zeros too (`DigitFalls`, the same backwards); so
it holds them all (`OneCycle`).  The counters between two equal ones of a chain are
closed, and `CounterAssumption` says that there are too few of them.  The inductions over
digits and over the value of a digit are done with sets (`NumberInduction`): a set of
numbers has a least element (`LeastNumber`), because the intervals below its elements are
finite sets and strict inclusion orders these well; so a set that holds 0 and with each
number the next holds all (`NumbersByInduction`).  The same module derives from it what a
recursive function is, from what it does in one step (`Recursion`), and the laws of sums
and powers (`Numbers`) that the codec and the generator of `iccs/` share.

*The codec.*  A byte string and an array of elements are both read as numbers, to the
base `2^ByteBits` and to the base `2^QBits`.  The proof compares neither with the other but
each with the number of its bits (`BitsNumber`): bytes, and the elements a decoder finds, are
digits of the number of the string's bits (`BytesAreDigits`, `ElementsAreDigits`,
`DigitsTotal`), what is encoded has the bits of the elements (`EncodedHolds`,
`BitsOfValue`), and the padding is zero when that number is below `2^(QBits * count)`
(`PaddingIsBits`, `BitsNumberBelow`).  `Total` and `Pow2` are recursive functions; that they
obey their own equations, and the inductions over the number of bits and of elements, rest
on `NumbersByInduction`.  On top of this,
`WrittenInv` says that the segments an encoder has been through are in the output, each at
its offset and untouched by the later ones (`OffsetOrder`, `WriteSegment`), and `DecodedInv`
that those a decoder has been through are accepted and decoded.  `CodecAssumption` gives
`2^(QBits - 1) < q <= 2^QBits`, `GivenAssumption` that what is given has the lengths the C
types give it; nothing relates `QBits` to `ByteBits` or the counts.
For what fails the invariant is `CodecInv`.  A decoder writes when all is decoded.  An encoder
writes as it goes, so before the first segment is written every packed segment but the
first is known to be valid: for a public key because all are validated first, for the
other objects because only their first segment is packed (`PackedFirst`).

*The stream.*  Given out is a prefix of the stream because the cache is
(`CacheIsStream`), the cache is because it is computed again as a whole, and a failed
growth, which leaves zeros in it, is never read since the failure is remembered.
The proof follows `grow_buffer` as a relation between the old and the new capacity,
so it covers every width of `size_t`, and uses that a sum compared with the limit
first does not wrap.

*The sponge.*  Each `while` loop of `fips202.c` is a function of how often its body was
entered; a loop whose body makes a number smaller until it stays has stayed after that
many entries (`LoopEnds`), so the value of such a function is what the C loop leaves.
That two calls of
`keccak_absorb` leave the state one call on the joined bytes leaves (`AbsorbJoins`)
makes the state a function of what was absorbed, and the closed form of the
squeezing loop (`Squeezes`), in which byte `i` comes from the state permuted
`(i - 1) \div Rate + 1` times, makes it a function of how much was given.  `SpongeInv` says
these two things, and with them `SpongeGivesOnce` compares the calls with the one-shot
functions, which absorb and squeeze by blocks (`OnceAbsorbs`, `OnceSqueezes`).
`SpongeKeepsPromise` compares both with the textbook, which first pads the whole input and
then adds it block by block: the code never forms the padded string but adds the
suffix and the last bit to the state, where they may meet in one byte (`TextbookAbsorbs`,
`LastBlock`).  Assumed, beside `SpongeAssumption`, is that there is a set of bytes
which contains the constants and the inputs and is closed under exclusive-or,
that the permutation takes states of such bytes to states (`HasBytes`), and for the
textbook that exclusive-or is associative and the zero byte changes nothing (`XorLaws`).
In the code the set is 0 to 255.  Nothing is known of Keccak's permutation.

*The padding.*  `PadInv` says what `sm3_bit` has compressed wherever a call of it is: the
first blocks of one string, the padded message written out bit by bit (`PadBit`), and
of the block in hand that its bits so far are the next ones of that string.  The
difficult step is the block the message ends in.  The code copies whole bytes, which
brings bits from behind the message, then cuts the last byte and marks it; that leaves
the message's rest, one bit and zeros, however much came along (`MarkedBlock`).  How many
blocks there are, and how many zeros, is decided by the code's comparison of the
rest with the room for the length (`PadSizes`); the standard asks for the fewest zeros
that fill the last block, and these are they (`FewestZeros`).  At the end the blocks
joined are the string (`BlocksFlatten`, by induction over the blocks), and the string is
the standard's (`PaddedBits`).  Assumed is `PaddingAssumption`: a block is whole bytes and has room
for two words.  The length has to fit a word, which is finding 4.

*The hashes.*  `HashInv` follows a call through its buffers: a hash computed is the
promised one (`HashesFollow`), and until the call returns the output is untouched
(`CallOrder`).  What makes a hash the promised one is that the tag follows the last bit
of the message although the code joins both in bytes: it clears what memory holds behind
the message in its last byte, adds the tag from there on and shifts the rest of it
(`TagFollows`); the same for the counters of `pseudoXOF`.  The chain of hashes is the
same loop for digests of 512, 768 and 1024 bits, each step joining hashes computed
before it (`ChainIsPromised`).  Assumed is only that lengths are natural numbers
(`CallersAssumption`); SM3 is not interpreted.

*The challenges.*  The loop counter is the number of positions filled, because a
position is only taken while free and a value is never 0.

*The elimination.*  A row of `rhs`, times the caller's matrix, is the row of the working
matrix: both are sums of products, and each row operation replaces a row by the same
combination of two rows on both sides (`OperationsKeepRows`, over `DotCombines` for the
sums).  With what is known of the columns passed (`Reduced`) this is `Eliminated`, which a
column preserves whether it has a pivot or not (`ColumnEliminates`).  When every column has
its pivot, the pivots are all columns in order (`RisingIsAll`), the working matrix is the
identity, and `rhs` is a left inverse.  That it is a right inverse too, which
`trine_expand.c` relies on when it hands both matrices out, does not follow from row
operations being done on the left.  It follows from their being undone: a relation
between rows that is closed under linear combinations and holds of the rows of `A` and
`rhs` after an operation held before it (`OperationsUndone`), hence at the start, of the
caller's matrix and the identity (`Undone`).  The relation `x` times the inverse is `y` is
closed so, and holds at the end, of the identity and the inverse.  No rank or determinant
is needed.  The field's one assumption is `InverseAssumption`.

*The rank and the kernel.*  A vector of the image, put through the row operations, is a
vector of the reduced matrix's image: it vanishes behind the pivots and is determined by
its coordinates at them, which may be any (`ReducedRows`).  Since the operations can be
undone, the two images have as many vectors, and one per choice of coordinates
(`ImageCounted`).  The count is stated with the set of those choices, and not as a
power of `q`, because the prover has no power.  A vector is in the kernel exactly when
the reduced rows annihilate it (`KernelKept`); with one free column that leaves one
coordinate to choose, and the vector the code builds from that column spans what is left
(`FreeColumns`, `KernelAtFree`, `KernelReadOff`).  All this is proved of the matrix a caller
passes, not only of a run of `Elimination`, and is what the next paragraph uses.

*The round.*  `RoundInv` says of the signer's call and of the verifier's what the path
has come to (`Chained`): each vector spans the kernel of the form next to the one before,
and the lists are independent.  `PathAnnihilates`, `BasesAreIndependent` and
`AnchorsAreOne` follow from it, the last by computing with the diagonal matrices
(`NormalizedIsOne`).  That the verifier finds the signer's form compares two calls that
do not run at the same time, so the invariant keeps what the signer's came to
(`Complete`).  A kernel next to a vector is a line or nothing (`KernelAtU`, `KernelAtV`,
`KernelAtW`), and the secret matrices take lines to lines (`StepFromU`, `StepFromV`,
`StepFromW`); the vector that is handed out on a line depends on the elimination, so the
paths correspond only up to a factor at each vector (`PathBeside`).  Independence does
not see the factors (`IndependentCarried`), so the verifier's call fails where the
signer's did; the two forms in the bases differ by the three factors of the
indices of an element (`WeightedBeside`), and these cancel in the normalization, at every
element (`SameNormalization`).  That is the point of the anchors, and each of the six
lists and the four single anchors is needed.  The assumptions are `FieldAssumption` and
`InverseAssumption`, `DimensionAssumption` (the dimension is at least five, since the
fourth anchor of the code is in slice four) and `RoundAssumption`: forms and vectors have
elements of the field, and the matrices of a secret have an inverse, which expansion
makes sure of.

*The batch inversion.*  Going back, `acc` times the product of the prefix it has come
to is 1, and what lies behind is inverted (`DividedTo`); the products of a prefix
without a 0 are not 0 because a field has no divisors of zero (`ProductsNotZero`).
`GivenListsAssumption` says that lists have elements of the field.

*The expansion.*  `ExpandInv` follows the samples to the matrix they make
(`DrawnIsMatrix`).  The two copies at the end go to cells that do not overlap, by the
test the call began with, so the second leaves the first (`WritingMatches`), and the
inverse is two-sided (`InverseIsTwoSided`).  `MemoryAssumption` says that the memory has
room for what the caller asks for.

*The bit stream.*  The place of a bit is one number, that of its byte times
`StreamByteBits` and its place there, and two places in the buffer are ordered as these
numbers are (`Bytewise`).  `bs_write` sets the bits from the stream's place on to those
of the field, leaves the ones before it, and no bit behind it is set (`WritesField`);
`bs_read` of the same width at the same place takes the field out again (`ReadsField`).
`StreamInv` puts this together: field `i` has the bits from the sum of the widths before
it, what lies behind the last field is 0, and what has been read is a prefix of what was
put.  That the rest is 0 is what makes the invariant inductive, since a byte begun is
added to and not assigned.  Only the widths and the fields are assumed
(`FieldsAssumption`): a width is 1 or more and a field is no wider than its width.

*The adapter.*  `AdapterInv` says what each stage of a call has established; its
centre is that the sum of the two lengths, computed modulo the width of `size_t`, is
the true sum for every call that passed the length checks (`SumFits`), so that the
comparison after `crypto_sign` never fails and the whole buffer is cleared.  The one
assumption is `WidthAssumption`.

*The generator of `iccs/`.*  The code adds bytes and hands the carry on; `HashDrbg` adds
numbers.  The last `k` bytes of a number have the value `Part`, and of a column sum they
have the value of its last `k` bytes after the carry plus that carry at its place
(`CarriedPart`); the first byte loses its carry, so the code adds modulo
`2^(ByteBits * SEEDLEN)` (`CarriedValue`).  Four numbers are added at once and the carry
is at most 3 (`CarryFits`), which is what lets the code keep it in a byte.  `BigEndian`
takes a number back to its bytes (`BigEndianValue`), and the numbers hashed for one
request are V, V + 1 and so on (`CountedValue`).  On the side of the output, the place of
a bit in a byte of a digest is compared with its place in the stream of all digests
(`NestedPositions`), and clearing the bits of the last byte that were not asked for
leaves the bits that were (`HighBits`, `RequestBits`).  The invariant is that a context
holds numbers (`GeneratorInv`).  Assumed are `LengthsAssumption`, `CallsAssumption`, and
of the hash that it returns `OUTLEN` bytes (`HashesToDigests`), which is what the C type
of its result says; nothing else is known of SM3.

*The known-answer program.*  That a record can be recomputed is about its last stage;
`KatInv` follows the three generators through all of them.  The two that give seeds and
messages are where as many requests as there were records leave them
(`GeneratorsFollow`), which `drng_algorithm`, however much is drawn from it, does not touch;
`drng_algorithm` is where the seed of the record and the stage put it (`AlgorithmFollows`);
and the record has its seed and its message from its number (`RecordDrawn`).  Each of
these is excused for the initialization that ran out of memory and no other.  The length
of a message follows from the number of the record (`ProgramOrder`), and with
`ProgramAssumption` the last one fits its buffer.  Nothing is assumed of the hash.

Only model-checked: the liveness properties, since liveness under fairness is beyond the
prover.  Every safety property of a passing run is proved.

## Findings

1. `canonical_diagonal_normalize_vartime` returns -1 both for a degenerate point and
   when its `malloc` fails, and the candidate loop (`meds.c:158-175`) takes every -1 for
   a degenerate point.  If that allocation fails while `crypto_sign` commits a round
   that is later answered by its seed, `crypto_sign` returns 0 with a signature that
   a verifier, which restarts from the seed and takes the first usable candidate,
   rejects.  `EverySignatureVerifies` fails in `masked_fault`.  `Completeness` states what
   does hold: an issued signature in which no usable candidate of a base round was
   passed over verifies unless a call fails.
2. `sig_verify` answers -6 for an invalid signature, where its header promises -1;
   -1 is its code for a null argument.  `InvalidIsMinusOne` fails in
   `sig_adapter_codes`.

3. `SM3_DRNG_Instantiate` ignores the results of both derivations
   (`iccs/drng.c:252` and `:257`).  When one of them runs out of memory, the generator
   goes on from the undigested seed or without its constant, and
   `init_random_number` returns 0, where its header promises "0 for success, others
   for error".  `SuccessMeansSeeded` fails in `drng_masked`.
4. `sm3_bit` computes the upper word of the length as `block_num >> 32 << 9`
   (`iccs/auxfunc.c:152`; the same line is `iccs/drng.c:158`), which loses bits 32 to 40
   of the length.  Messages of 2^32 bits and more are not padded as the standard the
   function is named after says.  `PadsEveryLength` fails in `sm3_length`;
   `PadsAsStandard` states that shorter ones are.

Read on the way: `pseudoXOF` and `pseudohash` return without freeing what they hold
when a later `malloc` fails, which `HashesAllOrNothing` allows for by name; the branch
of `GF_inv` for q = 8191 is dead in every parameter set.

## Not modelled

  * The Keccak permutation, the SM3 compression function and AES: pure
    computation, uninterpreted.  That different domains give unrelated streams is an
    injective symbolic expansion.
  * `seedexpander` of `randombytes.c`, SHAKE128 and the SHA3 digests of `fips202.c`, the
    older constant-time elimination in `matrixmod.c`, `pmod_vec_in_span_vartime` of
    `matrixelim.c`, and `rnd_sys_mat`, `solve`, `G_mat_init`, `pi`, `phi` and `XOF` of
    `util.c`: the library calls none of them.
  * `randombytes_iccs.c` is not in the repository; `Draw` in `KnownAnswers` stands for it.
  * `test_speed/`, `osfreq.c`, `log.h`: measurement and output.  Of `iccs/KAT_SIG.c`, the
    printing, the check of the instance name and its own allocations, whose results
    it does not look at.
  * Null pointers and wrong lengths are one `badArgument` per call, since every
    such check comes first and leaves nothing behind.

## Plan

Done, in this order: the protocol with its invariant and proofs; the abstract scheme;
challenges; the streams; byte formats; algebra; the adapter; the generators and the
known-answer program; the expansion of seeds; padding and hashes over SM3; the bit
stream; the proofs of every safety property, the sponge last.

Next: `seedexpander`, if a caller of it appears.
