----------------------------- MODULE XofCached -----------------------------
(***************************************************************************)
(* trine_xof_* and trine_hash_* of the SM3 build (USE_ICCS).  What is      *)
(* absorbed is kept in a buffer that doubles when it is full.  pseudoXOF   *)
(* has no state to squeeze from: trine_xof_squeeze keeps all output in a   *)
(* cache, and computes the whole of it again whenever the cache grows.  A  *)
(* failure is remembered in the state and fails every later call.          *)
(***************************************************************************)
EXTENDS Integers, Sequences

CONSTANTS
  Inputs,           \* chunks a caller absorbs
  Lengths,          \* numbers of bytes a caller asks for
  InitialCapacity,  \* 64 in grow_buffer
  SizeBits,         \* bits of a size_t
  SizeMax,          \* SIZE_MAX
  MaxInput,         \* bound: bytes a caller absorbs
  Block,            \* bytes of an SM3 digest
  DigestLengths     \* the digest lengths trine_hash_finalize knows

ASSUME SizesAssumption ==
  /\ SizeBits \in Nat /\ SizeMax \in Nat /\ SizeMax = 2 ^ SizeBits - 1
  /\ InitialCapacity \in 1 .. SizeMax
  /\ Lengths \subseteq Nat /\ Block \in Nat \ {0}
  /\ \A chunk \in Inputs : chunk \in Seq(Nat)

VARIABLES
  kind,           \* "xof" or "hash": the type of the state
  input,          \* input, its length being input_len
  inputCapacity,  \* input_capacity
  finalized, failed,
  given,          \* history: the bytes handed to the caller
  result          \* what the last call returned

bufferVars == <<kind, input, inputCapacity, finalized, failed, given, result>>

BufferInit ==
  /\ kind \in {"xof", "hash"}
  /\ input = <<>> /\ inputCapacity = 0
  /\ finalized = FALSE /\ failed = FALSE
  /\ given = <<>> /\ result = 0

-----------------------------------------------------------------------------
(* grow_buffer                                                              *)

Sizes == 0 .. SizeMax

\* The capacities that hold what is required and are reached by doubling
\* without overflow.
Doublings(capacity, required) ==
  LET start == IF capacity = 0 THEN InitialCapacity ELSE capacity
  IN {c \in required .. SizeMax : \E k \in 0 .. SizeBits : c = start * 2 ^ k}

\* c is the capacity of a buffer after grow_buffer: what it was if that is
\* enough, the first doubling that is, or exactly what is required when the
\* doubling would overflow.
GrowsTo(c, capacity, required) ==
  IF required <= capacity THEN c = capacity
  ELSE IF Doublings(capacity, required) = {} THEN c = required
  ELSE c \in Doublings(capacity, required) /\ \A d \in Doublings(capacity, required) : c <= d

\* The sum of two sizes, which wraps.
Plus(a, b) == (a + b) % (SizeMax + 1)

Refused == result' = -1 /\ UNCHANGED <<kind, input, inputCapacity, finalized, failed, given>>

Broken ==
  /\ failed' = TRUE /\ result' = -1
  /\ UNCHANGED <<kind, input, inputCapacity, finalized, given>>

\* mutant: the sum of the lengths may wrap
Fits_Always(chunk) == TRUE
Fits(chunk) == Len(chunk) <= SizeMax - Len(input)

Absorb(chunk) ==
  IF finalized \/ failed THEN Refused
  ELSE IF ~Fits(chunk) THEN Broken
  ELSE /\ inputCapacity' \in Sizes
       /\ GrowsTo(inputCapacity', inputCapacity, Plus(Len(input), Len(chunk)))
       /\ input' = input \o chunk
       /\ result' = 0
       /\ UNCHANGED <<kind, finalized, failed, given>>

\* realloc fails.
AbsorbFault(chunk) ==
  /\ ~finalized /\ ~failed /\ Fits(chunk)
  /\ Plus(Len(input), Len(chunk)) > inputCapacity
  /\ Broken

\* The caller's input is bounded by MaxInput.
Absorbs ==
  \E chunk \in Inputs :
    /\ Len(input) + Len(chunk) <= MaxInput
    /\ Absorb(chunk) \/ AbsorbFault(chunk)

-----------------------------------------------------------------------------
(* The states with their cache.                                             *)

CONSTANTS
  MaxHashed,  \* ULLONG_MAX / 8: the bytes whose bits can be counted
  MaxOutput   \* bound: bytes a caller squeezes

VARIABLES
  cache,   \* output_cache, its length being output_capacity
  offset   \* output_offset

vars == <<bufferVars, cache, offset>>

Init == BufferInit /\ cache = <<>> /\ offset = 0

\* What memset leaves, a byte of no stream.
Zero == <<"zero">>

\* pseudoXOF: the digests of the input followed by a counter that starts at 1,
\* one after the other, cut to n bytes.
PseudoXof(in, n) ==
  [i \in 1 .. n |-> <<in, ((i - 1) \div Block) + 1, (i - 1) % Block>>]

\* sm3hash and pseudohash, told apart by the length of the digest.
PseudoHash(in, n) == [i \in 1 .. n |-> <<in, -n, i>>]

Countable(n) == n <= MaxHashed

-----------------------------------------------------------------------------
Finalize ==
  /\ kind = "xof"
  /\ IF finalized \/ failed THEN Refused
     ELSE /\ finalized' = TRUE /\ result' = 0
          /\ UNCHANGED <<kind, input, inputCapacity, failed, given>>
  /\ UNCHANGED <<cache, offset>>

\* realloc zeroes what it adds.
ZeroFilled(capacity) == cache \o [i \in 1 .. (capacity - Len(cache)) |-> Zero]

\* The cache when it holds at least so many bytes.
\* mutant: only the part added is computed, from a counter at 1
FilledTo_Part(capacity) ==
  IF capacity = Len(cache) THEN cache
  ELSE cache \o PseudoXof(input, capacity - Len(cache))
FilledTo(capacity) ==
  IF capacity = Len(cache) THEN cache ELSE PseudoXof(input, capacity)

Deliver(n, bytes) ==
  /\ cache' = bytes
  /\ given' = given \o SubSeq(bytes, offset + 1, offset + n)
  /\ offset' = offset + n
  /\ result' = 0
  /\ UNCHANGED <<kind, input, inputCapacity, finalized, failed>>

Squeeze(n) ==
  /\ kind = "xof"
  /\ IF ~finalized THEN Refused /\ UNCHANGED <<cache, offset>>
     ELSE IF n = 0
       THEN result' = 0 /\ UNCHANGED <<kind, input, inputCapacity, finalized, failed, given,
                                       cache, offset>>
     ELSE IF failed THEN Refused /\ UNCHANGED <<cache, offset>>
     ELSE IF n > SizeMax - offset THEN Broken /\ UNCHANGED <<cache, offset>>
     ELSE \E capacity \in Sizes :
            /\ GrowsTo(capacity, Len(cache), Plus(offset, n))
            /\ IF capacity = Len(cache) \/ (Countable(capacity) /\ Countable(Len(input)))
                 THEN Deliver(n, FilledTo(capacity))
                 ELSE Broken /\ cache' = ZeroFilled(capacity) /\ UNCHANGED offset

\* A failing realloc leaves the cache alone; when pseudoXOF fails, the cache
\* has already grown and its new part is zero.
\* mutant: the state does not remember the failure
SqueezeFault_Forgets(n) ==
  /\ kind = "xof" /\ finalized /\ ~failed /\ n > 0
  /\ n <= SizeMax - offset /\ Plus(offset, n) > Len(cache)
  /\ Refused
  /\ \E capacity \in Sizes :
       /\ GrowsTo(capacity, Len(cache), Plus(offset, n))
       /\ cache' \in {cache, ZeroFilled(capacity)}
  /\ UNCHANGED offset

SqueezeFault(n) ==
  /\ kind = "xof" /\ finalized /\ ~failed /\ n > 0
  /\ n <= SizeMax - offset /\ Plus(offset, n) > Len(cache)
  /\ Broken
  /\ \E capacity \in Sizes :
       /\ GrowsTo(capacity, Len(cache), Plus(offset, n))
       /\ cache' \in {cache, ZeroFilled(capacity)}
  /\ UNCHANGED offset

HashFinalize(n) ==
  /\ kind = "hash"
  /\ IF finalized \/ failed THEN Refused
     ELSE IF n \notin DigestLengths \/ ~Countable(Len(input)) THEN Broken
     ELSE /\ given' = PseudoHash(input, n)
          /\ finalized' = TRUE /\ result' = 0
          /\ UNCHANGED <<kind, input, inputCapacity, failed>>
  /\ UNCHANGED <<cache, offset>>

HashFault(n) ==
  /\ kind = "hash" /\ ~finalized /\ ~failed
  /\ n \in DigestLengths /\ Countable(Len(input))
  /\ Broken
  /\ UNCHANGED <<cache, offset>>

\* release, and init again for another use.
Release ==
  /\ input' = <<>> /\ inputCapacity' = 0
  /\ finalized' = FALSE /\ failed' = FALSE
  /\ given' = <<>> /\ result' = 0
  /\ cache' = <<>> /\ offset' = 0
  /\ kind' \in {"xof", "hash"}

Next ==
  \/ Absorbs /\ UNCHANGED <<cache, offset>>
  \/ Finalize
  \/ \E n \in Lengths :
       \/ Len(given) + n <= MaxOutput /\ (Squeeze(n) \/ SqueezeFault(n))
       \/ HashFinalize(n) \/ HashFault(n)
  \/ Release

Spec == Init /\ [][Next]_vars

-----------------------------------------------------------------------------
\* Every variable has its type, and buffers have the sizes their counters say.
TypeOK ==
  /\ kind \in {"xof", "hash"} /\ finalized \in BOOLEAN /\ failed \in BOOLEAN
  /\ Len(input) <= inputCapacity /\ inputCapacity <= SizeMax
  /\ Len(cache) <= SizeMax /\ offset <= Len(cache)
  /\ result \in {0, -1}

\* As long as no call failed, the cache is a prefix of the stream of the
\* input: what is squeezed next does not depend on how often it was computed.
CacheIsStream == ~failed => cache = PseudoXof(input, Len(cache))

\* What a caller has received is what trine_xof_once would have returned for
\* the whole input, before and after a failure.
GivenIsOnce == kind = "xof" => given = PseudoXof(input, offset)

Phase == IF failed THEN "broken"
         ELSE IF ~finalized THEN "absorbing"
         ELSE IF kind = "xof" THEN "squeezing" ELSE "closed"

\* What the one-shot functions return.
OnceByte(in, i) == PseudoXof(in, i)[i]
HashByte(in, n, i) == PseudoHash(in, n)[i]

Stream == INSTANCE XofStream WITH
            phase <- Phase,
            absorbed <- input,
            StreamByte <- OnceByte,
            DigestByte <- HashByte

\* The buffered states keep the promise of XofStream.
ImplementsStream == Stream!Spec
=============================================================================
