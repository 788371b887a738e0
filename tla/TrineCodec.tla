----------------------------- MODULE TrineCodec -----------------------------
(***************************************************************************)
(* trine_codec.c: field elements packed without gaps, least significant    *)
(* bit first, and the layouts of keys, forms and signatures.  A byte is    *)
(* the set of its bits that are 1.  One step is the encoding or decoding   *)
(* of one segment of the layout.                                           *)
(***************************************************************************)
EXTENDS Numbers, Sequences, FiniteSetsExt

CONSTANTS
  Q, QBits, ByteBits,      \* TRINE_q, TRINE_q_bits and the bits of a byte
  X,                       \* TRINE_X
  FormElements,            \* n * n * n
  ResponseElements,        \* TRINE_K * TRINE_n
  SeedBytes,               \* length of a public or secret seed
  BaseSeedBytes, DigestBytes, SaltBytes,
  Objects,                 \* what the callers encode and decode
  GivenContents,           \* of each object, the contents they have encoded
  GivenStrings             \* and the byte strings they have decoded

ASSUME CodecAssumption ==
  /\ {Q, QBits, ByteBits, X, FormElements, ResponseElements} \subseteq Nat \ {0}
  /\ {SeedBytes, BaseSeedBytes, DigestBytes, SaltBytes} \subseteq Nat
  /\ Pow2[QBits - 1] < Q /\ Q <= Pow2[QBits]
  /\ Objects \subseteq {"form", "public_key", "secret_key", "signature"}

VARIABLES
  call,     \* "encode" or "decode" while it runs, then "encoded" or "decoded",
            \* and "idle" once the caller is done with its buffers
  obj,      \* what the call is about
  given,    \* the contents to encode or the bytes to decode
  done,     \* the segments it has been through
  tmp,      \* forms_tmp, responses_tmp: what they decoded to
  output,   \* the caller's buffer for bytes, or for contents if any were written
  noMemory, \* a malloc of the call failed
  result    \* what it returned

vars == <<call, obj, given, done, tmp, output, noMemory, result>>

-----------------------------------------------------------------------------
Packed(count) == [packed |-> TRUE, count |-> count]
Raw(count) == [packed |-> FALSE, count |-> count]

Layout(o) ==
  CASE o = "form" -> <<Packed(FormElements)>>
    [] o = "public_key" -> <<Raw(SeedBytes)>> \o [f \in 1 .. X |-> Packed(FormElements)]
    [] o = "secret_key" -> <<Raw(SeedBytes)>>
    [] o = "signature" -> <<Packed(ResponseElements), Raw(BaseSeedBytes),
                            Raw(DigestBytes), Raw(SaltBytes)>>

Segments(o) == 1 .. Len(Layout(o))
PackedSegments(o) == {s \in Segments(o) : Layout(o)[s].packed}

\* trine_codec_fq_array_bytes rounds up.
ArrayBytes(count) == (count * QBits + ByteBits - 1) \div ByteBits

Width(segment) ==
  IF segment.packed THEN ArrayBytes(segment.count) ELSE segment.count
Offset(o, s) == Total([t \in 1 .. s - 1 |-> Width(Layout(o)[t])], s - 1)
TotalBytes(o) == Offset(o, Len(Layout(o)) + 1)

Piece(o, bytes, s) ==
  SubSeq(bytes, Offset(o, s) + 1, Offset(o, s) + Width(Layout(o)[s]))

Bytes == SUBSET (0 .. ByteBits - 1)

\* Arrays of the lengths the layout says: the compiler sees to that.
ASSUME GivenAssumption ==
  \A o \in Objects :
    /\ \A c \in GivenContents[o], s \in Segments(o) :
         c[s] \in [1 .. Layout(o)[s].count -> IF Layout(o)[s].packed THEN Nat ELSE Bytes]
    /\ GivenStrings[o] \subseteq Seq(Bytes)

-----------------------------------------------------------------------------
\* The number that n bits are.
BitsNumber(bits, n) ==
  Total([i \in 1 .. n |-> IF i - 1 \in bits THEN Pow2[i - 1] ELSE 0], n)

BitOf(value, bit) == (value \div Pow2[bit]) % 2 = 1

\* validate_fq_array
Validate(values) == \A i \in DOMAIN values : values[i] < Q

\* encode_fq_array_unchecked into cleared bytes: the bits that are 1.
Ones(values) ==
  {p \in 0 .. Len(values) * QBits - 1 : BitOf(values[(p \div QBits) + 1], p % QBits)}

\* mutant: the bits of an element stay in the byte it starts in
EncodeArray_OneByte(values) ==
  [b \in 1 .. ArrayBytes(Len(values)) |->
     {p % ByteBits : p \in {r \in Ones(values) :
        /\ r \div ByteBits = b - 1
        /\ ((r \div QBits) * QBits) \div ByteBits = b - 1}}]
EncodeArray(values) ==
  [b \in 1 .. ArrayBytes(Len(values)) |->
     {p % ByteBits : p \in {r \in Ones(values) : r \div ByteBits = b - 1}}]

\* decode_fq_unchecked
DecodeElement(bytes, i) ==
  BitsNumber(
    {bit \in 0 .. QBits - 1 :
       LET p == (i - 1) * QBits + bit
       IN (p % ByteBits) \in bytes[(p \div ByteBits) + 1]}, QBits)

DecodeArray(bytes, count) == [i \in 1 .. count |-> DecodeElement(bytes, i)]

\* padding_is_zero looks at the last byte only.
\* mutant: the padding is not looked at
PaddingIsZero_Any(bytes, count) == TRUE
PaddingIsZero(bytes, count) ==
  LET used == (count * QBits) % ByteBits
  IN used = 0 \/ bytes[Len(bytes)] \cap (used .. ByteBits - 1) = {}

\* The range check of decode, on what a segment decodes to.
AcceptsArray(bytes, count) ==
  PaddingIsZero(bytes, count) /\ Validate(DecodeArray(bytes, count))

-----------------------------------------------------------------------------
\* What a buffer holds where nothing was written, and no byte.
Untouched == {-1}

Fresh(bytes) == [i \in 1 .. bytes |-> Untouched]

Begin(stage, o, in, out, value) ==
  /\ call' = stage /\ obj' = o /\ given' = in /\ output' = out /\ result' = value
  /\ done' = {} /\ tmp' = <<>> /\ noMemory' = FALSE

Finish(value) ==
  /\ call' = IF call = "encode" THEN "encoded" ELSE "decoded"
  /\ result' = value
  /\ UNCHANGED <<obj, given, done, tmp>>

Init ==
  /\ call = "idle" /\ obj \in Objects /\ given = <<>> /\ done = {}
  /\ tmp = <<>> /\ output = <<>> /\ noMemory = FALSE /\ result = 0

Returned == call \in {"encoded", "decoded"}

Release ==
  /\ Returned
  /\ Begin("idle", obj, <<>>, <<>>, 0)

\* encode_public_key validates all forms before it writes; encode_signature
\* and encode_triform leave that to the one array they encode.
\* mutant: each form is validated when its turn comes
ValidatedFirst_None(o) == {}
ValidatedFirst(o) == IF o = "public_key" THEN PackedSegments(o) ELSE {}

EncodeCall(o, c, outLen) ==
  /\ call = "idle"
  /\ IF outLen # TotalBytes(o) \/ \E s \in ValidatedFirst(o) : ~Validate(c[s])
     THEN Begin("encoded", o, c, Fresh(outLen), -1)
     ELSE Begin("encode", o, c, Fresh(outLen), 1)

Write(s, bytes) ==
  [i \in DOMAIN output |->
     IF i - Offset(obj, s) \in DOMAIN bytes THEN bytes[i - Offset(obj, s)] ELSE output[i]]

EncodeSegment ==
  /\ call = "encode" /\ done # Segments(obj)
  /\ LET s == Min(Segments(obj) \ done)
         segment == Layout(obj)[s]
     IN IF segment.packed /\ ~Validate(given[s])
        THEN Finish(-1) /\ UNCHANGED <<output, noMemory>>
        ELSE /\ done' = done \cup {s}
             /\ output' =
                  Write(s, IF segment.packed THEN EncodeArray(given[s]) ELSE given[s])
             /\ UNCHANGED <<call, obj, given, tmp, noMemory, result>>

EncodeReturn ==
  /\ call = "encode" /\ done = Segments(obj)
  /\ Finish(0) /\ UNCHANGED <<output, noMemory>>

DecodeCall(o, bytes) ==
  /\ call = "idle"
  /\ IF Len(bytes) # TotalBytes(o)
     THEN Begin("decoded", o, bytes, <<>>, -1)
     ELSE Begin("decode", o, bytes, <<>>, 1)

\* A malloc of the decoder, or of one of the arrays it decodes.
DecodeFault ==
  /\ call = "decode" /\ done # PackedSegments(obj)
  /\ noMemory' = TRUE
  /\ Finish(-1) /\ UNCHANGED output

\* The packed segments come first: they are what can be refused.
DecodeSegment ==
  /\ call = "decode" /\ done # PackedSegments(obj)
  /\ LET s == Min(PackedSegments(obj) \ done)
         bytes == Piece(obj, given, s)
         count == Layout(obj)[s].count
     IN IF AcceptsArray(bytes, count)
        THEN /\ done' = done \cup {s}
             /\ tmp' = [t \in done' |-> IF t = s THEN DecodeArray(bytes, count) ELSE tmp[t]]
             /\ UNCHANGED <<call, obj, given, output, noMemory, result>>
        ELSE Finish(-1) /\ UNCHANGED <<output, noMemory>>

DecodeReturn ==
  /\ call = "decode" /\ done = PackedSegments(obj)
  /\ output' = [s \in Segments(obj) |->
                  IF Layout(obj)[s].packed THEN tmp[s] ELSE Piece(obj, given, s)]
  /\ Finish(0) /\ UNCHANGED noMemory

Next ==
  \/ \E o \in Objects : \E c \in GivenContents[o] :
       \E outLen \in {TotalBytes(o) - 1, TotalBytes(o)} : EncodeCall(o, c, outLen)
  \/ EncodeSegment \/ EncodeReturn
  \/ \E o \in Objects : \E bytes \in GivenStrings[o] : DecodeCall(o, bytes)
  \/ DecodeSegment \/ DecodeFault \/ DecodeReturn
  \/ Release

Spec == Init /\ [][Next]_vars

-----------------------------------------------------------------------------
\* What the coding means: elements and bytes are digits of the same number.
ElementsNumber(values) ==
  Total([i \in 1 .. Len(values) |-> values[i] * Pow2[QBits * (i - 1)]], Len(values))
BytesNumber(bytes) ==
  Total([i \in 1 .. Len(bytes) |-> BitsNumber(bytes[i], ByteBits) * Pow2[ByteBits * (i - 1)]],
        Len(bytes))

\* A number below 2^(QBits * count) whose digits to the base 2^QBits are
\* elements.
IsEncoding(bytes, count) ==
  LET number == BytesNumber(bytes)
  IN /\ number < Pow2[QBits * count]
     /\ \A i \in 1 .. count : (number \div Pow2[QBits * (i - 1)]) % Pow2[QBits] < Q

(* What an encoder wrote is, segment by segment, the number its elements   *)
(* are the digits of, or the bytes it was given, and nothing but valid     *)
(* elements is ever encoded.                                               *)
EncodesNumbers ==
  call = "encoded" /\ result = 0 =>
    \A s \in Segments(obj) :
      IF Layout(obj)[s].packed
      THEN /\ BytesNumber(Piece(obj, output, s)) = ElementsNumber(given[s])
           /\ \A i \in DOMAIN given[s] : given[s][i] < Q
      ELSE Piece(obj, output, s) = given[s]

(* A decoder that has its memory accepts exactly the byte strings that are *)
(* encodings, and what it returns encodes to the string it was given: no   *)
(* two strings decode to the same key or signature.                        *)
AcceptsExactlyEncodings ==
  call = "decoded" /\ ~noMemory /\ Len(given) = TotalBytes(obj) =>
    /\ result = 0 <=> \A s \in PackedSegments(obj) :
                        IsEncoding(Piece(obj, given, s), Layout(obj)[s].count)
    /\ result = 0 => \A s \in Segments(obj) :
         IF Layout(obj)[s].packed
         THEN ElementsNumber(output[s]) = BytesNumber(Piece(obj, given, s))
         ELSE output[s] = Piece(obj, given, s)

(* An operation that fails leaves the caller's buffers as they were, after *)
(* however many segments it fails.                                         *)
FailureLeavesBuffers ==
  result = -1 => \A i \in DOMAIN output : output[i] = Untouched
=============================================================================
