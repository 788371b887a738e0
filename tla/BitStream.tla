----------------------------- MODULE BitStream -----------------------------
(***************************************************************************)
(* bitstream.c: fields of any width packed into bytes without gaps, and    *)
(* read again with the same widths.  A byte, and the data of a field, is   *)
(* the set of its bits that are 1, numbered from the lowest.               *)
(***************************************************************************)
EXTENDS Integers, Sequences

CONSTANTS
  StreamByteBits,   \* 8
  BufLen,           \* bytes of the caller's buffer
  Fields            \* from widths, 1 and up, to the data written with them

ASSUME FieldsAssumption ==
  /\ StreamByteBits \in Nat \ {0} /\ BufLen \in Nat
  /\ DOMAIN Fields \subseteq Nat \ {0}
  /\ \A width \in DOMAIN Fields : Fields[width] \subseteq SUBSET (0 .. width - 1)

VARIABLES
  mode,                        \* "idle", "write", "written" or "read"
  data, byte_pos, bit_pos,     \* the stream
  put, got,                    \* the fields written, and those read again
  last                         \* what bs_finalize returned

streamVars == <<mode, data, byte_pos, bit_pos, put, got, last>>

Buffer == 0 .. BufLen - 1
Zeroed == [b \in Buffer |-> {}]

StreamInit ==
  /\ mode = "idle" /\ data = Zeroed /\ byte_pos = 0 /\ bit_pos = 0
  /\ put = <<>> /\ got = <<>> /\ last = -1

Byte(bits) == bits \cap 0 .. StreamByteBits - 1
Left(bits, n) == {b + n : b \in bits}
Right(bits, n) == {b - n : b \in {c \in bits : c >= n}}

Exceeds(width) ==
  byte_pos * StreamByteBits + bit_pos + width > BufLen * StreamByteBits

Short(width) == bit_pos + width < StreamByteBits

\* The bits of a longer field that fill up the byte begun.
\* mutant: as many as that byte has already
Filling_Begun == bit_pos
Filling == IF bit_pos > 0 THEN StreamByteBits - bit_pos ELSE 0

\* The bytes behind it, and the bits in the last of them if it is not filled.
First == IF bit_pos > 0 THEN byte_pos + 1 ELSE byte_pos
Whole(width) == (width - Filling) \div StreamByteBits
LeftOver(width) == (width - Filling) % StreamByteBits
Behind(width) ==
  First .. First + Whole(width) + (IF LeftOver(width) > 0 THEN 0 ELSE -1)

\* The bit of the field in the lowest bit of such a byte.
Start(b) == Filling + StreamByteBits * (b - First)

Advance(width) ==
  IF Short(width) THEN bit_pos' = bit_pos + width /\ UNCHANGED byte_pos
  ELSE byte_pos' = First + Whole(width) /\ bit_pos' = LeftOver(width)

-----------------------------------------------------------------------------
\* For writing the caller passes zeros, for reading what it has written.
bs_init ==
  /\ \/ /\ mode \in {"idle", "read"} /\ mode' = "write"
        /\ data' = Zeroed /\ put' = <<>> /\ last' = -1
     \/ mode = "written" /\ mode' = "read" /\ UNCHANGED <<data, put, last>>
  /\ byte_pos' = 0 /\ bit_pos' = 0 /\ got' = <<>>

\* A byte begun is added to, and so is the byte of a short field; the others
\* are assigned.
bs_write(width, field) ==
  /\ mode = "write" /\ ~Exceeds(width)
  /\ data' = [b \in Buffer |->
       IF b = byte_pos /\ (Short(width) \/ bit_pos > 0)
         THEN data[b] \cup Byte(Left(field, bit_pos))
       ELSE IF ~Short(width) /\ b \in Behind(width)
         THEN Byte(Right(field, Start(b)))
       ELSE data[b]]
  /\ Advance(width)
  /\ put' = Append(put, [width |-> width, field |-> field])
  /\ UNCHANGED <<mode, got, last>>

\* A field that does not fit is refused, and the stream can still be used.
bs_write_refused(width) == mode = "write" /\ Exceeds(width) /\ UNCHANGED streamVars

bs_finalize ==
  /\ mode = "write"
  /\ byte_pos' = IF bit_pos > 0 THEN byte_pos + 1 ELSE byte_pos
  /\ bit_pos' = 0 /\ last' = byte_pos' - 1
  /\ mode' = "written"
  /\ UNCHANGED <<data, put, got>>

\* Only the last byte has bits of later fields that have to be masked.
Field(width) ==
  IF Short(width) THEN Right(data[byte_pos], bit_pos) \cap 0 .. width - 1
  ELSE (IF bit_pos > 0 THEN Right(data[byte_pos], bit_pos) ELSE {})
         \cup UNION {LET byte == IF b = First + Whole(width)
                                THEN data[b] \cap 0 .. LeftOver(width) - 1 ELSE data[b]
                    IN Left(byte, Start(b)) : b \in Behind(width)}

\* The reader asks for the widths that were written.
bs_read ==
  /\ mode = "read" /\ Len(got) < Len(put)
  /\ LET width == put[Len(got) + 1].width
     IN ~Exceeds(width) /\ got' = Append(got, Field(width)) /\ Advance(width)
  /\ UNCHANGED <<mode, data, put, last>>

StreamNext ==
  \/ bs_init \/ bs_finalize \/ bs_read
  \/ \E width \in DOMAIN Fields :
       bs_write_refused(width) \/ \E field \in Fields[width] : bs_write(width, field)

StreamSpec == StreamInit /\ [][StreamNext]_streamVars

-----------------------------------------------------------------------------
\* The bits that the first n fields take.
Bits(fields, n) ==
  LET sum[i \in Nat] == IF i = 0 THEN 0 ELSE sum[i - 1] + fields[i].width IN sum[n]

\* Whatever widths follow each other, and however the fields lie across bytes,
\* each is read as it was written, none is lost to one behind it, and
\* bs_finalize returns the last byte they take.
RoundTrip ==
  /\ \A i \in DOMAIN got : got[i] = put[i].field
  /\ mode = "read" => (Len(got) < Len(put) => ~Exceeds(put[Len(got) + 1].width))
  /\ mode = "written" =>
       /\ last * StreamByteBits < Bits(put, Len(put))
       /\ Bits(put, Len(put)) <= (last + 1) * StreamByteBits
=============================================================================
