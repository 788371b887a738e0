------------------------------ MODULE Sm3Drng ------------------------------
(***************************************************************************)
(* The generator of iccs/drng.c: numbers of SEEDLEN bytes, big-endian, and *)
(* what its two calls do to a context.  Bytes have ByteBits bits; the hash *)
(* of OUTLEN bytes is not interpreted.                                     *)
(***************************************************************************)
EXTENDS Numbers, Sequences

CONSTANTS ByteBits, SEEDLEN, OUTLEN, sm3_bit(_)

ASSUME LengthsAssumption ==
  {ByteBits, SEEDLEN, OUTLEN} \subseteq Nat \ {0} /\ OUTLEN <= SEEDLEN

Base == Pow2[ByteBits]
RoundUp(dividend, divisor) == (dividend + divisor - 1) \div divisor

BigEndian(number, bytes) ==
  [i \in 1 .. bytes |-> (number \div Pow2[ByteBits * (bytes - i)]) % Base]

ZeroNumber == [i \in 1 .. SEEDLEN |-> 0]

-----------------------------------------------------------------------------
\* What the last n columns carry over; never more than 3 (CarryFits).
Carry(columns, n) ==
  LET carry[k \in 0 .. SEEDLEN] ==
        IF k = 0 THEN 0 ELSE (columns[SEEDLEN + 1 - k] + carry[k - 1]) \div Base
  IN carry[n]

\* Column sums become bytes, from the last one to the first, which loses its
\* carry.
\* mutant: all of them do
Carried_Not(columns) == [i \in 1 .. SEEDLEN |-> columns[i] % Base]
Carried(columns) == [i \in 1 .. SEEDLEN |-> (columns[i] + Carry(columns, SEEDLEN - i)) % Base]

inc_Big_Number(BN) == Carried([BN EXCEPT ![SEEDLEN] = @ + 1])

plus_Big_Number(BN1, BN2, BN3, BN4) ==
  Carried([i \in 1 .. SEEDLEN |-> BN1[i] + BN2[i] + BN3[i] + BN4[i]])

-----------------------------------------------------------------------------
\* The first n bytes of digests that are written one behind the other.
Joined(digests, n) ==
  [b \in 1 .. n |-> digests[((b - 1) \div OUTLEN) + 1][((b - 1) % OUTLEN) + 1]]

\* The first SEEDLEN bytes of a buffer after the derivation from its first n.
\* Each block is derived in memory of its own; without it the buffer stays as
\* it was.
SM3_df(buffer, n, memory) ==
  LET input == BigEndian(ByteBits * SEEDLEN, 4) \o SubSeq(buffer, 1, n)
      temp == [i \in 1 .. RoundUp(SEEDLEN, OUTLEN) |-> sm3_bit(<<i>> \o input)]
  IN IF memory THEN Joined(temp, SEEDLEN) ELSE SubSeq(buffer, 1, SEEDLEN)

\* What memset leaves of a context.
Cleared == [V |-> ZeroNumber, C |-> ZeroNumber, reseed_counter |-> ZeroNumber]

\* Where memory runs out in an initialization: nowhere, at the buffer of the
\* seed material, or in one of the derivations or both.
Memory == [material : {TRUE}, V : BOOLEAN, C : BOOLEAN]
            \cup [material : {FALSE}, V : {TRUE}, C : {TRUE}]
Plenty == [material |-> TRUE, V |-> TRUE, C |-> TRUE]

SM3_DRNG_Instantiate(nonce, memory) ==
  LET length == IF Len(nonce) > SEEDLEN THEN Len(nonce) ELSE SEEDLEN
      seed_material == [i \in 1 .. length |-> IF i <= Len(nonce) THEN nonce[i] ELSE 0]
      V == SM3_df(seed_material, Len(nonce), memory.V)
      C == SM3_df(<<0>> \o V, SEEDLEN + 1, memory.C)
  IN IF memory.material
       THEN [V |-> V, C |-> C, reseed_counter |-> inc_Big_Number(ZeroNumber)]
       ELSE Cleared

init_random_number_result(memory) == IF memory.material THEN 0 ELSE -2

\* What is left of a byte of which the last bits were not asked for.
\* mutant: all of it
HIGH_BITS_All(byte, unasked) == byte
HIGH_BITS(byte, unasked) == byte - (byte % Pow2[unasked])

\* V, V + 1 and so on.
Counted(V, n) ==
  LET data[k \in Nat] == IF k = 0 THEN V ELSE inc_Big_Number(data[k - 1]) IN data[n]

\* The bytes of a request: the hashes of these, as far as asked.
ReturnBits(drng, bits) ==
  LET bytes == RoundUp(bits, ByteBits)
      hashes == [i \in 1 .. RoundUp(bits, ByteBits * OUTLEN) |-> sm3_bit(Counted(drng.V, i - 1))]
      asked == Joined(hashes, bytes)
  IN IF bytes = 0 THEN asked
     ELSE [asked EXCEPT ![bytes] = HIGH_BITS(@, ByteBits * bytes - bits)]

\* The context behind a request, whatever was asked for.
AfterGenerate(drng) ==
  LET zeros == SEEDLEN - OUTLEN
      digest == sm3_bit(<<3>> \o drng.V)
      H == [i \in 1 .. SEEDLEN |-> IF i <= zeros THEN 0 ELSE digest[i - zeros]]
  IN [drng EXCEPT !.V = plus_Big_Number(drng.V, H, drng.C, drng.reseed_counter),
                  !.reseed_counter = inc_Big_Number(drng.reseed_counter)]
=============================================================================
