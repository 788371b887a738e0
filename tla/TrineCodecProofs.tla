-------------------------- MODULE TrineCodecProofs --------------------------
(***************************************************************************)
(* A byte string and an array of elements are the digits of one number,    *)
(* to the base 2^ByteBits and to the base 2^QBits: both are the number of  *)
(* the same bits.  So an encoder writes the number it was given, and a     *)
(* decoder accepts a string when its number has elements as digits.        *)
(* A coder that fails has not written to the caller's buffer.  A decoder   *)
(* writes at its end; an encoder writes segment by segment, so what it     *)
(* could refuse must come before the first segment it writes.              *)
(* The place of a bit in a bit stream is again a number, of its byte and   *)
(* its place there, and a field is the bits between two such numbers.      *)
(***************************************************************************)
EXTENDS TrineCodec, BitStream, NumberInduction, SequenceTheorems

-----------------------------------------------------------------------------
(* The number that bits are.                                                *)

LEMMA BitsNumberSteps ==
  ASSUME NEW bits
  PROVE  /\ BitsNumber(bits, 0) = 0
         /\ \A n \in Nat : /\ BitsNumber(bits, n) \in Nat
                           /\ BitsNumber(bits, n + 1) =
                                BitsNumber(bits, n) + (IF n \in bits THEN Pow2[n] ELSE 0)
<1> DEFINE F(n) == [i \in 1 .. n |-> IF i - 1 \in bits THEN Pow2[i - 1] ELSE 0]
<1>1. \A n : BitsNumber(bits, n) = Total(F(n), n)
  BY DEF BitsNumber
<1>2. BitsNumber(bits, 0) = 0
  BY <1>1, TotalSteps
<1>3. ASSUME NEW n \in Nat
      PROVE  BitsNumber(bits, n) \in Nat
  <2>1. \A i \in 1 .. n : F(n)[i] \in Nat
    <3>1. ASSUME NEW i \in 1 .. n
          PROVE  F(n)[i] \in Nat
      <4>1. i - 1 \in Nat
        OBVIOUS
      <4> QED
        BY <4>1, Pow2Steps
    <3> QED
      BY <3>1
  <2> HIDE DEF F
  <2> QED
    BY <1>1, <2>1, TotalIsNumber
<1>4. ASSUME NEW n \in Nat
      PROVE  BitsNumber(bits, n + 1) = BitsNumber(bits, n) + (IF n \in bits THEN Pow2[n] ELSE 0)
  <2>1. \A i \in 1 .. n : F(n + 1)[i] = F(n)[i]
    OBVIOUS
  <2>2. F(n + 1)[n + 1] = IF n \in bits THEN Pow2[n] ELSE 0
    <3>1. n + 1 \in 1 .. (n + 1) /\ (n + 1) - 1 = n
      OBVIOUS
    <3> QED
      BY <3>1
  <2> HIDE DEF F
  <2>3. Total(F(n + 1), n) = Total(F(n), n)
    BY <2>1, TotalAgrees
  <2>4. Total(F(n + 1), n + 1) = Total(F(n + 1), n) + F(n + 1)[n + 1]
    BY TotalSteps
  <2> QED
    BY <1>1, <2>2, <2>3, <2>4
<1> QED
  BY <1>2, <1>3, <1>4

\* n bits are less than 2^n.
LEMMA BitsNumberBound ==
  ASSUME NEW bits, NEW n \in Nat
  PROVE  BitsNumber(bits, n) \in Nat /\ BitsNumber(bits, n) < Pow2[n]
<1> DEFINE S == {k \in Nat : BitsNumber(bits, k) < Pow2[k]}
<1>1. 0 \in S
  BY BitsNumberSteps, Pow2Steps
<1>2. ASSUME NEW k \in Nat, k \in S
      PROVE  k + 1 \in S
  <2>1. /\ BitsNumber(bits, k) \in Nat /\ BitsNumber(bits, k) < Pow2[k]
        /\ BitsNumber(bits, k + 1) = BitsNumber(bits, k) + (IF k \in bits THEN Pow2[k] ELSE 0)
        /\ Pow2[k] \in Nat /\ Pow2[k + 1] = 2 * Pow2[k]
    BY <1>2, BitsNumberSteps, Pow2Steps
  <2> QED
    BY <2>1
<1> HIDE DEF S
<1>3. n \in S
  BY <1>1, <1>2, NumbersByInduction
<1> QED
  BY <1>3, BitsNumberSteps DEF S

\* It depends on those bits only.
LEMMA BitsNumberAgrees ==
  ASSUME NEW n \in Nat, NEW bits, NEW others, \A i \in 0 .. n - 1 : i \in bits <=> i \in others
  PROVE  BitsNumber(bits, n) = BitsNumber(others, n)
<1> DEFINE S == {k \in Nat : k <= n => BitsNumber(bits, k) = BitsNumber(others, k)}
<1>1. 0 \in S
  <2>1. BitsNumber(bits, 0) = 0 /\ BitsNumber(others, 0) = 0
    BY BitsNumberSteps
  <2> QED
    BY <2>1
<1>2. ASSUME NEW k \in Nat, k \in S
      PROVE  k + 1 \in S
  <2>1. ASSUME k + 1 <= n
        PROVE  BitsNumber(bits, k + 1) = BitsNumber(others, k + 1)
    <3>1. k \in 0 .. n - 1 /\ k <= n
      BY <2>1
    <3>2. /\ BitsNumber(bits, k + 1) =
               BitsNumber(bits, k) + (IF k \in bits THEN Pow2[k] ELSE 0)
          /\ BitsNumber(others, k + 1) =
               BitsNumber(others, k) + (IF k \in others THEN Pow2[k] ELSE 0)
      BY BitsNumberSteps
    <3> QED
      BY <1>2, <3>1, <3>2
  <2> QED
    BY <2>1
<1> HIDE DEF S
<1>3. n \in S
  BY <1>1, <1>2, NumbersByInduction
<1> QED
  BY <1>3 DEF S

\* The bits from m up.
From(bits, m) == {i \in Nat : m + i \in bits}

LEMMA BitsNumberSplits ==
  ASSUME NEW bits, NEW m \in Nat, NEW n \in Nat
  PROVE  BitsNumber(bits, m + n) = BitsNumber(bits, m) + Pow2[m] * BitsNumber(From(bits, m), n)
<1> DEFINE upper == From(bits, m)
           Split(k) == BitsNumber(bits, m + k) = BitsNumber(bits, m) + Pow2[m] * BitsNumber(upper, k)
           S == {k \in Nat : Split(k)}
<1>1. 0 \in S
  <2>1. BitsNumber(upper, 0) = 0 /\ BitsNumber(bits, m) \in Nat /\ Pow2[m] \in Nat
    BY BitsNumberSteps, Pow2Steps
  <2> QED
    BY <2>1
<1>2. ASSUME NEW k \in Nat, k \in S
      PROVE  k + 1 \in S
  <2>1. m + k \in Nat /\ m + (k + 1) = (m + k) + 1 /\ (k \in upper <=> m + k \in bits)
    BY DEF From
  <2> HIDE DEF upper
  <2> DEFINE a == BitsNumber(bits, m)
             b == BitsNumber(upper, k)
             c == Pow2[m]
             d == Pow2[k]
  <2>2. a \in Nat /\ b \in Nat /\ c \in Nat /\ d \in Nat
    BY BitsNumberSteps, Pow2Steps
  <2>3. /\ BitsNumber(bits, m + (k + 1)) =
             BitsNumber(bits, m + k) + (IF m + k \in bits THEN Pow2[m + k] ELSE 0)
        /\ BitsNumber(upper, k + 1) = b + (IF k \in upper THEN d ELSE 0)
    <3> DEFINE p == m + k
    <3>1. p \in Nat /\ m + (k + 1) = p + 1
      BY <2>1
    <3> HIDE DEF p
    <3>2. BitsNumber(bits, p + 1) = BitsNumber(bits, p) + (IF p \in bits THEN Pow2[p] ELSE 0)
      BY <3>1, BitsNumberSteps
    <3>3. BitsNumber(upper, k + 1) =
            BitsNumber(upper, k) + (IF k \in upper THEN Pow2[k] ELSE 0)
      BY BitsNumberSteps
    <3> QED
      BY <3>1, <3>2, <3>3 DEF p
  <2>4. BitsNumber(bits, m + k) = a + c * b
    BY <1>2
  <2>5. Pow2[m + k] = c * d
    BY Pow2Sum
  <2> HIDE DEF a, b, c, d
  <2>6. CASE k \in upper
    <3>1. BitsNumber(bits, m + (k + 1)) = (a + c * b) + c * d
      BY <2>1, <2>3, <2>4, <2>5, <2>6
    <3>2. (a + c * b) + c * d = a + c * (b + d)
      BY <2>2
    <3> QED
      BY <2>3, <2>6, <3>1, <3>2 DEF a, c
  <2>7. CASE k \notin upper
    <3>1. BitsNumber(bits, m + (k + 1)) = (a + c * b) + 0
      BY <2>1, <2>3, <2>4, <2>7
    <3>2. (a + c * b) + 0 = a + c * (b + 0)
      BY <2>2
    <3> QED
      BY <2>3, <2>7, <3>1, <3>2 DEF a, c
  <2> QED
    BY <2>6, <2>7
<1> HIDE DEF S
<1>3. n \in S
  BY <1>1, <1>2, NumbersByInduction
<1> QED
  BY <1>3 DEF S

LEMMA BitsNumberParts ==
  ASSUME NEW bits, NEW k \in Nat, NEW m \in Nat, m <= k
  PROVE  BitsNumber(bits, k) = BitsNumber(bits, m) + Pow2[m] * BitsNumber(From(bits, m), k - m)
<1> DEFINE n == k - m
<1>1. n \in Nat /\ m + n = k
  OBVIOUS
<1> HIDE DEF n
<1>2. BitsNumber(bits, m + n) = BitsNumber(bits, m) + Pow2[m] * BitsNumber(From(bits, m), n)
  BY <1>1, BitsNumberSplits
<1> QED
  BY <1>1, <1>2 DEF n

\* It is zero when they are.
LEMMA BitsNumberZero ==
  ASSUME NEW bits, NEW n \in Nat
  PROVE  BitsNumber(bits, n) = 0 <=> bits \cap (0 .. n - 1) = {}
<1> DEFINE S == {k \in Nat : BitsNumber(bits, k) = 0 <=> bits \cap (0 .. k - 1) = {}}
<1>1. 0 \in S
  <2>1. 0 .. 0 - 1 = {}
    OBVIOUS
  <2> QED
    BY <2>1, BitsNumberSteps
<1>2. ASSUME NEW k \in Nat, k \in S
      PROVE  k + 1 \in S
  <2>1. /\ BitsNumber(bits, k) \in Nat
        /\ BitsNumber(bits, k + 1) = BitsNumber(bits, k) + (IF k \in bits THEN Pow2[k] ELSE 0)
        /\ Pow2[k] \in Nat \ {0}
    BY <1>2, BitsNumberSteps, Pow2Steps
  <2>2. 0 .. (k + 1) - 1 = (0 .. k - 1) \cup {k}
    OBVIOUS
  <2>3. bits \cap (0 .. (k + 1) - 1) = {} <=> bits \cap (0 .. k - 1) = {} /\ k \notin bits
    BY <2>2
  <2>4. BitsNumber(bits, k + 1) = 0 <=> BitsNumber(bits, k) = 0 /\ k \notin bits
    BY <2>1
  <2> QED
    BY <1>2, <2>3, <2>4
<1> HIDE DEF S
<1>3. n \in S
  BY <1>1, <1>2, NumbersByInduction
<1> QED
  BY <1>3 DEF S

-----------------------------------------------------------------------------
(* The digits of a number.                                                  *)

\* The digits of a number, n bits at a time.
LEMMA BitsNumberDigit ==
  ASSUME NEW bits, NEW k \in Nat, NEW m \in Nat, NEW n \in Nat, m + n <= k
  PROVE  (BitsNumber(bits, k) \div Pow2[m]) % Pow2[n] = BitsNumber(From(bits, m), n)
<1> DEFINE upper == From(bits, m)
           above == k - m
           low == BitsNumber(bits, m)
           high == BitsNumber(upper, above)
           digit == BitsNumber(upper, n)
           rest == BitsNumber(From(upper, n), above - n)
<1>1. above \in Nat /\ n <= above /\ above - n \in Nat
  OBVIOUS
<1>2. BitsNumber(bits, k) = low + Pow2[m] * high
  BY BitsNumberParts
<1> HIDE DEF upper, above
<1>3. high = digit + Pow2[n] * rest
  BY <1>1, BitsNumberParts
<1>4. /\ low \in Nat /\ low < Pow2[m] /\ digit \in Nat /\ digit < Pow2[n]
      /\ high \in Nat /\ rest \in Nat
      /\ Pow2[m] \in Nat \ {0} /\ Pow2[n] \in Nat \ {0}
  BY <1>1, BitsNumberBound, Pow2Steps
<1> HIDE DEF low, high, digit, rest
<1>5. BitsNumber(bits, k) \div Pow2[m] = high
  BY <1>2, <1>4, Divides
<1>6. high % Pow2[n] = digit
  BY <1>3, <1>4, Divides
<1> QED
  BY <1>5, <1>6 DEF digit, upper

\* A number is below 2^m when it has no bit from m up.
LEMMA BitsNumberBelow ==
  ASSUME NEW bits, NEW k \in Nat, NEW m \in Nat, m <= k
  PROVE  /\ BitsNumber(bits, k) < Pow2[m] <=> bits \cap (m .. k - 1) = {}
         /\ bits \cap (m .. k - 1) = {} => BitsNumber(bits, k) = BitsNumber(bits, m)
<1> DEFINE upper == From(bits, m)
           low == BitsNumber(bits, m)
           high == BitsNumber(upper, k - m)
<1>1. k - m \in Nat /\ m + (k - m) = k
  OBVIOUS
<1>2. upper \cap (0 .. (k - m) - 1) = {} <=> bits \cap (m .. k - 1) = {}
  <2>1. ASSUME NEW i \in upper \cap (0 .. (k - m) - 1)
        PROVE  m + i \in bits \cap (m .. k - 1)
    BY DEF From
  <2>2. ASSUME NEW i \in bits \cap (m .. k - 1)
        PROVE  i - m \in upper \cap (0 .. (k - m) - 1)
    BY DEF From
  <2> QED
    BY <2>1, <2>2
<1> HIDE DEF upper
<1>3. BitsNumber(bits, k) = low + Pow2[m] * high
  BY BitsNumberParts DEF upper
<1>4. low \in Nat /\ low < Pow2[m] /\ high \in Nat /\ Pow2[m] \in Nat \ {0}
  BY <1>1, BitsNumberBound, Pow2Steps
<1>5. high = 0 <=> bits \cap (m .. k - 1) = {}
  BY <1>1, <1>2, BitsNumberZero
<1> DEFINE d == Pow2[m]
<1> HIDE DEF low, high, d
<1>6. high = 0 => low + d * high = low
  BY <1>4 DEF d
<1>7. high # 0 => low + d * high >= d
  BY <1>4 DEF d
<1> QED
  BY <1>3, <1>4, <1>5, <1>6, <1>7 DEF low, d

\* The bits of a value are the value modulo 2^n.
LEMMA BitsOfValue ==
  ASSUME NEW v \in Nat, NEW n \in Nat, NEW bits, \A i \in 0 .. n - 1 : i \in bits <=> BitOf(v, i)
  PROVE  BitsNumber(bits, n) = v % Pow2[n]
<1> DEFINE S == {k \in Nat : k <= n => BitsNumber(bits, k) = v % Pow2[k]}
<1>1. 0 \in S
  <2>1. v % 1 = 0
    OBVIOUS
  <2> QED
    BY <2>1, BitsNumberSteps, Pow2Steps
<1>2. ASSUME NEW k \in Nat, k \in S
      PROVE  k + 1 \in S
  <2>1. ASSUME k + 1 <= n
        PROVE  BitsNumber(bits, k + 1) = v % Pow2[k + 1]
    <3>1. k \in 0 .. n - 1 /\ BitsNumber(bits, k) = v % Pow2[k]
      BY <1>2, <2>1
    <3>2. /\ BitsNumber(bits, k + 1) = BitsNumber(bits, k) + (IF k \in bits THEN Pow2[k] ELSE 0)
          /\ Pow2[k] \in Nat \ {0} /\ Pow2[k + 1] = 2 * Pow2[k]
      BY BitsNumberSteps, Pow2Steps
    <3>3. k \in bits <=> (v \div Pow2[k]) % 2 = 1
      BY <3>1 DEF BitOf
    <3> DEFINE d == Pow2[k]
               bit == (v \div d) % 2
    <3>4. v % (2 * d) = (v % d) + d * bit
      BY <3>2, DividesTwice
    <3>5. bit = 0 \/ bit = 1
      BY <3>2
    <3>6. (k \in bits <=> bit = 1) /\ d \in Nat /\ v % d \in Nat
      BY <3>2, <3>3
    <3> HIDE DEF d, bit
    <3>7. v % (2 * d) = (v % d) + (IF k \in bits THEN d ELSE 0)
      BY <3>4, <3>5, <3>6
    <3> QED
      BY <3>1, <3>2, <3>7 DEF d
  <2> QED
    BY <2>1
<1> HIDE DEF S
<1>3. n \in S
  BY <1>1, <1>2, NumbersByInduction
<1> QED
  BY <1>3 DEF S

\* A number is the sum of its digits, each of them w bits.
LEMMA DigitsTotal ==
  ASSUME NEW bits, NEW w \in Nat, NEW n \in Nat, NEW terms,
         \A i \in 1 .. n : terms[i] = BitsNumber(From(bits, w * (i - 1)), w) * Pow2[w * (i - 1)]
  PROVE  Total(terms, n) = BitsNumber(bits, w * n)
<1> DEFINE S == {k \in Nat : k <= n => Total(terms, k) = BitsNumber(bits, w * k)}
<1>1. 0 \in S
  <2>1. w * 0 = 0
    OBVIOUS
  <2> QED
    BY <2>1, TotalSteps, BitsNumberSteps
<1>2. ASSUME NEW k \in Nat, k \in S
      PROVE  k + 1 \in S
  <2>1. ASSUME k + 1 <= n
        PROVE  Total(terms, k + 1) = BitsNumber(bits, w * (k + 1))
    <3>1. k + 1 \in 1 .. n /\ (k + 1) - 1 = k /\ w * k \in Nat
      BY <2>1
    <3>2. w * (k + 1) = w * k + w
      OBVIOUS
    <3> DEFINE m == w * k
               digit == BitsNumber(From(bits, m), w)
    <3>3. terms[k + 1] = digit * Pow2[m]
      BY <3>1
    <3>4. BitsNumber(bits, m + w) = BitsNumber(bits, m) + Pow2[m] * digit
      BY <3>1, BitsNumberSplits
    <3>5. Total(terms, k + 1) = Total(terms, k) + terms[k + 1]
      BY TotalSteps
    <3>6. Total(terms, k) = BitsNumber(bits, m)
      BY <1>2, <2>1
    <3>7. digit \in Nat /\ Pow2[m] \in Nat
      BY <3>1, BitsNumberSteps, Pow2Steps
    <3> HIDE DEF m, digit
    <3>8. digit * Pow2[m] = Pow2[m] * digit
      BY <3>7
    <3> QED
      BY <3>2, <3>3, <3>4, <3>5, <3>6, <3>8 DEF m
  <2> QED
    BY <2>1
<1> HIDE DEF S
<1>3. n \in S
  BY <1>1, <1>2, NumbersByInduction
<1> QED
  BY <1>3 DEF S

-----------------------------------------------------------------------------
(* Arrays.                                                                  *)

\* The bits of a byte string.
StringBits(bytes) ==
  {p \in 0 .. ByteBits * Len(bytes) - 1 : (p % ByteBits) \in bytes[(p \div ByteBits) + 1]}

LEMMA Sizes == {Q, QBits, ByteBits, X, FormElements, ResponseElements} \subseteq Nat \ {0}
BY CodecAssumption

LEMMA Positions ==
  ASSUME NEW d \in Nat \ {0}, NEW n \in Nat, NEW i \in 1 .. n, NEW j \in 0 .. d - 1
  PROVE  /\ d * (i - 1) + j \in 0 .. d * n - 1
         /\ (d * (i - 1) + j) \div d = i - 1 /\ (d * (i - 1) + j) % d = j
<1> DEFINE k == i - 1
           rest == n - i
<1>1. k \in Nat /\ rest \in Nat /\ n = (k + 1) + rest /\ j \in Nat /\ j < d
  OBVIOUS
<1> HIDE DEF k, rest
<1>2. d * n = d * k + d + d * rest
  BY <1>1
<1>3. d * k \in Nat /\ d * rest \in Nat
  BY <1>1
<1> DEFINE a == d * k
           c == d * rest
           e == d * n
<1>4. a \in Nat /\ c \in Nat /\ e = a + d + c
  BY <1>2, <1>3
<1> HIDE DEF a, c, e
<1>5. a + j \in 0 .. e - 1
  BY <1>1, <1>4
<1>6. (j + d * k) \div d = k /\ (j + d * k) % d = j
  BY <1>1, Divides
<1>7. j + d * k = d * k + j
  BY <1>1, <1>3
<1> QED
  BY <1>5, <1>6, <1>7 DEF k, a, e

\* And every position is one of those.
LEMMA Splits ==
  ASSUME NEW d \in Nat \ {0}, NEW p \in Nat
  PROVE  p \div d \in Nat /\ p % d \in 0 .. d - 1 /\ p = d * (p \div d) + (p % d)
OBVIOUS

LEMMA BytesAreDigits ==
  ASSUME NEW bytes, Len(bytes) \in Nat
  PROVE  BytesNumber(bytes) = BitsNumber(StringBits(bytes), ByteBits * Len(bytes))
<1> DEFINE len == Len(bytes)
           bits == StringBits(bytes)
           terms == [i \in 1 .. len |-> BitsNumber(bytes[i], ByteBits) * Pow2[ByteBits * (i - 1)]]
<1>1. ByteBits \in Nat \ {0}
  BY Sizes
<1>2. ASSUME NEW i \in 1 .. len
      PROVE  terms[i] = BitsNumber(From(bits, ByteBits * (i - 1)), ByteBits) *
                          Pow2[ByteBits * (i - 1)]
  <2> DEFINE digit == From(bits, ByteBits * (i - 1))
  <2>1. ASSUME NEW j \in 0 .. ByteBits - 1
        PROVE  j \in bytes[i] <=> j \in digit
    <3> DEFINE p == ByteBits * (i - 1) + j
    <3>1. p \in 0 .. ByteBits * len - 1 /\ p \div ByteBits = i - 1 /\ p % ByteBits = j
      BY <1>1, Positions
    <3>2. (i - 1) + 1 = i /\ j \in Nat
      OBVIOUS
    <3>3. j \in digit <=> p \in bits
      BY <3>2 DEF From
    <3> HIDE DEF p
    <3>4. p \in bits <=> j \in bytes[i]
      BY <3>1, <3>2 DEF StringBits
    <3> QED
      BY <3>3, <3>4
  <2> HIDE DEF digit
  <2>2. BitsNumber(bytes[i], ByteBits) = BitsNumber(digit, ByteBits)
    BY <1>1, <2>1, BitsNumberAgrees
  <2> QED
    BY <2>2 DEF digit
<1>3. BytesNumber(bytes) = Total(terms, len)
  BY DEF BytesNumber
<1> HIDE DEF terms, bits
<1>4. Total(terms, len) = BitsNumber(bits, ByteBits * len)
  BY <1>1, <1>2, DigitsTotal
<1> QED
  BY <1>3, <1>4 DEF bits

\* As many bytes as the elements need, and less than one byte more.
LEMMA Room ==
  ASSUME NEW count \in Nat
  PROVE  /\ ArrayBytes(count) \in Nat
         /\ count * QBits \in Nat /\ count * QBits = QBits * count
         /\ QBits * count <= ByteBits * ArrayBytes(count)
         /\ (count * QBits) % ByteBits = 0 => QBits * count = ByteBits * ArrayBytes(count)
         /\ (count * QBits) % ByteBits # 0 =>
              ArrayBytes(count) = ((count * QBits) \div ByteBits) + 1
<1>1. QBits \in Nat /\ ByteBits \in Nat \ {0}
  BY Sizes
<1> DEFINE n == count * QBits
           d == ByteBits
<1>2. n \in Nat /\ n = QBits * count /\ d \in Nat \ {0}
  BY <1>1
<1>3. ArrayBytes(count) = (n + d - 1) \div d
  BY DEF ArrayBytes
<1> DEFINE used == n % d
           full == n \div d
<1>4. n = d * full + used /\ full \in Nat /\ used \in 0 .. d - 1
  BY <1>2, Splits
<1> HIDE DEF n, d, used, full
<1>5. CASE used = 0
  <2>1. n + d - 1 = (d - 1) + d * full /\ d - 1 \in Nat /\ d - 1 < d
    BY <1>2, <1>4, <1>5
  <2>2. (n + d - 1) \div d = full
    BY <1>2, <1>4, <2>1, Divides
  <2>3. n = d * full
    BY <1>2, <1>4, <1>5
  <2> QED
    BY <1>2, <1>3, <1>4, <1>5, <2>2, <2>3 DEF n, d, used, full
<1>6. CASE used # 0
  <2> DEFINE low == used - 1
             high == full + 1
  <2>1. low \in Nat /\ low < d /\ high \in Nat /\ d * high = d * full + d
    BY <1>2, <1>4, <1>6
  <2>2. n + d - 1 = low + d * high
    BY <1>2, <1>4, <2>1
  <2>3. n <= d * high
    BY <1>2, <1>4, <2>1
  <2>4. (n + d - 1) \div d = high
    <3> HIDE DEF low, high
    <3>1. (low + d * high) \div d = high
      BY <1>2, <2>1, Divides
    <3> QED
      BY <2>2, <3>1
  <2>5. ArrayBytes(count) = high
    BY <1>3, <2>4
  <2> HIDE DEF high
  <2>6. high = full + 1
    BY DEF high
  <2> QED
    BY <1>2, <1>6, <2>1, <2>3, <2>5, <2>6 DEF n, d, used, full
<1> QED
  BY <1>5, <1>6

\* A segment of a byte string that holds an array.
Holds(bytes, count) == bytes \in Seq(Bytes) /\ Len(bytes) = ArrayBytes(count)

LEMMA ElementsAreDigits ==
  ASSUME NEW count \in Nat, NEW bytes, Holds(bytes, count), NEW i \in 1 .. count
  PROVE  DecodeElement(bytes, i) = BitsNumber(From(StringBits(bytes), QBits * (i - 1)), QBits)
<1> DEFINE low == QBits * (i - 1)
           digit == From(StringBits(bytes), low)
           bits == {bit \in 0 .. QBits - 1 :
                      LET p == (i - 1) * QBits + bit
                      IN (p % ByteBits) \in bytes[(p \div ByteBits) + 1]}
<1>1. QBits \in Nat \ {0} /\ i - 1 \in Nat
  BY Sizes
<1>2. low = (i - 1) * QBits /\ low \in Nat
  BY <1>1
<1>3. ASSUME NEW j \in 0 .. QBits - 1
      PROVE  j \in bits <=> j \in digit
  <2> DEFINE p == low + j
  <2>1. p \in 0 .. QBits * count - 1 /\ j \in Nat
    BY <1>1, Positions
  <2>2. QBits * count <= ByteBits * Len(bytes) /\ QBits * count \in Int
    BY <1>1, Room DEF Holds
  <2>3. ByteBits * Len(bytes) \in Int
    BY Sizes DEF Holds
  <2> DEFINE top == QBits * count
             all == ByteBits * Len(bytes)
  <2>4. j \in digit <=> p \in StringBits(bytes)
    BY <2>1 DEF From
  <2>5. j \in bits <=> (p % ByteBits) \in bytes[(p \div ByteBits) + 1]
    <3> HIDE DEF low
    <3> QED
      BY <1>2
  <2>6. p \in 0 .. all - 1
    <3> HIDE DEF p, top, all
    <3> QED
      BY <2>1, <2>2, <2>3 DEF top, all
  <2> HIDE DEF p
  <2> QED
    BY <2>4, <2>5, <2>6 DEF StringBits
<1>4. DecodeElement(bytes, i) = BitsNumber(bits, QBits)
  BY DEF DecodeElement
<1> HIDE DEF bits, digit
<1>5. BitsNumber(bits, QBits) = BitsNumber(digit, QBits)
  BY <1>1, <1>3, BitsNumberAgrees
<1> QED
  BY <1>4, <1>5 DEF digit

LEMMA PaddingIsBits ==
  ASSUME NEW count \in Nat, NEW bytes, Holds(bytes, count)
  PROVE  PaddingIsZero(bytes, count) <=>
           StringBits(bytes) \cap (QBits * count .. ByteBits * Len(bytes) - 1) = {}
<1> DEFINE n == QBits * count
           d == ByteBits
           used == n % d
           full == n \div d
           len == Len(bytes)
           above == StringBits(bytes) \cap (n .. d * len - 1)
<1>1. n \in Nat /\ d \in Nat \ {0} /\ len \in Nat /\ n = count * QBits
  BY Room, Sizes DEF Holds
<1>2. n = d * full + used /\ full \in Nat /\ used \in 0 .. d - 1
  BY <1>1, Splits
<1>3. PaddingIsZero(bytes, count) <=> used = 0 \/ bytes[len] \cap (used .. d - 1) = {}
  BY <1>1 DEF PaddingIsZero
<1>4. (used = 0 => n = d * len) /\ (used # 0 => len = full + 1)
  BY <1>1, Room DEF Holds
<1>5. CASE used = 0
  <2> HIDE DEF n, d, used, full, len
  <2>1. n .. d * len - 1 = {}
    BY <1>1, <1>4, <1>5
  <2> QED
    BY <1>3, <1>5, <2>1 DEF n, d, len
<1>6. CASE used # 0
  <2> HIDE DEF n, d, used, full, len
  <2>1. len = full + 1 /\ len \in 1 .. len /\ len - 1 = full
    BY <1>1, <1>2, <1>4, <1>6
  <2>2. ASSUME NEW j \in bytes[len] \cap (used .. d - 1)
        PROVE  above # {}
    <3>1. j \in 0 .. d - 1
      BY <1>2
    <3> DEFINE p == d * (len - 1) + j
    <3>2. p \in 0 .. d * len - 1 /\ p \div d = len - 1 /\ p % d = j
      <4>1. \A k \in Nat : \A i \in 1 .. k :
              /\ d * (i - 1) + j \in 0 .. d * k - 1
              /\ (d * (i - 1) + j) \div d = i - 1 /\ (d * (i - 1) + j) % d = j
        BY <1>1, <3>1, Positions
      <4> QED
        BY <1>1, <2>1, <4>1
    <3>3. n <= p
      BY <1>1, <1>2, <2>1, <3>1
    <3>4. p \in n .. d * len - 1
      <4> HIDE DEF p
      <4> QED
        BY <1>1, <3>2, <3>3
    <3>5. p \in StringBits(bytes)
      <4> HIDE DEF p
      <4> QED
        BY <1>1, <2>1, <3>2 DEF StringBits, d, len
    <3> QED
      BY <3>4, <3>5
  <2>3. ASSUME NEW p \in above
        PROVE  bytes[len] \cap (used .. d - 1) # {}
    <3>1. p \in Nat /\ n <= p /\ p < d * len
      BY <1>1
    <3>2. p = d * (p \div d) + (p % d) /\ p \div d \in Nat /\ p % d \in 0 .. d - 1
      BY <1>1, <3>1, Splits
    <3> DEFINE t == p \div d
               j == p % d
    <3> HIDE DEF t, j
    <3>3. t = full
      <4>1. t < len
        BY <1>1, <3>1, <3>2 DEF t, j
      <4>2. full <= t
        BY <1>1, <1>2, <3>1, <3>2 DEF t, j
      <4> QED
        BY <1>2, <2>1, <3>2, <4>1, <4>2 DEF t
    <3>4. used <= j
      BY <1>1, <1>2, <3>1, <3>2, <3>3 DEF t, j
    <3>5. j \in bytes[t + 1]
      BY DEF StringBits, t, j, d
    <3>6. t + 1 = len /\ j \in used .. d - 1
      BY <1>1, <1>2, <2>1, <3>2, <3>3, <3>4 DEF j
    <3> QED
      BY <3>5, <3>6
  <2> QED
    BY <1>3, <1>6, <2>2, <2>3 DEF n, d, len
<1> QED
  BY <1>5, <1>6

LEMMA Fits ==
  ASSUME NEW count \in Nat, NEW bytes, Holds(bytes, count)
  PROVE  /\ QBits \in Nat /\ Len(bytes) \in Nat
         /\ QBits * count \in Nat /\ ByteBits * Len(bytes) \in Nat
         /\ QBits * count <= ByteBits * Len(bytes)
<1>1. QBits \in Nat /\ ByteBits \in Nat
  BY Sizes
<1>2. Len(bytes) \in Nat /\ Len(bytes) = ArrayBytes(count)
  BY Room DEF Holds
<1>3. \A a, b \in Nat : a * b \in Nat
  OBVIOUS
<1>4. QBits * count <= ByteBits * Len(bytes)
  BY <1>2, Room
<1> QED
  BY <1>1, <1>2, <1>3, <1>4

\* A decoder refuses an array when it is not an encoding, and only then.
LEMMA DecodersAcceptEncodings ==
  ASSUME NEW count \in Nat, NEW bytes, Holds(bytes, count)
  PROVE  AcceptsArray(bytes, count) <=> IsEncoding(bytes, count)
<1> DEFINE number == BytesNumber(bytes)
           bits == StringBits(bytes)
           all == ByteBits * Len(bytes)
           used == QBits * count
<1>1. all \in Nat /\ used \in Nat /\ used <= all /\ Len(bytes) \in Nat /\ QBits \in Nat
  BY Fits
<1>2. number = BitsNumber(bits, all)
  BY <1>1, BytesAreDigits
<1>3. PaddingIsZero(bytes, count) <=> number < Pow2[used]
  <2>1. PaddingIsZero(bytes, count) <=> bits \cap (used .. all - 1) = {}
    BY PaddingIsBits
  <2> HIDE DEF number, bits, all, used
  <2> QED
    BY <1>1, <1>2, <2>1, BitsNumberBelow
<1>4. ASSUME NEW i \in 1 .. count
      PROVE  DecodeElement(bytes, i) = (number \div Pow2[QBits * (i - 1)]) % Pow2[QBits]
  <2> DEFINE low == QBits * (i - 1)
  <2>1. low \in Nat /\ low + QBits <= used
    <3>1. i - 1 \in Nat /\ count - i \in Nat
      OBVIOUS
    <3>2. QBits * count = QBits * (i - 1) + QBits + QBits * (count - i)
      BY <1>1
    <3>3. QBits * (i - 1) \in Nat /\ QBits * (count - i) \in Nat
      BY <1>1, <3>1
    <3> QED
      BY <1>1, <3>2, <3>3
  <2>2. DecodeElement(bytes, i) = BitsNumber(From(bits, low), QBits)
    BY ElementsAreDigits
  <2> HIDE DEF number, bits, all, used, low
  <2>3. low + QBits <= all
    BY <1>1, <2>1
  <2>4. (BitsNumber(bits, all) \div Pow2[low]) % Pow2[QBits] = BitsNumber(From(bits, low), QBits)
    BY <1>1, <2>1, <2>3, BitsNumberDigit
  <2> QED
    BY <1>2, <2>2, <2>4 DEF low
<1>5. Validate(DecodeArray(bytes, count)) <=> \A i \in 1 .. count : DecodeElement(bytes, i) < Q
  BY DEF Validate, DecodeArray
<1>6. Validate(DecodeArray(bytes, count)) <=>
        \A i \in 1 .. count : (number \div Pow2[QBits * (i - 1)]) % Pow2[QBits] < Q
  <2> HIDE DEF number
  <2> QED
    BY <1>4, <1>5
<1>7. IsEncoding(bytes, count) <=>
        /\ number < Pow2[QBits * count]
        /\ \A i \in 1 .. count : (number \div Pow2[QBits * (i - 1)]) % Pow2[QBits] < Q
  BY DEF IsEncoding
<1> HIDE DEF number
<1> QED
  BY <1>3, <1>6, <1>7 DEF AcceptsArray

\* What it accepts, it decodes to the digits of the number that the bytes are.
LEMMA DecodedIsNumber ==
  ASSUME NEW count \in Nat, NEW bytes, Holds(bytes, count), PaddingIsZero(bytes, count)
  PROVE  ElementsNumber(DecodeArray(bytes, count)) = BytesNumber(bytes)
<1> DEFINE bits == StringBits(bytes)
           all == ByteBits * Len(bytes)
           used == QBits * count
           values == DecodeArray(bytes, count)
           terms == [i \in 1 .. Len(values) |-> values[i] * Pow2[QBits * (i - 1)]]
<1>1. all \in Nat /\ used \in Nat /\ used <= all /\ Len(bytes) \in Nat /\ QBits \in Nat
  BY Fits
<1>2. BytesNumber(bytes) = BitsNumber(bits, all)
  BY <1>1, BytesAreDigits
<1>3. BitsNumber(bits, all) = BitsNumber(bits, used)
  <2>1. bits \cap (used .. all - 1) = {}
    BY PaddingIsBits
  <2> HIDE DEF bits, all, used
  <2> QED
    BY <1>1, <2>1, BitsNumberBelow
<1>4. Len(values) = count /\ \A i \in 1 .. count : values[i] = DecodeElement(bytes, i)
  BY DEF DecodeArray
<1>5. \A i \in 1 .. count :
        terms[i] = BitsNumber(From(bits, QBits * (i - 1)), QBits) * Pow2[QBits * (i - 1)]
  <2> HIDE DEF values, bits
  <2> QED
    BY <1>4, ElementsAreDigits DEF bits
<1>6. ElementsNumber(values) = Total(terms, count)
  <2> HIDE DEF values
  <2> QED
    BY <1>4 DEF ElementsNumber
<1> HIDE DEF terms, values, bits
<1>7. Total(terms, count) = BitsNumber(bits, QBits * count)
  BY <1>1, <1>5, DigitsTotal
<1> QED
  BY <1>2, <1>3, <1>6, <1>7 DEF values

LEMMA EncodedHolds ==
  ASSUME NEW count \in Nat, NEW values \in [1 .. count -> Nat]
  PROVE  Holds(EncodeArray(values), count) /\ StringBits(EncodeArray(values)) = Ones(values)
<1> DEFINE bytes == EncodeArray(values)
           len == ArrayBytes(count)
           byte(b) == {p % ByteBits : p \in {r \in Ones(values) : r \div ByteBits = b - 1}}
           top == ByteBits * len
           used == QBits * count
<1>1. /\ Len(values) = count /\ len \in Nat /\ ByteBits \in Nat \ {0} /\ used \in Nat
      /\ count * QBits = used /\ used <= top /\ top \in Nat
  <2>1. len \in Nat /\ ByteBits \in Nat \ {0} /\ QBits \in Nat
    BY Room, Sizes
  <2>2. \A a, b \in Nat : a * b \in Nat
    OBVIOUS
  <2>3. used \in Nat /\ top \in Nat
    BY <2>1, <2>2
  <2> QED
    BY <2>1, <2>3, Room
<1>2. \A p \in Ones(values) : p \in Nat /\ p < used
  <2> HIDE DEF used
  <2> QED
    BY <1>1 DEF Ones
<1>3. bytes = [b \in 1 .. len |-> byte(b)]
  BY <1>1 DEF EncodeArray
<1>4. \A b \in 1 .. len : byte(b) \in Bytes
  <2>1. \A p \in Ones(values) : p % ByteBits \in 0 .. ByteBits - 1
    BY <1>1, <1>2
  <2> QED
    BY <2>1 DEF Bytes
<1> HIDE DEF byte
<1>5. bytes \in Seq(Bytes) /\ Len(bytes) = len
  BY <1>1, <1>3, <1>4
<1>6. ASSUME NEW p \in Nat, p < top
      PROVE  (p % ByteBits) \in bytes[(p \div ByteBits) + 1] <=> p \in Ones(values)
  <2> DEFINE t == p \div ByteBits
             j == p % ByteBits
  <2>1. p = ByteBits * t + j /\ t \in Nat /\ j \in 0 .. ByteBits - 1
    BY <1>1, Splits
  <2>2. t < len
    <3> HIDE DEF t, j
    <3> QED
      BY <1>1, <1>6, <2>1
  <2>3. t + 1 \in 1 .. len /\ (t + 1) - 1 = t
    BY <1>1, <2>1, <2>2
  <2>4. bytes[t + 1] = byte(t + 1)
    <3> HIDE DEF t
    <3> QED
      BY <1>3, <2>3
  <2>5. j \in byte(t + 1) <=> \E r \in Ones(values) : r \div ByteBits = t /\ r % ByteBits = j
    <3> HIDE DEF t, j
    <3> QED
      BY <2>3 DEF byte
  <2>6. ASSUME NEW r \in Ones(values), r \div ByteBits = t, r % ByteBits = j
        PROVE  r = p
    <3>1. r = ByteBits * (r \div ByteBits) + (r % ByteBits)
      BY <1>1, <1>2, Splits
    <3> QED
      BY <2>1, <2>6, <3>1
  <2> QED
    BY <2>4, <2>5, <2>6
<1>7. StringBits(bytes) = Ones(values)
  <2>1. StringBits(bytes) = {p \in 0 .. top - 1 : (p % ByteBits) \in bytes[(p \div ByteBits) + 1]}
    BY <1>5 DEF StringBits
  <2> HIDE DEF bytes, top, used
  <2>2. ASSUME NEW p \in 0 .. top - 1
        PROVE  (p % ByteBits) \in bytes[(p \div ByteBits) + 1] <=> p \in Ones(values)
    <3>1. p \in Nat /\ p < top
      BY <1>1
    <3> QED
      BY <1>6, <3>1
  <2>3. \A p \in Ones(values) : p \in 0 .. top - 1
    BY <1>1, <1>2
  <2> QED
    BY <2>1, <2>2, <2>3
<1> QED
  BY <1>5, <1>7 DEF Holds

\* What is encoded is the number that the elements are the digits of.
LEMMA EncodedIsNumber ==
  ASSUME NEW count \in Nat, NEW values \in [1 .. count -> Nat], Validate(values)
  PROVE  BytesNumber(EncodeArray(values)) = ElementsNumber(values)
<1> DEFINE bytes == EncodeArray(values)
           bits == Ones(values)
           all == ByteBits * Len(bytes)
           used == QBits * count
           terms == [i \in 1 .. Len(values) |-> values[i] * Pow2[QBits * (i - 1)]]
<1>1. /\ all \in Nat /\ used \in Nat /\ used <= all /\ Len(bytes) \in Nat
      /\ QBits \in Nat \ {0} /\ Len(values) = count
  <2>1. Holds(bytes, count)
    BY EncodedHolds
  <2>2. Len(values) = count
    OBVIOUS
  <2> HIDE DEF bytes
  <2> QED
    BY <2>1, <2>2, Fits, Sizes
<1>2. BytesNumber(bytes) = BitsNumber(bits, all)
  BY <1>1, BytesAreDigits, EncodedHolds
<1>3. BitsNumber(bits, all) = BitsNumber(bits, used)
  <2>1. bits \cap (used .. all - 1) = {}
    <3>1. count * QBits = used
      BY Room
    <3> HIDE DEF used, all
    <3> QED
      BY <1>1, <3>1 DEF Ones
  <2> HIDE DEF bits, all, used
  <2> QED
    BY <1>1, <2>1, BitsNumberBelow
<1>4. ASSUME NEW i \in 1 .. count
      PROVE  values[i] = BitsNumber(From(bits, QBits * (i - 1)), QBits)
  <2> DEFINE digit == From(bits, QBits * (i - 1))
  <2>1. ASSUME NEW j \in 0 .. QBits - 1
        PROVE  j \in digit <=> BitOf(values[i], j)
    <3> DEFINE p == QBits * (i - 1) + j
    <3>1. p \in 0 .. QBits * count - 1 /\ p \div QBits = i - 1 /\ p % QBits = j
      BY <1>1, Positions
    <3>2. (i - 1) + 1 = i /\ j \in Nat /\ count * QBits = QBits * count
      BY Room
    <3>3. j \in digit <=> p \in bits
      BY <3>2 DEF From
    <3> HIDE DEF p
    <3>4. p \in bits <=> BitOf(values[i], j)
      BY <1>1, <3>1, <3>2 DEF Ones
    <3> QED
      BY <3>3, <3>4
  <2>2. values[i] \in Nat /\ values[i] < Q /\ Q <= Pow2[QBits] /\ Q \in Nat
    BY CodecAssumption DEF Validate
  <2>3. Pow2[QBits] \in Nat \ {0}
    BY <1>1, Pow2Steps
  <2>4. values[i] % Pow2[QBits] = values[i]
    <3>1. \A v \in Nat : \A d \in Nat \ {0} : v < d => v % d = v
      OBVIOUS
    <3>2. values[i] < Pow2[QBits]
      BY <2>2, <2>3
    <3> QED
      BY <2>2, <2>3, <3>1, <3>2
  <2> HIDE DEF digit
  <2>5. BitsNumber(digit, QBits) = values[i] % Pow2[QBits]
    BY <1>1, <2>1, <2>2, BitsOfValue
  <2> QED
    BY <2>4, <2>5 DEF digit
<1>5. \A i \in 1 .. count :
        terms[i] = BitsNumber(From(bits, QBits * (i - 1)), QBits) * Pow2[QBits * (i - 1)]
  <2> HIDE DEF bits
  <2> QED
    BY <1>1, <1>4
<1>6. ElementsNumber(values) = Total(terms, count)
  BY <1>1 DEF ElementsNumber
<1> HIDE DEF terms, bits
<1>7. Total(terms, count) = BitsNumber(bits, QBits * count)
  BY <1>1, <1>5, DigitsTotal
<1> QED
  BY <1>2, <1>3, <1>6, <1>7

-----------------------------------------------------------------------------
(* Layouts.                                                                 *)

LEMMA ObjectKinds ==
  ASSUME NEW o \in Objects
  PROVE  o = "form" \/ o = "public_key" \/ o = "secret_key" \/ o = "signature"
BY CodecAssumption

LEMMA LayoutLength ==
  ASSUME NEW o \in Objects
  PROVE  Len(Layout(o)) \in Nat /\ Len(Layout(o)) >= 1
<1>1. CASE o = "form"
  <2>1. Layout(o) = <<Packed(FormElements)>>
    BY <1>1 DEF Layout
  <2> QED
    BY <2>1
<1>2. CASE o = "secret_key"
  <2>1. Layout(o) = <<Raw(SeedBytes)>>
    BY <1>2 DEF Layout
  <2> QED
    BY <2>1
<1>3. CASE o = "signature"
  <2>1. Layout(o) = <<Packed(ResponseElements), Raw(BaseSeedBytes), Raw(DigestBytes), Raw(SaltBytes)>>
    BY <1>3 DEF Layout
  <2> QED
    BY <2>1
<1>4. CASE o = "public_key"
  <2> DEFINE forms == [f \in 1 .. X |-> Packed(FormElements)]
             Both == {Packed(FormElements), Raw(SeedBytes)}
  <2>1. Layout(o) = <<Raw(SeedBytes)>> \o forms
    BY <1>4 DEF Layout
  <2>2. X \in Nat
    BY CodecAssumption
  <2>3. forms \in [1 .. X -> Both] /\ <<Raw(SeedBytes)>> \in Seq(Both)
    OBVIOUS
  <2> HIDE DEF forms, Both
  <2>4. forms \in Seq(Both) /\ Len(forms) = X /\ Len(<<Raw(SeedBytes)>>) = 1
    BY <2>2, <2>3
  <2>5. Len(Layout(o)) = 1 + X
    BY <2>1, <2>3, <2>4, ConcatProperties
  <2> QED
    BY <2>2, <2>5
<1> QED
  BY <1>1, <1>2, <1>3, <1>4, ObjectKinds

\* What is packed comes first, but for the forms of a public key.
LEMMA PackedFirst ==
  ASSUME NEW o \in Objects, o # "public_key", NEW s \in PackedSegments(o)
  PROVE  s = 1
<1>1. s \in 1 .. Len(Layout(o)) /\ Layout(o)[s].packed
  BY DEF PackedSegments, Segments
<1>2. CASE o = "form"
  <2>1. Layout(o) = <<Packed(FormElements)>>
    BY <1>2 DEF Layout
  <2> QED
    BY <1>1, <2>1
<1>3. CASE o = "secret_key"
  <2>1. Layout(o) = <<Raw(SeedBytes)>>
    BY <1>3 DEF Layout
  <2> QED
    BY <1>1, <2>1
<1>4. CASE o = "signature"
  <2>1. Layout(o) = <<Packed(ResponseElements), Raw(BaseSeedBytes), Raw(DigestBytes), Raw(SaltBytes)>>
    BY <1>4 DEF Layout
  <2>2. s \in 1 .. 4
    BY <1>1, <2>1
  <2>3. ~Raw(BaseSeedBytes).packed /\ ~Raw(DigestBytes).packed /\ ~Raw(SaltBytes).packed
    BY DEF Raw
  <2> QED
    BY <1>1, <2>1, <2>2, <2>3
<1> QED
  BY <1>2, <1>3, <1>4, ObjectKinds

\* The segment behind the first k.
LEMMA NextSegment ==
  ASSUME NEW o \in Objects, NEW k \in Nat, 1 .. k \subseteq Segments(o), 1 .. k # Segments(o)
  PROVE  /\ Min(Segments(o) \ (1 .. k)) = k + 1
         /\ k + 1 \in Segments(o)
         /\ (1 .. k) \cup {k + 1} = 1 .. (k + 1)
<1>1. Len(Layout(o)) \in Nat /\ Segments(o) = 1 .. Len(Layout(o))
  BY LayoutLength DEF Segments
<1>2. k + 1 \in Segments(o)
  BY <1>1
<1> DEFINE rest == Segments(o) \ (1 .. k)
<1>3. k + 1 \in rest /\ \A t \in rest : k + 1 <= t
  BY <1>1, <1>2
<1>4. rest \subseteq Int
  BY <1>1
<1> HIDE DEF rest
<1>5. Min(rest) = k + 1
  <2>1. \E u \in rest : \A t \in rest : u <= t
    BY <1>3
  <2>2. Min(rest) \in rest /\ \A t \in rest : Min(rest) <= t
    BY <2>1, Zenon DEF Min
  <2> DEFINE m == Min(rest)
  <2>3. m \in Int /\ k + 1 <= m /\ m <= k + 1
    BY <1>3, <1>4, <2>2
  <2> HIDE DEF m
  <2>4. m = k + 1
    BY <2>3
  <2> QED
    BY <2>4 DEF m
<1> QED
  BY <1>1, <1>2, <1>5 DEF rest


\* The segments one after the other.
LEMMA LayoutType ==
  ASSUME NEW o \in Objects
  PROVE  Layout(o) \in Seq([packed : BOOLEAN, count : Nat])
<1> DEFINE Kinds == [packed : BOOLEAN, count : Nat]
<1>1. /\ Packed(FormElements) \in Kinds /\ Packed(ResponseElements) \in Kinds
      /\ Raw(SeedBytes) \in Kinds /\ Raw(BaseSeedBytes) \in Kinds /\ Raw(DigestBytes) \in Kinds
      /\ Raw(SaltBytes) \in Kinds
  BY CodecAssumption DEF Packed, Raw
<1> HIDE DEF Kinds
<1>2. CASE o = "form"
  <2>1. Layout(o) = <<Packed(FormElements)>>
    BY <1>2 DEF Layout
  <2> QED
    BY <1>1, <2>1 DEF Kinds
<1>3. CASE o = "secret_key"
  <2>1. Layout(o) = <<Raw(SeedBytes)>>
    BY <1>3 DEF Layout
  <2> QED
    BY <1>1, <2>1 DEF Kinds
<1>4. CASE o = "signature"
  <2>1. Layout(o) = <<Packed(ResponseElements), Raw(BaseSeedBytes), Raw(DigestBytes), Raw(SaltBytes)>>
    BY <1>4 DEF Layout
  <2> QED
    BY <1>1, <2>1 DEF Kinds
<1>5. CASE o = "public_key"
  <2> DEFINE forms == [f \in 1 .. X |-> Packed(FormElements)]
             first == <<Raw(SeedBytes)>>
  <2>1. Layout(o) = first \o forms
    BY <1>5 DEF Layout
  <2>2. X \in Nat
    BY CodecAssumption
  <2>3. forms \in Seq(Kinds) /\ first \in Seq(Kinds)
    BY <1>1, <2>2
  <2> HIDE DEF forms, first
  <2>4. first \o forms \in Seq(Kinds)
    BY <2>3, ConcatProperties
  <2> QED
    BY <2>1, <2>4 DEF Kinds
<1> QED
  BY <1>2, <1>3, <1>4, <1>5, ObjectKinds

LEMMA SegmentSizes ==
  ASSUME NEW o \in Objects, NEW s \in Segments(o)
  PROVE  /\ Layout(o)[s].count \in Nat /\ Layout(o)[s].packed \in BOOLEAN
         /\ Width(Layout(o)[s]) \in Nat
<1>1. Layout(o)[s] \in [packed : BOOLEAN, count : Nat]
  <2> DEFINE Kinds == [packed : BOOLEAN, count : Nat]
             layout == Layout(o)
  <2>1. layout \in Seq(Kinds) /\ s \in 1 .. Len(layout)
    BY LayoutType DEF Segments
  <2> HIDE DEF Kinds, layout
  <2>2. layout[s] \in Kinds
    BY <2>1
  <2> QED
    BY <2>2 DEF Kinds, layout
<1>2. Layout(o)[s].count \in Nat /\ Layout(o)[s].packed \in BOOLEAN
  BY <1>1
<1>3. Width(Layout(o)[s]) \in Nat
  BY <1>2, Room DEF Width
<1> QED
  BY <1>2, <1>3

LEMMA OffsetSteps ==
  ASSUME NEW o \in Objects
  PROVE  /\ Offset(o, 1) = 0
         /\ \A s \in Segments(o) : Offset(o, s + 1) = Offset(o, s) + Width(Layout(o)[s])
<1> DEFINE F(n) == [t \in 1 .. n |-> Width(Layout(o)[t])]
<1>1. \A n \in Nat : Offset(o, n + 1) = Total(F(n), n)
  <2>1. \A n \in Nat : (n + 1) - 1 = n
    OBVIOUS
  <2> QED
    BY <2>1 DEF Offset
<1>2. Offset(o, 1) = 0
  <2> HIDE DEF F
  <2>1. Offset(o, 0 + 1) = Total(F(0), 0)
    BY <1>1
  <2>2. 0 + 1 = 1
    OBVIOUS
  <2> QED
    BY <2>1, <2>2, TotalSteps
<1>3. ASSUME NEW s \in Segments(o)
      PROVE  Offset(o, s + 1) = Offset(o, s) + Width(Layout(o)[s])
  <2>1. s \in Nat /\ s - 1 \in Nat /\ (s - 1) + 1 = s /\ s \in 1 .. s
    BY LayoutLength DEF Segments
  <2>2. F(s)[s] = Width(Layout(o)[s]) /\ \A t \in 1 .. s - 1 : F(s)[t] = F(s - 1)[t]
    BY <2>1
  <2> HIDE DEF F
  <2>3. Total(F(s), s - 1) = Total(F(s - 1), s - 1)
    BY <2>1, <2>2, TotalAgrees
  <2>4. Total(F(s), (s - 1) + 1) = Total(F(s), s - 1) + F(s)[(s - 1) + 1]
    BY <2>1, TotalSteps
  <2>5. Offset(o, (s - 1) + 1) = Total(F(s - 1), s - 1) /\ Offset(o, s + 1) = Total(F(s), s)
    BY <1>1, <2>1
  <2> QED
    BY <2>1, <2>2, <2>3, <2>4, <2>5
<1> QED
  BY <1>2, <1>3

\* They are apart from each other, and within the bytes.
LEMMA OffsetOrder ==
  ASSUME NEW o \in Objects
  PROVE  /\ \A s \in Nat : s + 1 \in 1 .. Len(Layout(o)) + 1 => Offset(o, s + 1) \in Nat
         /\ \A s \in Segments(o) : \A t \in Nat :
              s <= t /\ t <= Len(Layout(o)) =>
                Offset(o, s) + Width(Layout(o)[s]) <= Offset(o, t + 1)
<1> DEFINE len == Len(Layout(o))
<1>1. len \in Nat /\ Segments(o) = 1 .. len
  BY LayoutLength DEF Segments
<1> HIDE DEF len
<1> DEFINE S == {n \in Nat : n <= len => Offset(o, n + 1) \in Nat}
<1>2. 0 \in S
  BY OffsetSteps
<1>3. ASSUME NEW n \in Nat, n \in S
      PROVE  n + 1 \in S
  <2>1. ASSUME n + 1 <= len
        PROVE  Offset(o, (n + 1) + 1) \in Nat
    <3>1. n + 1 \in Segments(o) /\ Offset(o, n + 1) \in Nat
      BY <1>1, <1>3, <2>1
    <3>2. Offset(o, (n + 1) + 1) = Offset(o, n + 1) + Width(Layout(o)[n + 1])
      BY <3>1, OffsetSteps
    <3> QED
      BY <3>1, <3>2, SegmentSizes
  <2> QED
    BY <2>1
<1> HIDE DEF S
<1>4. \A n \in Nat : n <= len => Offset(o, n + 1) \in Nat
  <2>1. \A n \in Nat : n \in S
    BY <1>2, <1>3, NumbersByInduction
  <2> QED
    BY <2>1 DEF S
<1>5. ASSUME NEW s \in Segments(o)
      PROVE  \A t \in Nat :
               s <= t /\ t <= len => Offset(o, s) + Width(Layout(o)[s]) <= Offset(o, t + 1)
  <2> DEFINE top == Offset(o, s) + Width(Layout(o)[s])
             T == {t \in Nat : s <= t /\ t <= len => top <= Offset(o, t + 1)}
  <2>1. s \in Nat /\ s >= 1 /\ s <= len /\ top = Offset(o, s + 1) /\ top \in Nat
    <3>1. s \in Nat /\ s >= 1 /\ s <= len
      BY <1>1
    <3>2. top = Offset(o, s + 1)
      BY OffsetSteps
    <3> QED
      BY <1>4, <3>1, <3>2
  <2> HIDE DEF top
  <2>2. 0 \in T
    BY <2>1
  <2>3. ASSUME NEW t \in Nat, t \in T
        PROVE  t + 1 \in T
    <3>1. ASSUME s <= t + 1, t + 1 <= len
          PROVE  top <= Offset(o, (t + 1) + 1)
      <4>1. CASE t + 1 = s
        <5>1. Offset(o, (t + 1) + 1) = top
          BY <2>1, <4>1
        <5> QED
          BY <2>1, <5>1
      <4>2. CASE t + 1 # s
        <5>1. s <= t /\ t <= len /\ t + 1 \in Segments(o)
          BY <1>1, <2>1, <3>1, <4>2
        <5>2. top <= Offset(o, t + 1) /\ Offset(o, t + 1) \in Nat
          BY <1>4, <2>3, <5>1
        <5>3. Offset(o, (t + 1) + 1) = Offset(o, t + 1) + Width(Layout(o)[t + 1])
          BY <5>1, OffsetSteps
        <5> DEFINE w == Width(Layout(o)[t + 1])
        <5>4. w \in Nat
          BY <5>1, SegmentSizes
        <5> HIDE DEF w
        <5> QED
          BY <2>1, <5>2, <5>3, <5>4 DEF w
      <4> QED
        BY <4>1, <4>2
    <3> QED
      BY <3>1
  <2> HIDE DEF T
  <2>4. \A t \in Nat : t \in T
    BY <2>2, <2>3, NumbersByInduction
  <2> QED
    BY <2>4 DEF T, top
<1>6. ASSUME NEW s \in Nat, s + 1 \in 1 .. len + 1
      PROVE  Offset(o, s + 1) \in Nat
  BY <1>1, <1>4, <1>6
<1> QED
  BY <1>5, <1>6 DEF len

LEMMA SegmentPlace ==
  ASSUME NEW o \in Objects, NEW s \in Segments(o)
  PROVE  /\ Offset(o, s) \in Nat /\ Width(Layout(o)[s]) \in Nat /\ TotalBytes(o) \in Nat
         /\ Offset(o, s) + Width(Layout(o)[s]) <= TotalBytes(o)
         /\ \A t \in Segments(o) : s < t => Offset(o, s) + Width(Layout(o)[s]) <= Offset(o, t)
<1> DEFINE len == Len(Layout(o))
<1>1. len \in Nat /\ s \in 1 .. len /\ Segments(o) = 1 .. len
  BY LayoutLength DEF Segments
<1> HIDE DEF len
<1>2. \A t \in 1 .. len + 1 : Offset(o, t) \in Nat
  <2>1. ASSUME NEW t \in 1 .. len + 1
        PROVE  Offset(o, t) \in Nat
    <3>1. t - 1 \in Nat /\ (t - 1) + 1 = t
      BY <1>1
    <3> QED
      BY <3>1, OffsetOrder DEF len
  <2> QED
    BY <2>1
<1>3. ASSUME NEW t \in 1 .. len + 1, s < t
      PROVE  Offset(o, s) + Width(Layout(o)[s]) <= Offset(o, t)
  <2>1. t - 1 \in Nat /\ (t - 1) + 1 = t /\ s <= t - 1 /\ t - 1 <= len
    BY <1>1, <1>3
  <2> QED
    BY <2>1, OffsetOrder DEF len
<1>4. TotalBytes(o) = Offset(o, len + 1) /\ len + 1 \in 1 .. len + 1 /\ s < len + 1
  BY <1>1 DEF TotalBytes, len
<1>5. s \in 1 .. len + 1 /\ \A t \in Segments(o) : t \in 1 .. len + 1
  BY <1>1
<1> QED
  BY <1>2, <1>3, <1>4, <1>5, SegmentSizes

LEMMA Pieces ==
  ASSUME NEW o \in Objects, NEW s \in Segments(o), NEW D,
         NEW bytes \in Seq(D), Len(bytes) = TotalBytes(o)
  PROVE  /\ Piece(o, bytes, s) \in Seq(D)
         /\ Len(Piece(o, bytes, s)) = Width(Layout(o)[s])
         /\ \A j \in 1 .. Width(Layout(o)[s]) : Piece(o, bytes, s)[j] = bytes[Offset(o, s) + j]
<1> DEFINE low == Offset(o, s)
           w == Width(Layout(o)[s])
<1>1. low \in Nat /\ w \in Nat /\ low + w <= Len(bytes)
  BY SegmentPlace
<1>2. Piece(o, bytes, s) = SubSeq(bytes, low + 1, low + w)
  BY DEF Piece
<1> HIDE DEF low, w
<1>3. \A i \in low + 1 .. low + w : i \in 1 .. Len(bytes)
  BY <1>1
<1> DEFINE piece == SubSeq(bytes, low + 1, low + w)
<1>4. piece \in Seq(D) /\ Len(piece) = w /\ \A j \in 1 .. w : piece[j] = bytes[low + j]
  <2>1. piece = [j \in 1 .. w |-> bytes[low + j]]
    BY <1>1
  <2>2. \A j \in 1 .. w : bytes[low + j] \in D
    BY <1>1
  <2> HIDE DEF piece
  <2> QED
    BY <1>1, <2>1, <2>2
<1> QED
  BY <1>2, <1>4 DEF low, w

-----------------------------------------------------------------------------
(* The invariant.                                                           *)

Unwritten == \A i \in DOMAIN output : output[i] = Untouched

\* Only the first segment, before anything is written, can still be refused.
EncodingInv ==
  call = "encode" =>
    /\ obj \in Objects /\ result = 1
    /\ \E k \in Nat : done = 1 .. k
    /\ done \subseteq Segments(obj)
    /\ done = {} => Unwritten
    /\ \A s \in PackedSegments(obj) \ done : Validate(given[s]) \/ (s = 1 /\ done = {})

DecodingInv ==
  call = "decode" => result = 1 /\ output = <<>>

ReturnInv ==
  /\ call = "idle" => result = 0
  /\ Returned /\ result = -1 => Unwritten

CodecInv ==
  /\ call \in {"idle", "encode", "decode", "encoded", "decoded"}
  /\ EncodingInv /\ DecodingInv /\ ReturnInv

LEMMA FreshUnwritten ==
  ASSUME NEW bytes
  PROVE  \A i \in DOMAIN Fresh(bytes) : Fresh(bytes)[i] = Untouched
BY DEF Fresh

LEMMA CodecStarts ==
  ASSUME Init
  PROVE  CodecInv
BY DEF Init, CodecInv, EncodingInv, DecodingInv, ReturnInv, Returned

LEMMA EncodeCallKeeps ==
  ASSUME CodecInv, NEW o \in Objects, NEW c, NEW outLen, EncodeCall(o, c, outLen)
  PROVE  CodecInv'
<1>1. CASE Begin("encoded", o, c, Fresh(outLen), -1)
  <2>1. call' = "encoded" /\ output' = Fresh(outLen)
    BY <1>1 DEF Begin
  <2> QED
    BY <2>1, FreshUnwritten
    DEF CodecInv, EncodingInv, DecodingInv, ReturnInv, Returned, Unwritten
<1>2. CASE /\ \A s \in ValidatedFirst(o) : Validate(c[s])
           /\ Begin("encode", o, c, Fresh(outLen), 1)
  <2>1. /\ call' = "encode" /\ obj' = o /\ given' = c /\ done' = {} /\ result' = 1
        /\ output' = Fresh(outLen)
    BY <1>2 DEF Begin
  <2>2. ASSUME NEW s \in PackedSegments(o)
        PROVE  Validate(c[s]) \/ s = 1
    <3>1. CASE o = "public_key"
      BY <1>2, <3>1 DEF ValidatedFirst
    <3> QED
      BY <3>1, PackedFirst
  <2>3. EncodingInv'
    <3>1. {} = 1 .. 0 /\ 0 \in Nat
      OBVIOUS
    <3>2. \E k \in Nat : done' = 1 .. k
      BY <2>1, <3>1
    <3>3. Unwritten'
      BY <2>1, FreshUnwritten DEF Unwritten
    <3>4. done' \subseteq Segments(obj)'
      BY <2>1
    <3>5. \A s \in (PackedSegments(obj) \ done)' : (Validate(given[s]) \/ (s = 1 /\ done = {}))'
      BY <2>1, <2>2
    <3> QED
      BY <2>1, <3>2, <3>3, <3>4, <3>5 DEF EncodingInv
  <2> QED
    BY <2>1, <2>3 DEF CodecInv, DecodingInv, ReturnInv, Returned
<1> QED
  BY <1>1, <1>2 DEF EncodeCall

LEMMA EncodeSegmentKeeps ==
  ASSUME CodecInv, EncodeSegment
  PROVE  CodecInv'
<1>1. /\ call = "encode" /\ obj \in Objects /\ result = 1
      /\ done \subseteq Segments(obj) /\ done # Segments(obj)
      /\ done = {} => Unwritten
      /\ \A s \in PackedSegments(obj) \ done : Validate(given[s]) \/ (s = 1 /\ done = {})
  BY DEF CodecInv, EncodingInv, EncodeSegment
<1>2. PICK k \in Nat : done = 1 .. k
  BY <1>1 DEF CodecInv, EncodingInv
<1> DEFINE s == Min(Segments(obj) \ done)
<1>3. s = k + 1 /\ s \in Segments(obj) /\ done \cup {s} = 1 .. (k + 1) /\ s \notin done
  BY <1>1, <1>2, NextSegment
<1> HIDE DEF s
<1>4. CASE /\ Layout(obj)[s].packed /\ ~Validate(given[s])
           /\ Finish(-1) /\ UNCHANGED output
  <2>1. s \in PackedSegments(obj) \ done
    BY <1>3, <1>4 DEF PackedSegments
  <2>2. Unwritten
    BY <1>1, <1>4, <2>1
  <2> QED
    BY <1>1, <1>4, <2>2
    DEF Finish, CodecInv, EncodingInv, DecodingInv, ReturnInv, Returned, Unwritten
<1>5. CASE done' = done \cup {s} /\ UNCHANGED <<call, obj, given, result>>
  <2>1. done' = 1 .. (k + 1) /\ k + 1 \in Nat /\ done' # {} /\ done' \subseteq Segments(obj)
    BY <1>1, <1>3, <1>5
  <2>2. ASSUME NEW t \in PackedSegments(obj) \ done'
        PROVE  Validate(given[t])
    <3>1. t \in PackedSegments(obj) \ done /\ t # s
      BY <1>5
    <3>2. CASE t = 1 /\ done = {}
      <4>1. k = 0
        BY <1>2, <3>2
      <4> QED
        BY <1>3, <3>1, <3>2, <4>1
    <3> QED
      BY <1>1, <3>1, <3>2
  <2>3. EncodingInv'
    BY <1>1, <1>5, <2>1, <2>2 DEF EncodingInv
  <2> QED
    BY <1>1, <1>5, <2>3 DEF CodecInv, DecodingInv, ReturnInv, Returned
<1> QED
  BY <1>4, <1>5 DEF EncodeSegment, s

LEMMA EncodeReturnKeeps ==
  ASSUME CodecInv, EncodeReturn
  PROVE  CodecInv'
BY DEF EncodeReturn, Finish, CodecInv, EncodingInv, DecodingInv, ReturnInv, Returned

LEMMA DecodeCallKeeps ==
  ASSUME CodecInv, NEW o, NEW bytes, DecodeCall(o, bytes)
  PROVE  CodecInv'
<1>1. DOMAIN <<>> = {}
  OBVIOUS
<1>2. output' = <<>> /\ (call' = "decoded" \/ (call' = "decode" /\ result' = 1))
  BY DEF DecodeCall, Begin
<1> QED
  BY <1>1, <1>2 DEF CodecInv, EncodingInv, DecodingInv, ReturnInv, Returned, Unwritten

\* What a decoder is refused leaves an empty buffer.
LEMMA DecodeStepKeeps ==
  ASSUME CodecInv, DecodeSegment \/ DecodeFault \/ DecodeReturn
  PROVE  CodecInv'
<1>1. call = "decode" /\ result = 1 /\ output = <<>>
  BY DEF CodecInv, DecodingInv, DecodeSegment, DecodeFault, DecodeReturn
<1>2. \/ call' = "decode" /\ UNCHANGED <<result, output>>
      \/ call' = "decoded" /\ result' = -1 /\ UNCHANGED output
      \/ call' = "decoded" /\ result' = 0
  BY <1>1 DEF DecodeSegment, DecodeFault, DecodeReturn, Finish
<1>3. DOMAIN <<>> = {}
  OBVIOUS
<1> QED
  BY <1>1, <1>2, <1>3 DEF CodecInv, EncodingInv, DecodingInv, ReturnInv, Returned, Unwritten

LEMMA ReleaseKeeps ==
  ASSUME CodecInv, Release
  PROVE  CodecInv'
BY DEF Release, Begin, CodecInv, EncodingInv, DecodingInv, ReturnInv, Returned

LEMMA CodecStep ==
  ASSUME CodecInv, [Next]_vars
  PROVE  CodecInv'
<1>1. CASE UNCHANGED vars
  BY <1>1 DEF vars, CodecInv, EncodingInv, DecodingInv, ReturnInv, Returned, Unwritten
<1> QED
  BY <1>1, EncodeCallKeeps, EncodeSegmentKeeps, EncodeReturnKeeps, DecodeCallKeeps,
     DecodeStepKeeps, ReleaseKeeps
  DEF Next

(* Whatever the sizes, the keys and the strings: a coder of trine_codec.c   *)
(* that returns -1 leaves the caller's buffer as it was, whichever segment  *)
(* it fails at and whether it is refused or has no memory.                  *)
THEOREM FailedCodersWriteNothing == Spec => []FailureLeavesBuffers
<1>1. CodecInv => FailureLeavesBuffers
  BY DEF CodecInv, EncodingInv, DecodingInv, ReturnInv, Returned, Unwritten, FailureLeavesBuffers
<1>2. Init => CodecInv
  BY CodecStarts
<1>3. CodecInv /\ [Next]_vars => CodecInv'
  BY CodecStep
<1> QED
  BY <1>1, <1>2, <1>3, PTL DEF Spec

-----------------------------------------------------------------------------
(* What was written and what was decoded so far.                            *)

\* The bytes of a segment.
Coded(o, contents, s) ==
  IF Layout(o)[s].packed THEN EncodeArray(contents[s]) ELSE contents[s]

Written(s) ==
  \A j \in 1 .. Width(Layout(obj)[s]) : output[Offset(obj, s) + j] = Coded(obj, given, s)[j]

WrittenInv ==
  call = "encode" \/ (call = "encoded" /\ result = 0) =>
    /\ obj \in Objects /\ given \in GivenContents[obj] /\ done \subseteq Segments(obj)
    /\ output \in Seq(Bytes \cup {Untouched}) /\ Len(output) = TotalBytes(obj)
    /\ \A s \in done : Written(s) /\ (Layout(obj)[s].packed => Validate(given[s]))
    /\ call = "encoded" => done = Segments(obj)

Accepted(s) == AcceptsArray(Piece(obj, given, s), Layout(obj)[s].count)
Decoded(s) == DecodeArray(Piece(obj, given, s), Layout(obj)[s].count)

DecodedInv ==
  call = "decode" \/ (call = "decoded" /\ ~noMemory /\ Len(given) = TotalBytes(obj)) =>
    /\ obj \in Objects /\ given \in Seq(Bytes) /\ Len(given) = TotalBytes(obj)
    /\ done \subseteq PackedSegments(obj)
    /\ \A s \in done : Accepted(s) /\ tmp[s] = Decoded(s)
    /\ call = "decoded" =>
         \/ /\ result = 0 /\ done = PackedSegments(obj)
            /\ \A s \in Segments(obj) :
                 output[s] = IF Layout(obj)[s].packed THEN Decoded(s) ELSE Piece(obj, given, s)
         \/ result = -1 /\ \E s \in PackedSegments(obj) : ~Accepted(s)

LEMMA LeastIn ==
  ASSUME NEW S, S \subseteq Nat, S # {}
  PROVE  Min(S) \in S
<1>1. \E n \in S : \A m \in S : n <= m
  BY LeastNumber
<1> QED
  BY <1>1, Zenon DEF Min

LEMMA SegmentsAreNumbers ==
  ASSUME NEW o \in Objects
  PROVE  /\ Segments(o) \subseteq Nat /\ PackedSegments(o) \subseteq Segments(o)
         /\ TotalBytes(o) \in Nat
<1>1. Segments(o) \subseteq Nat /\ 1 \in Segments(o)
  BY LayoutLength DEF Segments
<1> QED
  BY <1>1, SegmentPlace DEF PackedSegments

LEMMA CodedSize ==
  ASSUME NEW o \in Objects, NEW c \in GivenContents[o], NEW s \in Segments(o)
  PROVE  /\ Coded(o, c, s) \in Seq(Bytes) /\ Len(Coded(o, c, s)) = Width(Layout(o)[s])
         /\ Layout(o)[s].packed => c[s] \in [1 .. Layout(o)[s].count -> Nat]
<1> DEFINE count == Layout(o)[s].count
           packed == Layout(o)[s].packed
<1>1. count \in Nat
  BY SegmentSizes
<1>2. c[s] \in [1 .. count -> IF packed THEN Nat ELSE Bytes]
  BY GivenAssumption
<1>3. /\ Coded(o, c, s) = IF packed THEN EncodeArray(c[s]) ELSE c[s]
      /\ Width(Layout(o)[s]) = IF packed THEN ArrayBytes(count) ELSE count
  BY DEF Coded, Width
<1> HIDE DEF count, packed
<1>4. CASE packed
  <2>1. c[s] \in [1 .. count -> Nat]
    BY <1>2, <1>4
  <2>2. Holds(EncodeArray(c[s]), count)
    BY <1>1, <2>1, EncodedHolds
  <2> QED
    BY <1>3, <1>4, <2>1, <2>2 DEF Holds, count
<1>5. CASE ~packed
  <2>1. c[s] \in [1 .. count -> Bytes]
    BY <1>2, <1>5
  <2>2. c[s] \in Seq(Bytes) /\ Len(c[s]) = count
    BY <1>1, <2>1
  <2> QED
    BY <1>3, <1>5, <2>2 DEF packed
<1> QED
  BY <1>4, <1>5

LEMMA EncodeCallWrites ==
  ASSUME NEW o \in Objects, NEW c \in GivenContents[o], NEW outLen, EncodeCall(o, c, outLen)
  PROVE  WrittenInv'
<1>1. CASE Begin("encoded", o, c, Fresh(outLen), -1)
  BY <1>1 DEF Begin, WrittenInv
<1>2. CASE outLen = TotalBytes(o) /\ Begin("encode", o, c, Fresh(outLen), 1)
  <2>1. /\ call' = "encode" /\ obj' = o /\ given' = c /\ done' = {} /\ output' = Fresh(outLen)
    BY <1>2 DEF Begin
  <2>2. outLen \in Nat
    BY <1>2, SegmentsAreNumbers
  <2>3. Fresh(outLen) \in Seq(Bytes \cup {Untouched}) /\ Len(Fresh(outLen)) = outLen
    BY <2>2 DEF Fresh
  <2>4. done' \subseteq Segments(obj)'
    BY <2>1
  <2> QED
    BY <1>2, <2>1, <2>3, <2>4 DEF WrittenInv
<1> QED
  BY <1>1, <1>2 DEF EncodeCall

\* A segment that is written leaves the others as they were.
LEMMA WriteSegment ==
  ASSUME NEW o \in Objects, NEW s \in Segments(o), obj = o,
         output \in Seq(Bytes \cup {Untouched}), Len(output) = TotalBytes(o),
         NEW bytes \in Seq(Bytes), Len(bytes) = Width(Layout(o)[s])
  PROVE  /\ Write(s, bytes) \in Seq(Bytes \cup {Untouched}) /\ Len(Write(s, bytes)) = Len(output)
         /\ \A j \in 1 .. Width(Layout(o)[s]) : Write(s, bytes)[Offset(o, s) + j] = bytes[j]
         /\ \A t \in Segments(o) \ {s} : \A j \in 1 .. Width(Layout(o)[t]) :
              Write(s, bytes)[Offset(o, t) + j] = output[Offset(o, t) + j]
<1> DEFINE low == Offset(o, s)
           w == Width(Layout(o)[s])
           all == TotalBytes(o)
           B == Bytes \cup {Untouched}
<1>1. low \in Nat /\ w \in Nat /\ all \in Nat /\ low + w <= all
  BY SegmentPlace
<1>2. DOMAIN output = 1 .. all /\ DOMAIN bytes = 1 .. w
  OBVIOUS
<1>3. \A i \in 1 .. all : output[i] \in B
  OBVIOUS
<1>4. \A j \in 1 .. w : bytes[j] \in B
  OBVIOUS
<1>5. Write(s, bytes) =
        [i \in 1 .. all |-> IF i - low \in 1 .. w THEN bytes[i - low] ELSE output[i]]
  BY <1>2 DEF Write
<1> DEFINE new == Write(s, bytes)
<1> HIDE DEF low, w, all, B, new
<1>6. \A i \in 1 .. all : new[i] = IF i - low \in 1 .. w THEN bytes[i - low] ELSE output[i]
  BY <1>5 DEF new
<1>7. new \in Seq(B) /\ Len(new) = all
  <2>1. \A i \in 1 .. all : new[i] \in B
    BY <1>3, <1>4, <1>6
  <2>2. new = [i \in 1 .. all |-> new[i]]
    BY <1>5 DEF new
  <2> QED
    BY <1>1, <2>1, <2>2
<1>8. ASSUME NEW j \in 1 .. w
      PROVE  new[low + j] = bytes[j]
  <2>1. low + j \in 1 .. all /\ (low + j) - low = j
    BY <1>1
  <2> QED
    BY <1>6, <2>1
<1>9. ASSUME NEW t \in Segments(o) \ {s}, NEW j \in 1 .. Width(Layout(o)[t])
      PROVE  new[Offset(o, t) + j] = output[Offset(o, t) + j]
  <2> DEFINE first == Offset(o, t)
             wide == Width(Layout(o)[t])
  <2>1. s \in Nat /\ t \in Nat /\ (s < t \/ t < s)
    BY SegmentsAreNumbers
  <2>2. /\ first \in Nat /\ wide \in Nat /\ first + wide <= all
        /\ s < t => low + w <= first
        /\ t < s => first + wide <= low
    BY SegmentPlace DEF low, w, all
  <2>3. j \in Nat /\ j >= 1 /\ j <= wide
    BY <2>2
  <2> HIDE DEF first, wide
  <2>4. first + j \in 1 .. all /\ (first + j) - low \notin 1 .. w
    BY <1>1, <2>1, <2>2, <2>3
  <2> QED
    BY <1>6, <2>4 DEF first
<1> QED
  BY <1>7, <1>8, <1>9 DEF new, low, w, all, B

LEMMA EncodeSegmentWrites ==
  ASSUME WrittenInv, EncodeSegment
  PROVE  WrittenInv'
<1>1. /\ call = "encode" /\ done # Segments(obj)
      /\ obj \in Objects /\ given \in GivenContents[obj] /\ done \subseteq Segments(obj)
      /\ output \in Seq(Bytes \cup {Untouched}) /\ Len(output) = TotalBytes(obj)
      /\ \A t \in done : Written(t) /\ (Layout(obj)[t].packed => Validate(given[t]))
  BY DEF WrittenInv, EncodeSegment
<1> DEFINE s == Min(Segments(obj) \ done)
<1>2. s \in Segments(obj) \ done
  BY <1>1, SegmentsAreNumbers, LeastIn
<1> HIDE DEF s
<1>3. CASE Finish(-1)
  BY <1>1, <1>3 DEF Finish, WrittenInv
<1>4. CASE /\ Layout(obj)[s].packed => Validate(given[s])
           /\ done' = done \cup {s}
           /\ output' = Write(s, Coded(obj, given, s))
           /\ UNCHANGED <<call, obj, given>>
  <2>1. /\ Coded(obj, given, s) \in Seq(Bytes)
        /\ Len(Coded(obj, given, s)) = Width(Layout(obj)[s])
    BY <1>1, <1>2, CodedSize
  <2>2. /\ output' \in Seq(Bytes \cup {Untouched}) /\ Len(output') = TotalBytes(obj)
        /\ \A j \in 1 .. Width(Layout(obj)[s]) :
             output'[Offset(obj, s) + j] = Coded(obj, given, s)[j]
        /\ \A t \in Segments(obj) \ {s} : \A j \in 1 .. Width(Layout(obj)[t]) :
             output'[Offset(obj, t) + j] = output[Offset(obj, t) + j]
    BY <1>1, <1>2, <1>4, <2>1, WriteSegment
  <2>3. ASSUME NEW t \in done'
        PROVE  Written(t)' /\ (Layout(obj)[t].packed => Validate(given[t]))
    <3>1. CASE t = s
      BY <1>4, <2>2, <3>1 DEF Written
    <3>2. CASE t # s
      <4>1. t \in done /\ t \in Segments(obj) \ {s}
        BY <1>1, <1>4, <3>2
      <4> QED
        BY <1>1, <1>4, <2>2, <4>1 DEF Written
    <3> QED
      BY <3>1, <3>2
  <2>4. done' \subseteq Segments(obj)
    BY <1>1, <1>2, <1>4
  <2> QED
    BY <1>1, <1>4, <2>2, <2>3, <2>4 DEF WrittenInv
<1> QED
  BY <1>3, <1>4 DEF EncodeSegment, s, Coded

LEMMA EncodeReturnWrites ==
  ASSUME WrittenInv, EncodeReturn
  PROVE  WrittenInv'
<1>1. call = "encode" /\ done = Segments(obj) /\ call' = "encoded"
      /\ UNCHANGED <<obj, given, done, output>>
  BY DEF EncodeReturn, Finish
<1> QED
  BY <1>1 DEF WrittenInv, Written

LEMMA OthersWriteNothing ==
  ASSUME Release \/ DecodeSegment \/ DecodeFault \/ DecodeReturn \/
         \E o \in Objects : \E bytes \in GivenStrings[o] : DecodeCall(o, bytes)
  PROVE  WrittenInv'
<1>1. call' \in {"idle", "decode", "decoded"}
  BY DEF Release, DecodeSegment, DecodeFault, DecodeReturn, DecodeCall, Begin, Finish
<1> QED
  BY <1>1 DEF WrittenInv

LEMMA WrittenStep ==
  ASSUME WrittenInv, [Next]_vars
  PROVE  WrittenInv'
<1>1. CASE UNCHANGED vars
  BY <1>1 DEF vars, WrittenInv, Written
<1>2. CASE \E o \in Objects : \E c \in GivenContents[o] :
             \E outLen \in {TotalBytes(o) - 1, TotalBytes(o)} : EncodeCall(o, c, outLen)
  BY <1>2, EncodeCallWrites
<1> QED
  BY <1>1, <1>2, EncodeSegmentWrites, EncodeReturnWrites, OthersWriteNothing DEF Next

\* Pieces of what was written.
LEMMA WrittenPieces ==
  ASSUME WrittenInv, call = "encoded", result = 0, NEW s \in Segments(obj)
  PROVE  Piece(obj, output, s) = Coded(obj, given, s)
<1>1. /\ obj \in Objects /\ given \in GivenContents[obj]
      /\ output \in Seq(Bytes \cup {Untouched}) /\ Len(output) = TotalBytes(obj) /\ Written(s)
  BY DEF WrittenInv
<1> DEFINE piece == Piece(obj, output, s)
           coded == Coded(obj, given, s)
           w == Width(Layout(obj)[s])
<1>2. /\ piece \in Seq(Bytes \cup {Untouched}) /\ Len(piece) = w
      /\ \A j \in 1 .. w : piece[j] = output[Offset(obj, s) + j]
  BY <1>1, Pieces
<1>3. coded \in Seq(Bytes) /\ Len(coded) = w
  BY <1>1, CodedSize
<1>4. \A j \in 1 .. w : piece[j] = coded[j]
  BY <1>1, <1>2 DEF Written
<1> HIDE DEF piece, coded, w
<1> QED
  BY <1>2, <1>3, <1>4 DEF piece, coded

(* Whatever q, the sizes and the contents: what an encoder of              *)
(* trine_codec.c returns is, segment by segment, the number that the       *)
(* elements are the digits of, and none but valid elements are in it.      *)
THEOREM EncodersWriteNumbers == Spec => []EncodesNumbers
<1>1. ASSUME WrittenInv
      PROVE  EncodesNumbers
  <2>1. ASSUME call = "encoded", result = 0, NEW s \in Segments(obj)
        PROVE  IF Layout(obj)[s].packed
               THEN /\ BytesNumber(Piece(obj, output, s)) = ElementsNumber(given[s])
                    /\ \A i \in DOMAIN given[s] : given[s][i] < Q
               ELSE Piece(obj, output, s) = given[s]
    <3>1. Piece(obj, output, s) = Coded(obj, given, s)
      BY <1>1, <2>1, WrittenPieces
    <3>2. /\ obj \in Objects /\ given \in GivenContents[obj]
          /\ Layout(obj)[s].packed => Validate(given[s])
      BY <1>1, <2>1 DEF WrittenInv
    <3>3. CASE Layout(obj)[s].packed
      <4>1. given[s] \in [1 .. Layout(obj)[s].count -> Nat] /\ Layout(obj)[s].count \in Nat
        BY <3>2, <3>3, CodedSize, SegmentSizes
      <4>2. BytesNumber(EncodeArray(given[s])) = ElementsNumber(given[s])
        BY <3>2, <3>3, <4>1, EncodedIsNumber
      <4> QED
        BY <3>1, <3>2, <3>3, <4>2 DEF Coded, Validate
    <3> QED
      BY <3>1, <3>3 DEF Coded
  <2> QED
    BY <2>1 DEF EncodesNumbers
<1>2. Init => WrittenInv
  BY DEF Init, WrittenInv
<1>3. WrittenInv /\ [Next]_vars => WrittenInv'
  BY WrittenStep
<1> QED
  BY <1>1, <1>2, <1>3, PTL DEF Spec

-----------------------------------------------------------------------------
(* Decoders.                                                                *)

LEMMA PiecesHold ==
  ASSUME NEW o \in Objects, NEW bytes \in Seq(Bytes), Len(bytes) = TotalBytes(o),
         NEW s \in PackedSegments(o)
  PROVE  /\ s \in Segments(o) /\ Layout(o)[s].packed /\ Layout(o)[s].count \in Nat
         /\ Holds(Piece(o, bytes, s), Layout(o)[s].count)
<1>1. s \in Segments(o) /\ Layout(o)[s].packed
  BY DEF PackedSegments
<1>2. Piece(o, bytes, s) \in Seq(Bytes) /\ Len(Piece(o, bytes, s)) = Width(Layout(o)[s])
  BY <1>1, Pieces
<1>3. Width(Layout(o)[s]) = ArrayBytes(Layout(o)[s].count)
  BY <1>1 DEF Width
<1> QED
  BY <1>1, <1>2, <1>3, SegmentSizes DEF Holds

LEMMA DecodeCallDecodes ==
  ASSUME NEW o \in Objects, NEW bytes \in GivenStrings[o], DecodeCall(o, bytes)
  PROVE  DecodedInv'
<1>1. CASE Len(bytes) # TotalBytes(o) /\ Begin("decoded", o, bytes, <<>>, -1)
  BY <1>1 DEF Begin, DecodedInv
<1>2. CASE Len(bytes) = TotalBytes(o) /\ Begin("decode", o, bytes, <<>>, 1)
  <2>1. bytes \in Seq(Bytes)
    BY GivenAssumption
  <2>2. call' = "decode" /\ obj' = o /\ given' = bytes /\ done' = {}
    BY <1>2 DEF Begin
  <2>3. (done \subseteq PackedSegments(obj))'
    BY <2>2
  <2> QED
    BY <1>2, <2>1, <2>2, <2>3 DEF DecodedInv
<1> QED
  BY <1>1, <1>2 DEF DecodeCall

LEMMA DecodeSegmentDecodes ==
  ASSUME DecodedInv, DecodeSegment
  PROVE  DecodedInv'
<1>1. /\ call = "decode" /\ done # PackedSegments(obj)
      /\ obj \in Objects /\ given \in Seq(Bytes) /\ Len(given) = TotalBytes(obj)
      /\ done \subseteq PackedSegments(obj)
      /\ \A t \in done : Accepted(t) /\ tmp[t] = Decoded(t)
  BY DEF DecodedInv, DecodeSegment
<1> DEFINE s == Min(PackedSegments(obj) \ done)
<1>2. s \in PackedSegments(obj) \ done
  BY <1>1, SegmentsAreNumbers, LeastIn
<1> HIDE DEF s
<1>3. CASE /\ Accepted(s) /\ done' = done \cup {s}
           /\ tmp' = [t \in done' |-> IF t = s THEN Decoded(s) ELSE tmp[t]]
           /\ UNCHANGED <<call, obj, given>>
  <2>1. \A t \in done' : Accepted(t) /\ tmp'[t] = Decoded(t)
    BY <1>1, <1>3
  <2>2. \A t \in done' : Accepted(t)' /\ Decoded(t)' = Decoded(t)
    BY <1>3, <2>1 DEF Accepted, Decoded
  <2>3. done' \subseteq PackedSegments(obj)
    BY <1>1, <1>2, <1>3
  <2> QED
    BY <1>1, <1>3, <2>1, <2>2, <2>3 DEF DecodedInv
<1>4. CASE ~Accepted(s) /\ Finish(-1)
  <2>1. call' = "decoded" /\ result' = -1 /\ UNCHANGED <<obj, given, done, tmp>>
    BY <1>1, <1>4 DEF Finish
  <2>2. \A t : (Accepted(t)' <=> Accepted(t)) /\ Decoded(t)' = Decoded(t)
    BY <2>1 DEF Accepted, Decoded
  <2>3. (\E t \in PackedSegments(obj) : ~Accepted(t))'
    BY <1>2, <1>4, <2>1, <2>2
  <2> QED
    BY <1>1, <2>1, <2>2, <2>3 DEF DecodedInv
<1> QED
  BY <1>3, <1>4 DEF DecodeSegment, s, Accepted, Decoded

LEMMA DecodeReturnDecodes ==
  ASSUME DecodedInv, DecodeReturn
  PROVE  DecodedInv'
<1>1. /\ call = "decode" /\ done = PackedSegments(obj)
      /\ obj \in Objects /\ given \in Seq(Bytes) /\ Len(given) = TotalBytes(obj)
      /\ \A t \in done : Accepted(t) /\ tmp[t] = Decoded(t)
  BY DEF DecodedInv, DecodeReturn
<1>2. /\ call' = "decoded" /\ result' = 0 /\ UNCHANGED <<obj, given, done, tmp>>
      /\ output' = [s \in Segments(obj) |->
                      IF Layout(obj)[s].packed THEN tmp[s] ELSE Piece(obj, given, s)]
  BY <1>1 DEF DecodeReturn, Finish
<1>3. \A s \in Segments(obj) :
        output'[s] = IF Layout(obj)[s].packed THEN Decoded(s) ELSE Piece(obj, given, s)
  BY <1>1, <1>2 DEF PackedSegments
<1>4. \A t : (Accepted(t)' <=> Accepted(t)) /\ Decoded(t)' = Decoded(t)
  BY <1>2 DEF Accepted, Decoded
<1> QED
  BY <1>1, <1>2, <1>3, <1>4 DEF DecodedInv

LEMMA OthersDecodeNothing ==
  ASSUME \/ Release \/ EncodeSegment \/ EncodeReturn \/ DecodeFault
         \/ \E o \in Objects : \E c \in GivenContents[o] :
              \E outLen \in {TotalBytes(o) - 1, TotalBytes(o)} : EncodeCall(o, c, outLen)
  PROVE  DecodedInv'
<1>1. CASE DecodeFault
  BY <1>1 DEF DecodeFault, Finish, DecodedInv
<1>2. CASE call' \in {"idle", "encode", "encoded"}
  BY <1>2 DEF DecodedInv
<1> QED
  BY <1>1, <1>2 DEF Release, EncodeSegment, EncodeReturn, EncodeCall, Begin, Finish

LEMMA DecodedStep ==
  ASSUME DecodedInv, [Next]_vars
  PROVE  DecodedInv'
<1>1. CASE UNCHANGED vars
  BY <1>1 DEF vars, DecodedInv, Accepted, Decoded
<1>2. CASE \E o \in Objects : \E bytes \in GivenStrings[o] : DecodeCall(o, bytes)
  BY <1>2, DecodeCallDecodes
<1> QED
  BY <1>1, <1>2, DecodeSegmentDecodes, DecodeReturnDecodes, OthersDecodeNothing DEF Next

(* Whatever q, the sizes and the strings: a decoder of trine_codec.c that   *)
(* has its memory accepts a string when its packed segments are numbers     *)
(* whose digits are elements, and only then, and what it returns are those  *)
(* digits: no two strings decode to the same key or signature.              *)
THEOREM DecodersAcceptExactlyEncodings == Spec => []AcceptsExactlyEncodings
<1>1. ASSUME DecodedInv
      PROVE  AcceptsExactlyEncodings
  <2>1. ASSUME call = "decoded", ~noMemory, Len(given) = TotalBytes(obj)
        PROVE  /\ result = 0 <=> \A s \in PackedSegments(obj) :
                                   IsEncoding(Piece(obj, given, s), Layout(obj)[s].count)
               /\ result = 0 => \A s \in Segments(obj) :
                    IF Layout(obj)[s].packed
                    THEN ElementsNumber(output[s]) = BytesNumber(Piece(obj, given, s))
                    ELSE output[s] = Piece(obj, given, s)
    <3>1. /\ obj \in Objects /\ given \in Seq(Bytes)
          /\ \A s \in done : Accepted(s)
          /\ \/ /\ result = 0 /\ done = PackedSegments(obj)
                /\ \A s \in Segments(obj) :
                     output[s] = IF Layout(obj)[s].packed THEN Decoded(s) ELSE Piece(obj, given, s)
             \/ result = -1 /\ \E s \in PackedSegments(obj) : ~Accepted(s)
      BY <1>1, <2>1 DEF DecodedInv
    <3>2. ASSUME NEW s \in PackedSegments(obj)
          PROVE  /\ Accepted(s) <=> IsEncoding(Piece(obj, given, s), Layout(obj)[s].count)
                 /\ Accepted(s) => ElementsNumber(Decoded(s)) = BytesNumber(Piece(obj, given, s))
      <4>1. Layout(obj)[s].count \in Nat /\ Holds(Piece(obj, given, s), Layout(obj)[s].count)
        BY <2>1, <3>1, PiecesHold
      <4> QED
        BY <4>1, DecodersAcceptEncodings, DecodedIsNumber DEF Accepted, Decoded, AcceptsArray
    <3>3. CASE result = 0
      <4>1. \A s \in PackedSegments(obj) : Accepted(s)
        BY <3>1, <3>3
      <4>2. \A s \in Segments(obj) : Layout(obj)[s].packed => s \in PackedSegments(obj)
        BY DEF PackedSegments
      <4> QED
        BY <3>1, <3>2, <3>3, <4>1, <4>2
    <3>4. CASE result # 0
      BY <3>1, <3>2, <3>4
    <3> QED
      BY <3>3, <3>4
  <2> QED
    BY <2>1 DEF AcceptsExactlyEncodings
<1>2. Init => DecodedInv
  BY DEF Init, DecodedInv
<1>3. DecodedInv /\ [Next]_vars => DecodedInv'
  BY DecodedStep
<1> QED
  BY <1>1, <1>2, <1>3, PTL DEF Spec

-----------------------------------------------------------------------------
(* The bit stream.                                                          *)

\* The bits that fields take are those of the first ones and of the last.
LEMMA BitsSteps ==
  ASSUME NEW fields
  PROVE  /\ Bits(fields, 0) = 0
         /\ \A n \in Nat : Bits(fields, n + 1) = Bits(fields, n) + fields[n + 1].width
<1> DEFINE widths == [i \in Nat |-> fields[i].width]
           sums == [n \in Nat |-> Total(widths, n)]
           IsSum(g) == g = [i \in Nat |-> IF i = 0 THEN 0 ELSE g[i - 1] + fields[i].width]
           h == CHOOSE g : IsSum(g)
<1>1. IsSum(sums)
  <2>1. ASSUME NEW i \in Nat
        PROVE  sums[i] = IF i = 0 THEN 0 ELSE sums[i - 1] + fields[i].width
    <3>1. CASE i = 0
      BY <3>1, TotalSteps
    <3>2. CASE i # 0
      <4>1. i - 1 \in Nat /\ (i - 1) + 1 = i
        BY <3>2
      <4>2. Total(widths, (i - 1) + 1) = Total(widths, i - 1) + widths[(i - 1) + 1]
        BY <4>1, TotalSteps
      <4>3. sums[i] = sums[i - 1] + widths[i]
        BY <4>1, <4>2
      <4> QED
        BY <3>2, <4>3
    <3> QED
      BY <3>1, <3>2
  <2> HIDE DEF sums
  <2>2. sums = [i \in Nat |-> sums[i]]
    BY DEF sums
  <2> QED
    BY <2>1, <2>2
<1>2. IsSum(h)
  <2> HIDE DEF IsSum, sums
  <2> QED
    BY <1>1
<1>3. \A n : Bits(fields, n) = h[n]
  BY Zenon DEF Bits
<1>4. \A i \in Nat : h[i] = IF i = 0 THEN 0 ELSE h[i - 1] + fields[i].width
  <2> DEFINE k == [i \in Nat |-> IF i = 0 THEN 0 ELSE h[i - 1] + fields[i].width]
  <2> HIDE DEF h
  <2>1. \A i \in Nat : k[i] = IF i = 0 THEN 0 ELSE h[i - 1] + fields[i].width
    OBVIOUS
  <2>2. h = k
    BY <1>2, Zenon
  <2> QED
    BY <2>1, <2>2, Zenon
<1> HIDE DEF h
<1>5. ASSUME NEW n \in Nat
      PROVE  h[n + 1] = h[n] + fields[n + 1].width
  <2>1. n + 1 \in Nat /\ n + 1 # 0 /\ (n + 1) - 1 = n
    OBVIOUS
  <2> QED
    BY <1>4, <2>1
<1> QED
  BY <1>3, <1>4, <1>5

\* Numbers in order are so by their bytes and then by their bits.
LEMMA Bytewise ==
  ASSUME NEW d \in Nat \ {0}, NEW b \in Int, NEW c \in Int,
         NEW k \in 0 .. d - 1, NEW j \in 0 .. d - 1
  PROVE  /\ b < c => k + d * b < j + d * c
         /\ b < c => d * b + d <= d * c
         /\ k + d * b < j + d * c => b <= c
<1>1. ASSUME NEW p \in Int, NEW r \in Int, p < r
      PROVE  d * p + d <= d * r
  <2>1. d * (r - (p + 1)) \in Nat
    <3>1. r - (p + 1) \in Nat
      BY <1>1
    <3> QED
      BY <3>1
  <2>2. d * (r - (p + 1)) = d * r - (d * p + d)
    OBVIOUS
  <2>3. d * r \in Int /\ d * p \in Int
    OBVIOUS
  <2> QED
    BY <2>1, <2>2, <2>3
<1>2. d * b \in Int /\ d * c \in Int
  OBVIOUS
<1> QED
  BY <1>1, <1>2

\* Bit k of byte b is bit k + StreamByteBits * b of the stream.
BitSet(bytes, x) == x % StreamByteBits \in bytes[x \div StreamByteBits]
StreamPos == bit_pos + StreamByteBits * byte_pos

StreamBytes == [Buffer -> SUBSET (0 .. StreamByteBits - 1)]
Positioned == byte_pos \in Nat /\ bit_pos \in 0 .. StreamByteBits - 1

\* The bits of a number are found where it says.
LEMMA BitAt ==
  ASSUME NEW bytes, NEW b \in Nat, NEW k \in 0 .. StreamByteBits - 1
  PROVE  BitSet(bytes, k + StreamByteBits * b) <=> k \in bytes[b]
<1>1. StreamByteBits \in Nat \ {0} /\ k \in Nat /\ k < StreamByteBits
  BY FieldsAssumption
<1>2. /\ (k + StreamByteBits * b) \div StreamByteBits = b
      /\ (k + StreamByteBits * b) % StreamByteBits = k
  BY <1>1, Divides
<1> QED
  BY <1>2 DEF BitSet

\* And every bit of the stream is a bit of a byte.
LEMMA BitIs ==
  ASSUME NEW x \in Nat
  PROVE  \E b \in Nat, k \in 0 .. StreamByteBits - 1 : x = k + StreamByteBits * b
<1>1. StreamByteBits \in Nat \ {0}
  BY FieldsAssumption
<1>2. /\ x \div StreamByteBits \in Nat /\ x % StreamByteBits \in 0 .. StreamByteBits - 1
      /\ x = (x % StreamByteBits) + StreamByteBits * (x \div StreamByteBits)
  BY <1>1
<1> QED
  BY <1>2

\* What is behind the bits that fill up a byte begun.
LEMMA BehindFilling ==
  ASSUME Positioned, NEW width \in Nat \ {0}, ~Short(width)
  PROVE  /\ Filling \in 0 .. width /\ First \in Nat
         /\ StreamPos + Filling = StreamByteBits * First
         /\ Whole(width) \in Nat /\ LeftOver(width) \in 0 .. StreamByteBits - 1
         /\ width = Filling + LeftOver(width) + StreamByteBits * Whole(width)
         /\ bit_pos = 0 => Filling = 0 /\ First = byte_pos /\ Whole(width) > 0
         /\ bit_pos > 0 => Filling = StreamByteBits - bit_pos /\ First = byte_pos + 1
<1>1. StreamByteBits \in Nat \ {0} /\ byte_pos \in Nat /\ bit_pos \in Nat /\ bit_pos < StreamByteBits
  BY FieldsAssumption DEF Positioned
<1>2. bit_pos + width >= StreamByteBits
  BY <1>1 DEF Short
<1>3. /\ bit_pos = 0 => Filling = 0 /\ First = byte_pos
      /\ bit_pos > 0 => Filling = StreamByteBits - bit_pos /\ First = byte_pos + 1
  BY <1>1 DEF Filling, First
<1>4. Filling \in 0 .. width /\ First \in Nat
  BY <1>1, <1>2, <1>3
<1>5. StreamPos + Filling = StreamByteBits * First
  <2>1. StreamByteBits * (byte_pos + 1) = StreamByteBits * byte_pos + StreamByteBits
    BY <1>1
  <2>2. StreamByteBits * byte_pos \in Nat
    BY <1>1
  <2> QED
    BY <1>1, <1>3, <2>1, <2>2 DEF StreamPos
<1> DEFINE rest == width - Filling
<1>6. rest \in Nat /\ Whole(width) = rest \div StreamByteBits /\ LeftOver(width) = rest % StreamByteBits
  BY <1>4 DEF Whole, LeftOver
<1>7. /\ Whole(width) \in Nat /\ LeftOver(width) \in 0 .. StreamByteBits - 1
      /\ rest = LeftOver(width) + StreamByteBits * Whole(width)
  <2> HIDE DEF rest
  <2> QED
    BY <1>1, <1>6
<1>8. bit_pos = 0 => Whole(width) > 0
  <2>1. CASE Whole(width) = 0
    <3>1. rest < StreamByteBits
      BY <1>1, <1>7, <2>1
    <3> QED
      BY <1>1, <1>2, <1>3, <3>1
  <2> QED
    BY <1>7, <2>1
<1>9. width = Filling + LeftOver(width) + StreamByteBits * Whole(width)
  <2>1. StreamByteBits * Whole(width) \in Nat
    BY <1>1, <1>7
  <2> QED
    BY <1>4, <1>7, <2>1
<1> QED
  BY <1>3, <1>4, <1>5, <1>7, <1>8, <1>9

\* The stream goes on by as many bits as a field has.
LEMMA Advances ==
  ASSUME Positioned, NEW width \in Nat \ {0}, Advance(width)
  PROVE  Positioned' /\ StreamPos' = StreamPos + width
<1>1. StreamByteBits \in Nat \ {0} /\ byte_pos \in Nat /\ bit_pos \in Nat /\ bit_pos < StreamByteBits
  BY FieldsAssumption DEF Positioned
<1>2. CASE Short(width)
  <2>1. bit_pos' = bit_pos + width /\ byte_pos' = byte_pos /\ bit_pos + width < StreamByteBits
    BY <1>2 DEF Advance, Short
  <2>2. StreamByteBits * byte_pos \in Nat
    BY <1>1
  <2> QED
    BY <1>1, <2>1, <2>2 DEF Positioned, StreamPos
<1>3. CASE ~Short(width)
  <2>1. byte_pos' = First + Whole(width) /\ bit_pos' = LeftOver(width)
    BY <1>3 DEF Advance
  <2>2. /\ Filling \in 0 .. width /\ First \in Nat
        /\ StreamPos + Filling = StreamByteBits * First
        /\ Whole(width) \in Nat /\ LeftOver(width) \in 0 .. StreamByteBits - 1
        /\ width = Filling + LeftOver(width) + StreamByteBits * Whole(width)
    BY <1>3, BehindFilling
  <2>3. /\ StreamByteBits * (First + Whole(width))
             = StreamByteBits * First + StreamByteBits * Whole(width)
        /\ StreamByteBits * First \in Nat /\ StreamByteBits * Whole(width) \in Nat
    BY <1>1, <2>2
  <2>4. StreamPos \in Nat
    BY <1>1 DEF StreamPos
  <2>5. LeftOver(width) + StreamByteBits * (First + Whole(width)) = StreamPos + width
    BY <2>2, <2>3, <2>4
  <2> QED
    BY <1>1, <2>1, <2>2, <2>5 DEF Positioned, StreamPos
<1> QED
  BY <1>2, <1>3

\* A field that fits begins and ends within the buffer.
LEMMA FitsInBuffer ==
  ASSUME Positioned, NEW width \in Nat \ {0}
  PROVE  /\ ~Exceeds(width) <=> StreamPos + width <= StreamByteBits * BufLen
         /\ ~Exceeds(width) => byte_pos \in Buffer
         /\ ~Exceeds(width) /\ ~Short(width) => Behind(width) \subseteq Buffer
<1>1. /\ StreamByteBits \in Nat \ {0} /\ byte_pos \in Nat /\ bit_pos \in Nat
      /\ bit_pos < StreamByteBits /\ BufLen \in Nat
  BY FieldsAssumption DEF Positioned
<1>2. /\ StreamByteBits * byte_pos \in Nat /\ byte_pos * StreamByteBits = StreamByteBits * byte_pos
      /\ BufLen * StreamByteBits = StreamByteBits * BufLen /\ StreamByteBits * BufLen \in Nat
  BY <1>1
<1>3. ~Exceeds(width) <=> StreamPos + width <= StreamByteBits * BufLen
  BY <1>1, <1>2 DEF Exceeds, StreamPos
<1>4. ASSUME NEW b \in Nat, StreamByteBits * b < StreamByteBits * BufLen
      PROVE  b \in Buffer
  <2>1. CASE BufLen <= b
    <3>1. StreamByteBits * BufLen <= StreamByteBits * b
      <4>1. BufLen = b \/ BufLen < b
        BY <1>1, <2>1
      <4>2. 0 \in 0 .. StreamByteBits - 1
        BY <1>1
      <4>3. BufLen < b => 0 + StreamByteBits * BufLen < 0 + StreamByteBits * b
        BY <1>1, <4>2, Bytewise
      <4> QED
        BY <1>1, <1>4, <4>1, <4>3
    <3> QED
      BY <1>1, <1>4, <3>1
  <2> QED
    BY <1>1, <2>1 DEF Buffer
<1>5. ASSUME ~Exceeds(width)
      PROVE  byte_pos \in Buffer
  <2>1. StreamByteBits * byte_pos < StreamByteBits * BufLen
    BY <1>1, <1>2, <1>3, <1>5 DEF StreamPos
  <2> QED
    BY <1>1, <1>4, <2>1
<1>6. ASSUME ~Exceeds(width), ~Short(width), NEW b \in Behind(width)
      PROVE  b \in Buffer
  <2>1. /\ Filling \in 0 .. width /\ First \in Nat
        /\ StreamPos + Filling = StreamByteBits * First
        /\ Whole(width) \in Nat /\ LeftOver(width) \in 0 .. StreamByteBits - 1
        /\ width = Filling + LeftOver(width) + StreamByteBits * Whole(width)
    BY <1>6, BehindFilling
  <2> DEFINE w == Whole(width)
             r == LeftOver(width)
             end == First + w
  <2>2. StreamByteBits * end = StreamByteBits * First + StreamByteBits * w
    BY <1>1, <2>1
  <2>3. StreamByteBits * end + r <= StreamByteBits * BufLen
    <3>1. StreamPos \in Nat /\ StreamByteBits * First \in Nat /\ StreamByteBits * w \in Nat
      BY <1>1, <2>1 DEF StreamPos
    <3> QED
      BY <1>2, <1>3, <1>6, <2>1, <2>2, <3>1
  <2>4. b \in Nat /\ (b < end \/ (b = end /\ r > 0))
    <3>1. CASE r > 0
      BY <1>6, <2>1, <3>1 DEF Behind
    <3>2. CASE r = 0
      <4>1. Behind(width) = First .. First + Whole(width) + (-1)
        BY <3>2 DEF Behind
      <4>2. b \in First .. First + Whole(width) + (-1)
        BY <1>6, <4>1
      <4> QED
        BY <2>1, <4>2
    <3> QED
      BY <2>1, <3>1, <3>2
  <2>5. end \in Nat /\ r \in Nat
    BY <2>1
  <2> HIDE DEF w, r, end
  <2>6. StreamByteBits * b < StreamByteBits * BufLen
    <3>1. CASE b = end
      BY <1>1, <1>2, <2>3, <2>4, <2>5, <3>1
    <3>2. CASE b < end
      <4>1. StreamByteBits * b + StreamByteBits <= StreamByteBits * end
        <5>1. 0 \in 0 .. StreamByteBits - 1
          BY <1>1
        <5> QED
          BY <1>1, <2>4, <2>5, <3>2, <5>1, Bytewise
      <4>2. StreamByteBits * b \in Nat /\ StreamByteBits * end \in Nat
        BY <1>1, <2>4, <2>5
      <4> QED
        BY <1>1, <1>2, <2>3, <2>5, <4>1, <4>2
    <3> QED
      BY <2>4, <3>1, <3>2
  <2> QED
    BY <1>4, <2>4, <2>6
<1> QED
  BY <1>3, <1>5, <1>6

\* The bytes behind, and where in the field and in the stream they lie.
LEMMA BehindBytes ==
  ASSUME Positioned, NEW width \in Nat \ {0}, ~Short(width), NEW b \in Nat,
         NEW k \in 0 .. StreamByteBits - 1
  PROVE  /\ b >= First => /\ Start(b) \in Nat
                          /\ k + StreamByteBits * b = StreamPos + (k + Start(b))
         /\ b \in Behind(width) => b >= First
         /\ b >= First /\ b \notin Behind(width) => Start(b) >= width
         /\ b < First => k + StreamByteBits * b < StreamPos \/ (b = byte_pos /\ bit_pos > 0)
         /\ b \in Behind(width) =>
              (k + Start(b) < width <=> b # First + Whole(width) \/ k < LeftOver(width))
<1>1. StreamByteBits \in Nat \ {0} /\ byte_pos \in Nat /\ bit_pos \in Nat /\ bit_pos < StreamByteBits
  BY FieldsAssumption DEF Positioned
<1>2. /\ Filling \in 0 .. width /\ First \in Nat
      /\ StreamPos + Filling = StreamByteBits * First
      /\ Whole(width) \in Nat /\ LeftOver(width) \in 0 .. StreamByteBits - 1
      /\ width = Filling + LeftOver(width) + StreamByteBits * Whole(width)
      /\ bit_pos = 0 => Filling = 0 /\ First = byte_pos /\ Whole(width) > 0
      /\ bit_pos > 0 => Filling = StreamByteBits - bit_pos /\ First = byte_pos + 1
  BY BehindFilling
<1>3. StreamPos \in Nat /\ StreamByteBits * First \in Nat /\ StreamByteBits * Whole(width) \in Nat
  BY <1>1, <1>2 DEF StreamPos
<1>4. /\ StreamByteBits * (b - First) = StreamByteBits * b - StreamByteBits * First
      /\ StreamByteBits * b \in Nat
  BY <1>1, <1>2
<1> DEFINE w == Whole(width)
           r == LeftOver(width)
<1>5. b \in Behind(width) <=> b >= First /\ (b - First < w \/ (b - First = w /\ r > 0))
  <2>1. First \in Int /\ w \in Int /\ r \in Int /\ r >= 0
    BY <1>2
  <2>2. CASE r > 0
    <3>1. Behind(width) = First .. First + w + 0
      BY <2>2 DEF Behind
    <3> HIDE DEF w, r
    <3> QED
      BY <2>1, <2>2, <3>1
  <2>3. CASE r = 0
    <3>1. Behind(width) = First .. First + w + (-1)
      BY <2>3 DEF Behind
    <3> HIDE DEF w, r
    <3> QED
      BY <2>1, <2>3, <3>1
  <2> QED
    BY <2>1, <2>2, <2>3
<1>6. ASSUME b >= First
      PROVE  Start(b) \in Nat /\ k + StreamByteBits * b = StreamPos + (k + Start(b))
  <2>1. Start(b) = Filling + (StreamByteBits * b - StreamByteBits * First)
    BY <1>4 DEF Start
  <2>2. StreamByteBits * (b - First) \in Nat
    <3>1. b - First \in Nat
      BY <1>2, <1>6
    <3> QED
      BY <1>1, <3>1
  <2> QED
    BY <1>2, <1>3, <1>4, <2>1, <2>2
<1>7. ASSUME b < First
      PROVE  k + StreamByteBits * b < StreamPos \/ (b = byte_pos /\ bit_pos > 0)
  <2>1. CASE b = byte_pos
    BY <1>1, <1>2, <1>7, <2>1
  <2>2. CASE b # byte_pos
    <3>1. b < byte_pos
      BY <1>1, <1>2, <1>7, <2>2
    <3>2. k + StreamByteBits * b < bit_pos + StreamByteBits * byte_pos
      BY <1>1, <3>1, Bytewise
    <3> QED
      BY <3>2 DEF StreamPos
  <2> QED
    BY <2>1, <2>2
<1> DEFINE e == b - First
<1>8. ASSUME b >= First
      PROVE  /\ e < w => StreamByteBits * e + StreamByteBits <= StreamByteBits * w
             /\ w < e => StreamByteBits * w + StreamByteBits <= StreamByteBits * e
             /\ e \in Nat /\ StreamByteBits * e \in Nat /\ Start(b) = Filling + StreamByteBits * e
             /\ w \in Nat /\ StreamByteBits * w \in Nat
  <2>1. e \in Nat /\ w \in Nat
    BY <1>2, <1>8
  <2>2. 0 \in 0 .. StreamByteBits - 1
    BY <1>1
  <2>3. Start(b) = Filling + StreamByteBits * e
    BY DEF Start
  <2> HIDE DEF e, w
  <2>4. /\ e < w => StreamByteBits * e + StreamByteBits <= StreamByteBits * w
        /\ w < e => StreamByteBits * w + StreamByteBits <= StreamByteBits * e
    BY <1>1, <2>1, <2>2, Bytewise
  <2> QED
    BY <1>1, <2>1, <2>3, <2>4
<1>9. /\ Filling \in Nat /\ width = Filling + r + StreamByteBits * w
      /\ r \in Nat /\ r < StreamByteBits /\ k \in Nat /\ k < StreamByteBits /\ w \in Nat
  BY <1>1, <1>2
<1>10. b \in Behind(width) <=> b >= First /\ (e < w \/ (e = w /\ r > 0))
  BY <1>5
<1>11. b = First + w <=> e = w
  BY <1>2
<1> HIDE DEF e, w, r
<1>12. ASSUME b >= First, b \notin Behind(width)
       PROVE  Start(b) >= width
  <2>1. w < e \/ (e = w /\ r = 0)
    BY <1>8, <1>9, <1>10, <1>12
  <2> QED
    BY <1>1, <1>8, <1>9, <1>12, <2>1
<1>13. ASSUME b \in Behind(width)
       PROVE  k + Start(b) < width <=> b # First + w \/ k < r
  <2>1. CASE e < w
    <3>1. k + StreamByteBits * e < StreamByteBits * w
      BY <1>1, <1>8, <1>9, <1>10, <1>13, <2>1
    <3> QED
      BY <1>1, <1>8, <1>9, <1>10, <1>11, <1>13, <2>1, <3>1
  <2>2. CASE e = w
    BY <1>1, <1>8, <1>9, <1>10, <1>11, <1>13, <2>2
  <2> QED
    BY <1>10, <1>13, <2>1, <2>2
<1> QED
  BY <1>6, <1>7, <1>10, <1>12, <1>13 DEF w, r

\* What is written is the field, behind what was written before.
LEMMA WritesField ==
  ASSUME Positioned, data \in StreamBytes, NEW width \in Nat \ {0}, ~Exceeds(width),
         NEW field \in SUBSET (0 .. width - 1), bs_write(width, field),
         NEW b \in Buffer, NEW k \in 0 .. StreamByteBits - 1,
         k + StreamByteBits * b >= StreamPos => k \notin data[b]
  PROVE  k \in data'[b] <=>
           IF k + StreamByteBits * b < StreamPos THEN k \in data[b]
           ELSE (k + StreamByteBits * b) - StreamPos \in field
<1>1. /\ StreamByteBits \in Nat \ {0} /\ byte_pos \in Nat /\ bit_pos \in Nat
      /\ bit_pos < StreamByteBits /\ b \in Nat /\ k \in Nat /\ k < StreamByteBits
  BY FieldsAssumption DEF Positioned, Buffer
<1>2. data'[b] = IF b = byte_pos /\ (Short(width) \/ bit_pos > 0)
                   THEN data[b] \cup Byte(Left(field, bit_pos))
                 ELSE IF ~Short(width) /\ b \in Behind(width)
                   THEN Byte(Right(field, Start(b)))
                 ELSE data[b]
  BY DEF bs_write
<1>3. StreamByteBits * b \in Nat /\ StreamPos \in Nat
  BY <1>1 DEF StreamPos
\* The byte begun.
<1>4. ASSUME b = byte_pos, Short(width) \/ bit_pos > 0
      PROVE  k \in data'[b] <=> IF k + StreamByteBits * b < StreamPos THEN k \in data[b]
                                ELSE (k + StreamByteBits * b) - StreamPos \in field
  <2>1. data'[b] = data[b] \cup Byte(Left(field, bit_pos))
    BY <1>2, <1>4
  <2>2. k \in Byte(Left(field, bit_pos)) <=> \E c \in field : k = c + bit_pos
    BY <1>1 DEF Byte, Left
  <2>3. /\ k + StreamByteBits * b < StreamPos <=> k < bit_pos
        /\ (k + StreamByteBits * b) - StreamPos = k - bit_pos
    <3>1. StreamPos = bit_pos + StreamByteBits * b
      BY <1>4 DEF StreamPos
    <3> QED
      BY <1>1, <1>3, <3>1
  <2>4. (\E c \in field : k = c + bit_pos) <=> k - bit_pos \in field
    BY <1>1
  <2>5. k < bit_pos => k - bit_pos \notin field
    BY <1>1
  <2> QED
    BY <1>1, <1>3, <2>1, <2>2, <2>3, <2>4, <2>5
\* The others, of a short field.
<1>5. ASSUME b # byte_pos, Short(width)
      PROVE  k \in data'[b] <=> IF k + StreamByteBits * b < StreamPos THEN k \in data[b]
                                ELSE (k + StreamByteBits * b) - StreamPos \in field
  <2>1. data'[b] = data[b]
    BY <1>2, <1>5
  <2>2. bit_pos + width < StreamByteBits
    BY <1>5 DEF Short
  <2>3. CASE b < byte_pos
    <3>1. k + StreamByteBits * b < StreamPos
      BY <1>1, <2>3, Bytewise DEF StreamPos
    <3> QED
      BY <2>1, <3>1
  <2>4. CASE byte_pos < b
    <3>1. StreamByteBits * byte_pos + StreamByteBits <= StreamByteBits * b
      BY <1>1, <2>4, Bytewise
    <3>2. StreamByteBits * byte_pos \in Nat
      BY <1>1
    <3>3. (k + StreamByteBits * b) - StreamPos >= width
      BY <1>1, <1>3, <2>2, <3>1, <3>2 DEF StreamPos
    <3>4. (k + StreamByteBits * b) - StreamPos \notin field /\ ~ (k + StreamByteBits * b < StreamPos)
      BY <1>1, <1>3, <3>3
    <3> QED
      BY <1>3, <2>1, <3>4
  <2> QED
    BY <1>1, <1>5, <2>3, <2>4
\* And of a longer one.
<1>6. ASSUME ~Short(width), b # byte_pos \/ bit_pos = 0
      PROVE  k \in data'[b] <=> IF k + StreamByteBits * b < StreamPos THEN k \in data[b]
                                ELSE (k + StreamByteBits * b) - StreamPos \in field
  <2>1. /\ b >= First => /\ Start(b) \in Nat
                         /\ k + StreamByteBits * b = StreamPos + (k + Start(b))
        /\ b \in Behind(width) => b >= First
        /\ b >= First /\ b \notin Behind(width) => Start(b) >= width
        /\ b < First => k + StreamByteBits * b < StreamPos \/ (b = byte_pos /\ bit_pos > 0)
    BY <1>1, <1>6, BehindBytes
  <2>2. First \in Nat
    BY <1>6, BehindFilling
  <2>3. CASE b < First
    <3>1. k + StreamByteBits * b < StreamPos
      BY <1>1, <1>6, <2>1, <2>3
    <3>2. b \notin Behind(width)
      BY <1>1, <2>1, <2>2, <2>3
    <3>3. data'[b] = data[b]
      BY <1>1, <1>2, <1>6, <3>2
    <3> QED
      BY <3>1, <3>3
  <2>4. CASE b >= First /\ b \in Behind(width)
    <3>1. data'[b] = Byte(Right(field, Start(b)))
      BY <1>1, <1>2, <1>6, <2>4
    <3>2. k \in Byte(Right(field, Start(b))) <=> \E c \in field : c >= Start(b) /\ k = c - Start(b)
      BY <1>1 DEF Byte, Right
    <3>3. (\E c \in field : c >= Start(b) /\ k = c - Start(b)) <=> k + Start(b) \in field
      BY <1>1, <2>1, <2>4
    <3>4. (k + StreamByteBits * b) - StreamPos = k + Start(b) /\ ~ (k + StreamByteBits * b < StreamPos)
      BY <1>1, <1>3, <2>1, <2>4
    <3> QED
      BY <3>1, <3>2, <3>3, <3>4
  <2>5. CASE b >= First /\ b \notin Behind(width)
    <3>1. data'[b] = data[b]
      BY <1>1, <1>2, <1>6, <2>5
    <3>2. (k + StreamByteBits * b) - StreamPos = k + Start(b) /\ ~ (k + StreamByteBits * b < StreamPos)
      BY <1>1, <1>3, <2>1, <2>5
    <3>3. k + Start(b) \notin field
      BY <1>1, <2>1, <2>5
    <3> QED
      BY <1>3, <3>1, <3>2, <3>3
  <2> QED
    BY <1>1, <2>2, <2>3, <2>4, <2>5
<1> QED
  BY <1>1, <1>4, <1>5, <1>6

\* What is read are the bits that follow.
LEMMA ReadsField ==
  ASSUME Positioned, data \in StreamBytes, NEW width \in Nat \ {0}, ~Exceeds(width)
  PROVE  Field(width) = {x \in 0 .. width - 1 : BitSet(data, StreamPos + x)}
<1>1. /\ StreamByteBits \in Nat \ {0} /\ byte_pos \in Nat /\ bit_pos \in Nat
      /\ bit_pos < StreamByteBits /\ byte_pos \in Buffer /\ Buffer \subseteq Nat
  BY FieldsAssumption, FitsInBuffer DEF Positioned, Buffer
<1>2. StreamPos \in Nat /\ StreamByteBits * byte_pos \in Nat /\ StreamPos = bit_pos + StreamByteBits * byte_pos
  BY <1>1 DEF StreamPos
<1>3. \A b \in Buffer : data[b] \subseteq 0 .. StreamByteBits - 1
  BY DEF StreamBytes
<1>4. ASSUME NEW x
      PROVE  x \in Right(data[byte_pos], bit_pos) <=> x \in Nat /\ x + bit_pos \in data[byte_pos]
  <2>1. x \in Right(data[byte_pos], bit_pos)
          <=> \E c \in data[byte_pos] : c >= bit_pos /\ x = c - bit_pos
    BY DEF Right
  <2> QED
    BY <1>1, <1>3, <2>1
<1>5. ASSUME NEW x \in Nat, x + bit_pos < StreamByteBits
      PROVE  BitSet(data, StreamPos + x) <=> x + bit_pos \in data[byte_pos]
  <2>1. StreamPos + x = (x + bit_pos) + StreamByteBits * byte_pos
    BY <1>1, <1>2
  <2>2. x + bit_pos \in 0 .. StreamByteBits - 1
    BY <1>1, <1>5
  <2> QED
    BY <1>1, <2>1, <2>2, BitAt
<1>6. CASE Short(width)
  <2>1. bit_pos + width < StreamByteBits
    BY <1>6 DEF Short
  <2>2. Field(width) = Right(data[byte_pos], bit_pos) \cap 0 .. width - 1
    BY <1>6 DEF Field
  <2>3. \A x \in 0 .. width - 1 : x \in Nat /\ x + bit_pos < StreamByteBits
    BY <1>1, <2>1
  <2> QED
    BY <1>4, <1>5, <2>2, <2>3
<1>7. CASE ~Short(width)
  <2> DEFINE Of(b) == IF b = First + Whole(width) THEN data[b] \cap 0 .. LeftOver(width) - 1
                      ELSE data[b]
  <2>1. Field(width) = (IF bit_pos > 0 THEN Right(data[byte_pos], bit_pos) ELSE {})
                         \cup UNION {Left(Of(b), Start(b)) : b \in Behind(width)}
    BY <1>7 DEF Field
  <2>2. /\ Filling \in 0 .. width /\ First \in Nat
        /\ StreamPos + Filling = StreamByteBits * First
        /\ Whole(width) \in Nat /\ LeftOver(width) \in 0 .. StreamByteBits - 1
        /\ width = Filling + LeftOver(width) + StreamByteBits * Whole(width)
        /\ bit_pos = 0 => Filling = 0 /\ First = byte_pos /\ Whole(width) > 0
        /\ bit_pos > 0 => Filling = StreamByteBits - bit_pos /\ First = byte_pos + 1
    BY <1>7, BehindFilling
  <2>3. Behind(width) \subseteq Buffer
    BY <1>7, FitsInBuffer
  <2>4. ASSUME NEW b \in Behind(width), NEW x
        PROVE  x \in Left(Of(b), Start(b))
                 <=> \E k \in data[b] : x = k + Start(b) /\ x < width
    <3>1. x \in Left(Of(b), Start(b)) <=> \E k \in Of(b) : x = k + Start(b)
      BY DEF Left
    <3>2. b \in Nat /\ data[b] \subseteq 0 .. StreamByteBits - 1
      BY <1>1, <1>3, <2>3
    <3>3. \A k \in data[b] : k + Start(b) < width <=> k \in Of(b)
      <4>1. ASSUME NEW k \in data[b]
            PROVE  k + Start(b) < width <=> b # First + Whole(width) \/ k < LeftOver(width)
        BY <1>7, <3>2, BehindBytes
      <4>2. \A k \in data[b] : k < LeftOver(width) <=> k \in 0 .. LeftOver(width) - 1
        BY <2>2, <3>2
      <4> QED
        BY <4>1, <4>2
    <3>4. \A k \in Of(b) : k \in data[b]
      OBVIOUS
    <3> HIDE DEF Of
    <3> QED
      BY <3>1, <3>3, <3>4
  <2>5. ASSUME NEW b \in Behind(width), NEW k \in 0 .. StreamByteBits - 1
        PROVE  /\ k + Start(b) \in Nat /\ b \in Nat
               /\ BitSet(data, StreamPos + (k + Start(b))) <=> k \in data[b]
    <3>1. b \in Nat
      BY <1>1, <2>3
    <3>2. b >= First /\ Start(b) \in Nat /\ k + StreamByteBits * b = StreamPos + (k + Start(b))
      BY <1>7, <3>1, BehindBytes
    <3> QED
      BY <3>1, <3>2, BitAt
  <2> HIDE DEF Of
  <2>6. ASSUME NEW x \in Field(width)
        PROVE  x \in 0 .. width - 1 /\ BitSet(data, StreamPos + x)
    <3>1. CASE bit_pos > 0 /\ x \in Right(data[byte_pos], bit_pos)
      <4>1. x \in Nat /\ x + bit_pos \in data[byte_pos]
        BY <1>4, <3>1
      <4>2. x + bit_pos < StreamByteBits
        BY <1>1, <1>3, <4>1
      <4>3. x < Filling
        BY <1>1, <2>2, <3>1, <4>1, <4>2
      <4> QED
        BY <1>5, <2>2, <4>1, <4>2, <4>3
    <3>2. CASE \E b \in Behind(width) : x \in Left(Of(b), Start(b))
      <4>1. PICK b \in Behind(width) : \E k \in data[b] : x = k + Start(b) /\ x < width
        BY <2>4, <3>2
      <4>2. PICK k \in data[b] : x = k + Start(b) /\ x < width
        BY <4>1
      <4>3. k \in 0 .. StreamByteBits - 1
        BY <1>3, <2>3
      <4> QED
        BY <2>5, <4>2, <4>3
    <3> QED
      BY <2>1, <3>1, <3>2
  <2>7. ASSUME NEW x \in 0 .. width - 1, BitSet(data, StreamPos + x)
        PROVE  x \in Field(width)
    <3>1. CASE x < Filling
      <4>1. bit_pos > 0 /\ x + bit_pos < StreamByteBits
        BY <1>1, <2>2, <3>1
      <4>2. x \in Right(data[byte_pos], bit_pos)
        BY <1>4, <1>5, <2>7, <4>1
      <4> QED
        BY <2>1, <4>1, <4>2
    <3>2. CASE x >= Filling
      <4>1. PICK c \in Nat, k \in 0 .. StreamByteBits - 1 : x - Filling = k + StreamByteBits * c
        BY <2>2, <3>2, BitIs
      <4> DEFINE b == First + c
      <4>2. b \in Nat /\ b >= First /\ Start(b) = Filling + StreamByteBits * c
        BY <2>2 DEF Start
      <4>3. StreamByteBits * c \in Nat
        BY <1>1
      <4>4. x = k + Start(b)
        BY <2>2, <4>1, <4>2, <4>3
      <4>5. Start(b) < width
        BY <2>2, <4>1, <4>2, <4>3, <4>4
      <4>6. b \in Behind(width)
        <5> HIDE DEF b
        <5>1. Start(b) \in Nat /\ (b \notin Behind(width) => Start(b) >= width)
          BY <1>7, <4>1, <4>2, BehindBytes
        <5> QED
          BY <2>2, <4>5, <5>1
      <4> HIDE DEF b
      <4>7. k \in data[b]
        BY <2>5, <2>7, <4>4, <4>6
      <4>8. x \in Left(Of(b), Start(b))
        BY <2>4, <4>4, <4>6, <4>7
      <4> QED
        BY <2>1, <4>6, <4>8
    <3> QED
      BY <2>2, <3>1, <3>2
  <2> QED
    BY <2>6, <2>7
<1> QED
  BY <1>6, <1>7

\* Fields with their widths.
Puts == {p \in [width : DOMAIN Fields, field : SUBSET Nat] : p.field \subseteq 0 .. p.width - 1}

\* Bits are counted by the first fields only, and grow with them.
LEMMA BitsOfPuts ==
  ASSUME NEW fields \in Seq(Puts), NEW n \in 0 .. Len(fields)
  PROVE  /\ Bits(fields, n) \in Nat
         /\ n > 0 => Bits(fields, n) = Bits(fields, n - 1) + fields[n].width
         /\ Bits(fields, n) <= Bits(fields, Len(fields))
<1> DEFINE L == Len(fields)
<1>1. L \in Nat /\ \A i \in 1 .. L : fields[i].width \in Nat
  BY FieldsAssumption DEF Puts
<1>2. \A i \in Nat : Bits(fields, i + 1) = Bits(fields, i) + fields[i + 1].width
  BY BitsSteps
<1> DEFINE S == {i \in Nat : i <= L => Bits(fields, i) \in Nat}
           T == {i \in Nat : n + i <= L => Bits(fields, n) <= Bits(fields, n + i)}
<1>3. \A i \in Nat : i \in S
  <2>1. 0 \in S
    <3>1. Bits(fields, 0) = 0
      BY BitsSteps
    <3> QED
      BY <3>1
  <2>2. ASSUME NEW i \in Nat, i \in S
        PROVE  i + 1 \in S
    <3>1. ASSUME i + 1 <= L
          PROVE  Bits(fields, i + 1) \in Nat
      <4>1. i + 1 \in 1 .. L /\ i <= L
        BY <1>1, <3>1
      <4>2. Bits(fields, i) \in Nat
        BY <2>2, <4>1
      <4>3. fields[i + 1].width \in Nat
        BY <1>1, <4>1
      <4>4. Bits(fields, i + 1) = Bits(fields, i) + fields[i + 1].width
        BY <1>2
      <4> QED
        BY <4>2, <4>3, <4>4
    <3> QED
      BY <3>1
  <2> HIDE DEF S
  <2> QED
    BY <2>1, <2>2, NumbersByInduction
<1>4. \A i \in 0 .. L : Bits(fields, i) \in Nat
  BY <1>1, <1>3
<1>5. \A i \in Nat : i \in T
  <2>1. 0 \in T
    BY <1>1, <1>4
  <2>2. ASSUME NEW i \in Nat, i \in T
        PROVE  i + 1 \in T
    <3>1. ASSUME n + (i + 1) <= L
          PROVE  Bits(fields, n) <= Bits(fields, n + (i + 1))
      <4>1. /\ n + i \in 0 .. L /\ (n + i) + 1 = n + (i + 1) /\ (n + i) + 1 \in 1 .. L
            /\ n + i <= L
        BY <1>1, <3>1
      <4>2. Bits(fields, n + (i + 1)) = Bits(fields, n + i) + fields[(n + i) + 1].width
        <5>1. n + i \in Nat
          BY <1>1
        <5>2. Bits(fields, (n + i) + 1) = Bits(fields, n + i) + fields[(n + i) + 1].width
          BY <1>2, <5>1
        <5>3. (n + i) + 1 = n + (i + 1)
          BY <4>1
        <5> QED
          BY <5>2, <5>3
      <4>3. Bits(fields, n) <= Bits(fields, n + i)
        BY <2>2, <4>1
      <4> QED
        BY <1>1, <1>4, <4>1, <4>2, <4>3
    <3> QED
      BY <3>1
  <2> HIDE DEF T
  <2> QED
    BY <2>1, <2>2, NumbersByInduction
<1>6. Bits(fields, n) <= Bits(fields, L)
  <2>1. L - n \in Nat /\ n + (L - n) = L
    BY <1>1
  <2>2. L - n \in T
    BY <1>5, <2>1
  <2>3. n + (L - n) <= L => Bits(fields, n) <= Bits(fields, n + (L - n))
    BY <2>2
  <2>4. n + (L - n) <= L
    BY <1>1, <2>1
  <2>5. Bits(fields, n) <= Bits(fields, n + (L - n))
    BY <2>3, <2>4
  <2> QED
    BY <2>1, <2>5
<1>7. n > 0 => Bits(fields, n) = Bits(fields, n - 1) + fields[n].width
  <2>1. n > 0 => n - 1 \in Nat /\ (n - 1) + 1 = n
    OBVIOUS
  <2> QED
    BY <1>2, <2>1
<1> QED
  BY <1>4, <1>6, <1>7

\* A field behind the others does not change what they take.
LEMMA BitsAppended ==
  ASSUME NEW fields \in Seq(Puts), NEW p \in Puts
  PROVE  \A n \in 0 .. Len(fields) : Bits(Append(fields, p), n) = Bits(fields, n)
<1> DEFINE L == Len(fields)
           longer == Append(fields, p)
           S == {i \in Nat : i <= L => Bits(longer, i) = Bits(fields, i)}
<1>1. L \in Nat /\ \A i \in 1 .. L : longer[i] = fields[i]
  OBVIOUS
<1> HIDE DEF longer
<1>2. \A i \in Nat : i \in S
  <2>1. 0 \in S
    BY BitsSteps
  <2>2. ASSUME NEW i \in Nat, i \in S
        PROVE  i + 1 \in S
    <3>1. i + 1 <= L => i + 1 \in 1 .. L
      BY <1>1
    <3>2. /\ Bits(longer, i + 1) = Bits(longer, i) + longer[i + 1].width
          /\ Bits(fields, i + 1) = Bits(fields, i) + fields[i + 1].width
      BY BitsSteps
    <3> QED
      BY <1>1, <2>2, <3>1, <3>2
  <2> HIDE DEF S
  <2> QED
    BY <2>1, <2>2, NumbersByInduction
<1> QED
  BY <1>1, <1>2 DEF longer

StreamInv ==
  /\ mode \in {"idle", "write", "written", "read"}
  /\ Positioned /\ data \in StreamBytes
  /\ put \in Seq(Puts) /\ got \in Seq(SUBSET Nat) /\ Len(got) <= Len(put)
  /\ Bits(put, Len(put)) <= StreamByteBits * BufLen
  /\ \A i \in 1 .. Len(put) : \A x \in 0 .. put[i].width - 1 :
       BitSet(data, Bits(put, i - 1) + x) <=> x \in put[i].field
  /\ mode = "write" =>
       /\ StreamPos = Bits(put, Len(put))
       /\ \A b \in Buffer : \A k \in 0 .. StreamByteBits - 1 :
            k + StreamByteBits * b >= StreamPos => k \notin data[b]
  /\ mode = "written" => /\ last * StreamByteBits < Bits(put, Len(put))
                         /\ Bits(put, Len(put)) <= (last + 1) * StreamByteBits
  /\ mode = "read" => StreamPos = Bits(put, Len(got))
  /\ \A i \in DOMAIN got : got[i] = put[i].field

\* bs_init for writing: nothing is put, and no bit is set.
LEMMA NothingPut ==
  ASSUME put' = <<>>, got' = <<>>, data' = Zeroed, byte_pos' = 0, bit_pos' = 0,
         mode' \in {"idle", "write"}
  PROVE  StreamInv'
<1>1. StreamByteBits \in Nat \ {0} /\ BufLen \in Nat
  BY FieldsAssumption
<1>2. Bits(<<>>, 0) = 0 /\ Len(<<>>) = 0 /\ <<>> \in Seq(Puts) /\ <<>> \in Seq(SUBSET Nat)
  BY BitsSteps
<1>3. Positioned' /\ StreamPos' = 0
  BY <1>1 DEF Positioned, StreamPos
<1>4. data' \in StreamBytes /\ \A b \in Buffer : data'[b] = {}
  BY DEF Zeroed, StreamBytes
<1>5. 0 <= StreamByteBits * BufLen
  BY <1>1
<1> QED
  BY <1>2, <1>3, <1>4, <1>5 DEF StreamInv

\* The invariant of a stream, over its calls.
LEMMA StreamStarts == StreamInit => StreamInv
<1> SUFFICES ASSUME StreamInit
             PROVE  StreamInv
  OBVIOUS
<1>1. StreamByteBits \in Nat \ {0} /\ BufLen \in Nat
  BY FieldsAssumption
<1>2. Bits(<<>>, 0) = 0 /\ Len(<<>>) = 0 /\ <<>> \in Seq(Puts) /\ <<>> \in Seq(SUBSET Nat)
  BY BitsSteps
<1>3. Positioned
  BY <1>1 DEF StreamInit, Positioned
<1>4. data \in StreamBytes
  BY DEF StreamInit, Zeroed, StreamBytes
<1>5. 0 <= StreamByteBits * BufLen
  BY <1>1
<1> QED
  BY <1>2, <1>3, <1>4, <1>5 DEF StreamInv, StreamInit

LEMMA BsInitKeeps ==
  ASSUME StreamInv, bs_init
  PROVE  StreamInv'
<1>1. CASE mode' = "write"
  BY <1>1, NothingPut DEF bs_init
<1>2. CASE mode' # "write"
  <2>1. mode' = "read" /\ data' = data /\ put' = put /\ last' = last /\ byte_pos' = 0 /\ bit_pos' = 0
        /\ got' = <<>>
    BY <1>2 DEF bs_init
  <2>2. StreamByteBits \in Nat \ {0}
    BY FieldsAssumption
  <2>3. Positioned' /\ StreamPos' = 0
    BY <2>1, <2>2 DEF Positioned, StreamPos
  <2>4. Bits(put, 0) = 0
    BY BitsSteps
  <2>5. got' \in Seq(SUBSET Nat) /\ Len(got') = 0 /\ Len(got') <= Len(put)
    BY <2>1 DEF StreamInv
  <2> QED
    BY <2>1, <2>3, <2>4, <2>5 DEF StreamInv
<1> QED
  BY <1>1, <1>2

\* A field is added behind the others, which stay as they are.
LEMMA BsWriteKeeps ==
  ASSUME StreamInv, NEW width \in DOMAIN Fields, NEW field \in Fields[width], bs_write(width, field)
  PROVE  StreamInv'
<1> DEFINE p == [width |-> width, field |-> field]
           L == Len(put)
<1>1. /\ StreamByteBits \in Nat \ {0} /\ BufLen \in Nat /\ width \in Nat \ {0}
      /\ field \in SUBSET (0 .. width - 1)
  BY FieldsAssumption
<1>2. /\ mode = "write" /\ ~Exceeds(width) /\ Advance(width) /\ put' = Append(put, p)
      /\ mode' = mode /\ got' = got /\ last' = last
  BY DEF bs_write
<1>3. /\ Positioned /\ data \in StreamBytes /\ put \in Seq(Puts) /\ StreamPos = Bits(put, L)
      /\ L \in Nat /\ got \in Seq(SUBSET Nat) /\ Len(got) <= L
      /\ \A b \in Buffer : \A k \in 0 .. StreamByteBits - 1 :
           k + StreamByteBits * b >= StreamPos => k \notin data[b]
  BY <1>2 DEF StreamInv
<1>4. Positioned' /\ StreamPos' = StreamPos + width
  BY <1>1, <1>2, <1>3, Advances
<1>5. p \in Puts /\ p.width = width /\ p.field = field
  BY <1>1 DEF Puts
<1>6. /\ put' \in Seq(Puts) /\ Len(put') = L + 1 /\ put'[L + 1] = p
      /\ \A i \in 1 .. L : put'[i] = put[i]
  BY <1>2, <1>3, <1>5
<1>7. \A n \in 0 .. L : Bits(put', n) = Bits(put, n)
  BY <1>2, <1>3, <1>5, BitsAppended
<1>8. Bits(put', L + 1) = StreamPos + width
  <2>1. Bits(put', L + 1) = Bits(put', L) + put'[L + 1].width
    BY <1>3, BitsSteps
  <2>2. L \in 0 .. L
    BY <1>3
  <2> QED
    BY <1>3, <1>5, <1>6, <1>7, <2>1, <2>2
<1>9. StreamPos + width <= StreamByteBits * BufLen
  BY <1>1, <1>2, <1>3, FitsInBuffer
<1>10. data' \in StreamBytes
  <2>1. data' = [b \in Buffer |-> data'[b]]
    BY DEF bs_write
  <2>2. ASSUME NEW b \in Buffer
        PROVE  data'[b] \subseteq 0 .. StreamByteBits - 1
    <3>1. data[b] \subseteq 0 .. StreamByteBits - 1
      BY <1>3 DEF StreamBytes
    <3>2. \A bits : Byte(bits) \subseteq 0 .. StreamByteBits - 1
      BY DEF Byte
    <3>3. data'[b] \in {data[b], data[b] \cup Byte(Left(field, bit_pos)), Byte(Right(field, Start(b)))}
      BY DEF bs_write
    <3> QED
      BY <3>1, <3>2, <3>3
  <2> QED
    BY <2>1, <2>2 DEF StreamBytes
<1>11. StreamPos \in Nat
  BY <1>1, <1>3 DEF StreamPos, Positioned
<1>12. ASSUME NEW b \in Buffer, NEW k \in 0 .. StreamByteBits - 1
       PROVE  k \in data'[b] <=> IF k + StreamByteBits * b < StreamPos THEN k \in data[b]
                                 ELSE (k + StreamByteBits * b) - StreamPos \in field
  BY <1>1, <1>2, <1>3, WritesField
<1>13. ASSUME NEW y \in Nat, y < StreamPos + width
       PROVE  BitSet(data', y) <=> IF y < StreamPos THEN BitSet(data, y) ELSE y - StreamPos \in field
  <2>1. PICK b \in Nat, k \in 0 .. StreamByteBits - 1 : y = k + StreamByteBits * b
    BY BitIs
  <2>2. b \in Buffer
    <3>1. CASE BufLen <= b
      <4>1. k + StreamByteBits * b < 0 + StreamByteBits * BufLen
        BY <1>1, <1>9, <1>11, <1>13, <2>1
      <4>2. 0 \in 0 .. StreamByteBits - 1
        BY <1>1
      <4>3. b <= BufLen
        BY <1>1, <2>1, <4>1, <4>2, Bytewise
      <4>4. b = BufLen
        BY <1>1, <2>1, <3>1, <4>3
      <4> QED
        BY <1>1, <2>1, <4>1, <4>4
    <3> QED
      BY <1>1, <2>1, <3>1 DEF Buffer
  <2> QED
    BY <1>12, <2>1, <2>2, BitAt
<1>14. ASSUME NEW i \in 1 .. L + 1, NEW x \in 0 .. put'[i].width - 1
       PROVE  BitSet(data', Bits(put', i - 1) + x) <=> x \in put'[i].field
  <2>1. CASE i = L + 1
    <3>1. i - 1 = L /\ L \in 0 .. L
      BY <1>3, <2>1
    <3>2. Bits(put', i - 1) = StreamPos /\ put'[i] = p
      BY <1>3, <1>6, <1>7, <2>1, <3>1
    <3>3. x \in Nat /\ x < width
      BY <1>1, <1>5, <3>2
    <3>4. StreamPos + x \in Nat /\ ~ (StreamPos + x < StreamPos) /\ (StreamPos + x) - StreamPos = x
          /\ StreamPos + x < StreamPos + width
      BY <1>1, <1>11, <3>3
    <3> QED
      BY <1>5, <1>13, <3>2, <3>4
  <2>2. CASE i # L + 1
    <3>1. i \in 1 .. L /\ i - 1 \in 0 .. L /\ i \in 0 .. L /\ i > 0
      BY <1>3, <2>2
    <3>2. put'[i] = put[i] /\ Bits(put', i - 1) = Bits(put, i - 1)
      BY <1>6, <1>7, <3>1
    <3>3. put[i].width \in Nat
      BY <1>3, <3>1, FieldsAssumption DEF Puts
    <3>4. /\ Bits(put, i - 1) \in Nat /\ Bits(put, i) = Bits(put, i - 1) + put[i].width
          /\ Bits(put, i) <= StreamPos
      BY <1>3, <3>1, BitsOfPuts
    <3>5. Bits(put, i - 1) + x \in Nat /\ Bits(put, i - 1) + x < StreamPos
      <4> DEFINE before == Bits(put, i - 1)
                 upTo == Bits(put, i)
                 w == put[i].width
      <4>1. x \in Nat /\ x < w
        BY <3>2, <3>3
      <4>2. before \in Nat /\ upTo = before + w /\ upTo <= StreamPos /\ w \in Nat
        BY <3>3, <3>4
      <4> HIDE DEF before, upTo, w
      <4>3. before + x \in Nat /\ before + x < StreamPos
        BY <1>11, <4>1, <4>2
      <4> QED
        BY <4>3 DEF before
    <3>6. Bits(put, i - 1) + x < StreamPos + width
      BY <1>1, <1>11, <3>5
    <3>7. BitSet(data', Bits(put, i - 1) + x) <=> BitSet(data, Bits(put, i - 1) + x)
      BY <1>13, <3>5, <3>6
    <3>8. BitSet(data, Bits(put, i - 1) + x) <=> x \in put[i].field
      BY <3>1, <3>2 DEF StreamInv
    <3> QED
      BY <3>2, <3>7, <3>8
  <2> QED
    BY <2>1, <2>2
<1>15. ASSUME NEW b \in Buffer, NEW k \in 0 .. StreamByteBits - 1,
              k + StreamByteBits * b >= StreamPos + width
       PROVE  k \notin data'[b]
  <2>1. k + StreamByteBits * b \in Nat
    BY <1>1 DEF Buffer
  <2>2. ~ (k + StreamByteBits * b < StreamPos) /\ (k + StreamByteBits * b) - StreamPos \notin field
    BY <1>1, <1>11, <1>15, <2>1
  <2> QED
    BY <1>12, <2>2
<1>16. \A i \in DOMAIN got : got'[i] = put'[i].field
  <2>1. ASSUME NEW i \in DOMAIN got
        PROVE  got[i] = put[i].field /\ i \in 1 .. L
    <3>1. got[i] = put[i].field
      BY DEF StreamInv
    <3>2. i \in 1 .. Len(got)
      BY <1>3
    <3> QED
      BY <1>3, <3>1, <3>2
  <2> QED
    BY <1>2, <1>6, <2>1
<1>17. Len(got') <= Len(put')
  BY <1>2, <1>3, <1>6
<1> QED
  BY <1>2, <1>3, <1>4, <1>6, <1>8, <1>9, <1>10, <1>14, <1>15, <1>16, <1>17 DEF StreamInv

\* bs_finalize gives up the rest of the byte begun.
LEMMA BsFinalizeKeeps ==
  ASSUME StreamInv, bs_finalize
  PROVE  StreamInv'
<1>1. /\ mode = "write" /\ mode' = "written" /\ data' = data /\ put' = put /\ got' = got
      /\ bit_pos' = 0 /\ byte_pos' = (IF bit_pos > 0 THEN byte_pos + 1 ELSE byte_pos)
      /\ last' = byte_pos' - 1
  BY DEF bs_finalize
<1>2. /\ StreamByteBits \in Nat \ {0} /\ byte_pos \in Nat /\ bit_pos \in Nat
      /\ bit_pos < StreamByteBits
  BY FieldsAssumption DEF StreamInv, Positioned
<1>3. Positioned'
  BY <1>1, <1>2 DEF Positioned
<1>4. Bits(put, Len(put)) = bit_pos + StreamByteBits * byte_pos
  BY <1>1 DEF StreamInv, StreamPos
<1>5. /\ last' * StreamByteBits < bit_pos + StreamByteBits * byte_pos
      /\ bit_pos + StreamByteBits * byte_pos <= (last' + 1) * StreamByteBits
  <2> DEFINE taken == StreamByteBits * byte_pos
  <2>1. taken \in Nat
    BY <1>2
  <2>2. /\ (byte_pos - 1) * StreamByteBits = taken - StreamByteBits
        /\ byte_pos * StreamByteBits = taken
        /\ (byte_pos + 1) * StreamByteBits = taken + StreamByteBits
    BY <1>2
  <2>3. CASE bit_pos > 0
    <3>1. last' = byte_pos /\ last' + 1 = byte_pos + 1
      BY <1>1, <1>2, <2>3
    <3>2. /\ last' * StreamByteBits = taken
          /\ (last' + 1) * StreamByteBits = taken + StreamByteBits
      BY <2>2, <3>1
    <3> HIDE DEF taken
    <3> QED
      BY <1>2, <2>1, <2>3, <3>2 DEF taken
  <2>4. CASE bit_pos = 0
    <3>1. last' = byte_pos - 1 /\ last' + 1 = byte_pos
      BY <1>1, <1>2, <2>4
    <3>2. /\ last' * StreamByteBits = taken - StreamByteBits
          /\ (last' + 1) * StreamByteBits = taken
      BY <2>2, <3>1
    <3> HIDE DEF taken
    <3> QED
      BY <1>2, <2>1, <2>4, <3>2 DEF taken
  <2> QED
    BY <1>2, <2>3, <2>4
<1> QED
  BY <1>1, <1>3, <1>4, <1>5 DEF StreamInv

\* What is read is the next of the fields written, and it lies in the buffer.
LEMMA NextIsRead ==
  ASSUME StreamInv, mode = "read", Len(got) < Len(put)
  PROVE  /\ put[Len(got) + 1] \in Puts /\ ~Exceeds(put[Len(got) + 1].width)
         /\ Field(put[Len(got) + 1].width) = put[Len(got) + 1].field
         /\ Bits(put, Len(got) + 1) = StreamPos + put[Len(got) + 1].width
<1> DEFINE n == Len(got) + 1
           width == put[n].width
<1>1. n \in 1 .. Len(put) /\ n - 1 = Len(got) /\ n > 0 /\ n \in 0 .. Len(put)
  BY DEF StreamInv
<1>2. put \in Seq(Puts) /\ Positioned /\ data \in StreamBytes /\ StreamPos = Bits(put, n - 1)
  BY <1>1 DEF StreamInv
<1>3. put[n] \in Puts /\ width \in Nat \ {0} /\ put[n].field \subseteq 0 .. width - 1
  BY <1>1, <1>2, FieldsAssumption DEF Puts
<1>4. Bits(put, n) = StreamPos + width /\ Bits(put, n) <= StreamByteBits * BufLen
  <2>1. /\ Bits(put, n) = Bits(put, n - 1) + put[n].width
        /\ Bits(put, n) \in Nat /\ Bits(put, n) <= Bits(put, Len(put))
    BY <1>1, <1>2, BitsOfPuts
  <2>2. Bits(put, Len(put)) \in Nat /\ Bits(put, Len(put)) <= StreamByteBits * BufLen
    <3>1. Len(put) \in 0 .. Len(put)
      BY <1>2
    <3> QED
      BY <1>2, <3>1, BitsOfPuts DEF StreamInv
  <2>3. StreamByteBits * BufLen \in Nat
    BY FieldsAssumption
  <2> QED
    BY <1>2, <2>1, <2>2, <2>3
<1>5. ~Exceeds(width)
  BY <1>2, <1>3, <1>4, FitsInBuffer
<1>6. Field(width) = {x \in 0 .. width - 1 : BitSet(data, StreamPos + x)}
  BY <1>2, <1>3, <1>5, ReadsField
<1>7. \A x \in 0 .. width - 1 : BitSet(data, StreamPos + x) <=> x \in put[n].field
  BY <1>1, <1>2 DEF StreamInv
<1>8. Field(width) = put[n].field
  <2> HIDE DEF width, n
  <2> QED
    BY <1>3, <1>6, <1>7
<1> QED
  BY <1>3, <1>4, <1>5, <1>8

\* bs_read returns the next field that was put and goes on behind it.
LEMMA BsReadKeeps ==
  ASSUME StreamInv, bs_read
  PROVE  StreamInv'
<1> DEFINE n == Len(got) + 1
           width == put[n].width
<1>1. /\ mode = "read" /\ Len(got) < Len(put) /\ Advance(width) /\ got' = Append(got, Field(width))
      /\ mode' = mode /\ data' = data /\ put' = put /\ last' = last
  BY DEF bs_read
<1>2. /\ put[n] \in Puts /\ Field(width) = put[n].field /\ Bits(put, n) = StreamPos + width
  BY <1>1, NextIsRead
<1>3. width \in Nat \ {0} /\ put[n].field \in SUBSET Nat
  BY <1>2, FieldsAssumption DEF Puts
<1>4. Positioned' /\ StreamPos' = StreamPos + width
  BY <1>1, <1>3, Advances DEF StreamInv
<1>5. got \in Seq(SUBSET Nat) /\ put \in Seq(Puts)
  BY DEF StreamInv
<1> HIDE DEF width
<1>6. /\ got' \in Seq(SUBSET Nat) /\ Len(got') = n /\ Len(got') <= Len(put)
      /\ \A i \in DOMAIN got' : got'[i] = IF i = n THEN put[n].field ELSE got[i]
      /\ \A i \in DOMAIN got' : i # n => i \in DOMAIN got
  BY <1>1, <1>2, <1>3, <1>5
<1>7. \A i \in DOMAIN got' : got'[i] = put[i].field
  BY <1>6 DEF StreamInv
<1> QED
  BY <1>1, <1>2, <1>4, <1>6, <1>7 DEF StreamInv

(* Whatever the buffer and the fields: what bs_read of bitstream.c returns  *)
(* are the fields that bs_write was given, wherever in a byte they began    *)
(* and over however many they ran, and bs_finalize returns the last byte.   *)
THEOREM FieldsAreReadAgain == StreamSpec => []RoundTrip
<1>1. StreamInit => StreamInv
  BY StreamStarts
<1>2. ASSUME StreamInv, [StreamNext]_streamVars
      PROVE  StreamInv'
  <2>1. CASE UNCHANGED streamVars
    <3>1. Positioned' <=> Positioned
      BY <2>1 DEF streamVars, Positioned
    <3>2. StreamPos' = StreamPos
      BY <2>1 DEF streamVars, StreamPos
    <3> QED
      BY <1>2, <2>1, <3>1, <3>2 DEF streamVars, StreamInv
  <2>2. CASE \E width \in DOMAIN Fields : bs_write_refused(width)
    <3>1. UNCHANGED streamVars
      BY <2>2 DEF bs_write_refused
    <3> QED
      BY <2>1, <3>1
  <2>3. CASE \E width \in DOMAIN Fields : \E field \in Fields[width] : bs_write(width, field)
    BY <1>2, <2>3, BsWriteKeeps
  <2> QED
    BY <1>2, <2>1, <2>2, <2>3, BsInitKeeps, BsFinalizeKeeps, BsReadKeeps DEF StreamNext
<1>3. StreamInv => RoundTrip
  BY NextIsRead DEF StreamInv, RoundTrip
<1> QED
  BY <1>1, <1>2, <1>3, PTL DEF StreamSpec
=============================================================================
