----------------------------- MODULE XofProofs -----------------------------
(***************************************************************************)
(* The two builds of the XOF and hash states and what lies below the first *)
(* one, in four parts that do not depend on each other.                    *)
(*                                                                         *)
(* The buffered states keep the promise of XofStream: whatever the sizes,  *)
(* however the calls cut the stream and whichever call fails.              *)
(*                                                                         *)
(* The blocks that sm3_bit compresses are those of the padded message of   *)
(* the standard, whatever the widths of a byte, a word and a block.        *)
(*                                                                         *)
(* A call of sm3hash, pseudohash or pseudoXOF delivers the whole of the    *)
(* bits that are promised for its message, or an error and no bit.         *)
(*                                                                         *)
(* The incremental sponge of the SHA3 build gives out the bytes of the     *)
(* textbook sponge, whatever a byte and the permutation are: each loop is  *)
(* a function of how often its body was entered, and is followed to where  *)
(* it stays.                                                               *)
(***************************************************************************)
EXTENDS XofBuilds, NumberInduction, SequenceTheorems, TLAPS

CacheBytes == (Seq(Nat) \X Int \X Int) \cup {Zero}

XTypes ==
  /\ TypeOK
  /\ input \in Seq(Nat) /\ inputCapacity \in Sizes
  /\ cache \in Seq(CacheBytes) /\ offset \in Nat

\* Nothing is given out before the state is finalized, and a hash state has
\* no cache.
Order ==
  /\ ~finalized => given = <<>> /\ offset = 0
  /\ ~finalized \/ kind = "hash" => cache = <<>> /\ offset = 0

XInv == XTypes /\ Order /\ CacheIsStream /\ GivenIsOnce

-----------------------------------------------------------------------------
(* Sequences and sizes.                                                     *)

LEMMA NoBytes == <<>> \in Seq(Nat) /\ <<>> \in Seq(CacheBytes) /\ Len(<<>>) = 0
BY EmptySeq

LEMMA StreamIsSeq ==
  ASSUME NEW in \in Seq(Nat), NEW n \in Nat
  PROVE  /\ PseudoXof(in, n) \in Seq(CacheBytes) /\ Len(PseudoXof(in, n)) = n
         /\ \A i \in 1 .. n : PseudoXof(in, n)[i] = <<in, ((i - 1) \div Block) + 1, (i - 1) % Block>>
<1>1. \A i \in 1 .. n : <<in, ((i - 1) \div Block) + 1, (i - 1) % Block>> \in CacheBytes
  BY SizesAssumption DEF CacheBytes
<1>2. PseudoXof(in, n) \in [1 .. n -> CacheBytes]
  BY <1>1 DEF PseudoXof
<1> QED
  BY <1>2 DEF PseudoXof

\* The stream of n bytes is a prefix of every longer one.
LEMMA StreamPrefix ==
  ASSUME NEW in \in Seq(Nat), NEW n \in Nat, NEW i \in 1 .. n
  PROVE  PseudoXof(in, n)[i] = OnceByte(in, i)
<1> DEFINE byte == <<in, ((i - 1) \div Block) + 1, (i - 1) % Block>>
<1>1. i \in Nat /\ i \in 1 .. i
  OBVIOUS
<1>2. PseudoXof(in, n)[i] = byte
  BY StreamIsSeq
<1>3. PseudoXof(in, i)[i] = byte
  BY <1>1, StreamIsSeq
<1> QED
  BY <1>2, <1>3 DEF OnceByte

LEMMA StreamOfNothing ==
  ASSUME NEW in \in Seq(Nat)
  PROVE  PseudoXof(in, 0) = <<>>
<1>1. PseudoXof(in, 0) \in Seq(CacheBytes) /\ Len(PseudoXof(in, 0)) = 0
  BY StreamIsSeq
<1> QED
  BY <1>1, EmptySeq

\* A sum that was compared with the limit first does not wrap.
LEMMA NoWrap ==
  ASSUME NEW a \in Nat, NEW b \in Nat, b <= SizeMax - a
  PROVE  Plus(a, b) = a + b
<1>1. SizeMax \in Nat /\ a + b \in 0 .. SizeMax
  BY SizesAssumption
<1>2. ASSUME NEW m \in Nat, NEW x \in 0 .. m
      PROVE  x % (m + 1) = x
  OBVIOUS
<1> QED
  BY <1>1, <1>2 DEF Plus

LEMMA GrowsEnough ==
  ASSUME NEW c \in Sizes, NEW capacity \in Sizes, NEW required \in Nat,
         GrowsTo(c, capacity, required)
  PROVE  required <= c /\ (c = capacity \/ required > capacity)
BY SizesAssumption DEF GrowsTo, Sizes, Doublings

LEMMA ZeroFill ==
  ASSUME XTypes, NEW capacity \in Sizes, Len(cache) <= capacity
  PROVE  ZeroFilled(capacity) \in Seq(CacheBytes) /\ Len(ZeroFilled(capacity)) = capacity
<1> DEFINE more == [i \in 1 .. (capacity - Len(cache)) |-> Zero]
<1>1. Zero \in CacheBytes
  BY DEF CacheBytes
<1>2. capacity - Len(cache) \in Nat /\ capacity \in Nat /\ cache \in Seq(CacheBytes)
  <2>1. capacity \in Nat /\ cache \in Seq(CacheBytes)
    BY SizesAssumption DEF Sizes, XTypes
  <2>2. Len(cache) \in Nat
    BY <2>1, LenProperties, Zenon
  <2> QED
    BY <2>1, <2>2
<1> DEFINE missing == capacity - Len(cache)
<1>3. more \in Seq(CacheBytes) /\ Len(more) = missing
  <2>1. missing \in Nat
    BY <1>2
  <2>2. more \in [1 .. missing -> CacheBytes]
    BY <1>1
  <2> HIDE DEF missing, more
  <2> QED
    BY <2>1, <2>2
<1> HIDE DEF more
<1>4. cache \o more \in Seq(CacheBytes) /\ Len(cache \o more) = Len(cache) + Len(more)
  BY <1>2, <1>3, ConcatProperties
<1>5. ZeroFilled(capacity) = cache \o more
  BY DEF ZeroFilled, more
<1> QED
  BY <1>2, <1>3, <1>4, <1>5

-----------------------------------------------------------------------------
(* What squeezing n bytes from a filled cache yields.                       *)

LEMMA Delivery ==
  ASSUME XInv, kind = "xof", NEW n \in Nat, NEW capacity \in Nat, offset + n <= capacity
  PROVE  LET more == SubSeq(PseudoXof(input, capacity), offset + 1, offset + n)
         IN /\ more = [i \in 1 .. n |-> OnceByte(input, Len(given) + i)]
            /\ given \o more = PseudoXof(input, offset + n)
<1> DEFINE stream == PseudoXof(input, capacity)
           more == SubSeq(stream, offset + 1, offset + n)
           bytes == [i \in 1 .. n |-> OnceByte(input, Len(given) + i)]
           whole == PseudoXof(input, offset + n)
<1>1. input \in Seq(Nat) /\ offset \in Nat /\ given = PseudoXof(input, offset)
  BY DEF XInv, XTypes, GivenIsOnce
<1>2. Len(given) = offset /\ given \in Seq(CacheBytes)
  BY <1>1, StreamIsSeq
<1>3. stream \in Seq(CacheBytes) /\ Len(stream) = capacity
  BY <1>1, StreamIsSeq
<1>4. \A i \in 1 .. capacity : stream[i] = OnceByte(input, i)
  BY <1>1, StreamPrefix
<1> HIDE DEF stream
<1>5. more \in Seq(CacheBytes) /\ Len(more) = n /\ \A i \in 1 .. n : more[i] = stream[offset + i]
  BY <1>1, <1>3
<1>6. \A i \in 1 .. n : more[i] = OnceByte(input, Len(given) + i)
  BY <1>1, <1>2, <1>4, <1>5
<1> HIDE DEF more
<1>7. more = bytes
  BY <1>5, <1>6
<1>8. whole \in Seq(CacheBytes) /\ Len(whole) = offset + n
      /\ \A i \in 1 .. (offset + n) : whole[i] = OnceByte(input, i)
  <2>1. PICK m \in Nat : m = offset + n
    BY <1>1
  <2>2. PseudoXof(input, m) \in Seq(CacheBytes) /\ Len(PseudoXof(input, m)) = m
    BY <1>1, StreamIsSeq
  <2>3. \A i \in 1 .. m : PseudoXof(input, m)[i] = OnceByte(input, i)
    BY <1>1, StreamPrefix
  <2> QED
    BY <2>1, <2>2, <2>3, Zenon
<1>9. \A i \in 1 .. offset : given[i] = OnceByte(input, i)
  BY <1>1, StreamPrefix
<1> HIDE DEF whole
<1>0. offset \in Nat
  BY <1>1
<1>10. given \o more = whole
  <2>1. /\ given \o more \in Seq(CacheBytes) /\ Len(given \o more) = offset + n
        /\ \A i \in 1 .. offset + n :
             (given \o more)[i] = IF i <= offset THEN given[i] ELSE more[i - offset]
    <3>1. given \in Seq(CacheBytes) /\ more \in Seq(CacheBytes)
      BY <1>2, <1>5
    <3> QED
      BY <1>2, <1>5, <3>1, ConcatProperties, Zenon
  <2>2. ASSUME NEW i \in 1 .. (offset + n)
        PROVE  (given \o more)[i] = whole[i]
    <3>1. CASE i <= offset
      BY <1>0, <1>8, <1>9, <2>1, <3>1
    <3>2. CASE i > offset
      <4>1. i - offset \in 1 .. n /\ offset + (i - offset) = i
        BY <1>0, <3>2
      <4>2. (given \o more)[i] = more[i - offset]
        BY <1>0, <2>1, <3>2
      <4>3. more[i - offset] = OnceByte(input, i)
        BY <1>2, <1>6, <4>1
      <4> QED
        BY <1>8, <4>2, <4>3
    <3>3. i <= offset \/ i > offset
      BY <1>0
    <3> QED
      BY <3>1, <3>2, <3>3, Zenon
  <2> QED
    BY <1>8, <2>1, <2>2, SeqEqual
<1> QED
  BY <1>7, <1>10 DEF more, stream, whole

-----------------------------------------------------------------------------
(* XInv is inductive.                                                       *)

LEMMA XInit == Init => XInv
<1> SUFFICES ASSUME Init PROVE XInv
  OBVIOUS
<1>1. input = <<>> /\ inputCapacity = 0 /\ cache = <<>> /\ offset = 0 /\ given = <<>>
      /\ finalized = FALSE /\ failed = FALSE /\ result = 0 /\ kind \in {"xof", "hash"}
  BY DEF Init, BufferInit
<1>2. /\ Len(input) = 0 /\ Len(cache) = 0
      /\ input \in Seq(Nat) /\ cache \in Seq(CacheBytes)
  BY <1>1, NoBytes, Zenon
<1>4. XTypes /\ Order
  <2>1. Order
    BY <1>1, Zenon DEF Order
  <2>2. inputCapacity = 0 /\ offset = 0 /\ SizeMax \in Nat
    BY <1>1, SizesAssumption
  <2>3. kind \in {"xof", "hash"} /\ finalized \in BOOLEAN /\ failed \in BOOLEAN
        /\ result \in {0, -1}
    BY <1>1, Zenon
  <2>4. XTypes
    BY <1>2, <2>2, <2>3 DEF XTypes, TypeOK, Sizes
  <2> QED
    BY <2>1, <2>4
<1>3. CacheIsStream /\ GivenIsOnce
  BY <1>1, <1>2, StreamOfNothing DEF CacheIsStream, GivenIsOnce
<1> QED
  BY <1>3, <1>4 DEF XInv

\* A call that fails and is remembered, or is refused, leaves what was given.
LEMMA XUndisturbed ==
  ASSUME XInv, UNCHANGED <<kind, input, inputCapacity, finalized, given, offset, cache>>,
         failed' \in {failed, TRUE}, result' \in {0, -1}
  PROVE  XInv'
BY DEF XInv, XTypes, TypeOK, Order, CacheIsStream, GivenIsOnce

LEMMA XAbsorb ==
  ASSUME XInv, Absorbs, UNCHANGED <<cache, offset>>
  PROVE  XInv'
<1> PICK chunk \in Inputs : Absorb(chunk) \/ AbsorbFault(chunk)
  BY DEF Absorbs
<1>1. CASE Refused
  BY <1>1, XUndisturbed DEF Refused, XInv, XTypes, TypeOK
<1>2. CASE Broken
  BY <1>2, XUndisturbed DEF Broken
<1>3. CASE ~finalized /\ ~failed /\ Fits(chunk) /\ Absorb(chunk)
  <2>1. chunk \in Seq(Nat) /\ input \in Seq(Nat) /\ inputCapacity \in Sizes
    BY SizesAssumption DEF XInv, XTypes
  <2>2. /\ inputCapacity' \in Sizes
        /\ GrowsTo(inputCapacity', inputCapacity, Len(input) + Len(chunk))
        /\ input' = input \o chunk /\ result' = 0
        /\ UNCHANGED <<kind, finalized, failed, given>>
    <3>1. Len(chunk) \in Nat /\ Len(input) \in Nat
      BY <2>1
    <3>2. Plus(Len(input), Len(chunk)) = Len(input) + Len(chunk)
      BY <1>3, <3>1, NoWrap DEF Fits
    <3> QED
      BY <1>3, <3>2 DEF Absorb
  <2>3. input' \in Seq(Nat) /\ Len(input') = Len(input) + Len(chunk)
    BY <2>1, <2>2
  <2>4. Len(input') <= inputCapacity' /\ inputCapacity' <= SizeMax
    BY <2>1, <2>2, <2>3, GrowsEnough DEF Sizes
  <2>5. XTypes' /\ Order'
    BY <1>3, <2>2, <2>3, <2>4 DEF XInv, XTypes, TypeOK, Order
  <2>6. cache' = <<>> /\ offset' = 0 /\ given' = <<>>
    BY <1>3, <2>2 DEF XInv, Order
  <2>7. CacheIsStream' /\ GivenIsOnce'
    BY <2>3, <2>6, StreamOfNothing DEF CacheIsStream, GivenIsOnce
  <2> QED
    BY <2>5, <2>7 DEF XInv
<1> QED
  BY <1>1, <1>2, <1>3 DEF Absorb, AbsorbFault

LEMMA XFinalize ==
  ASSUME XInv, Finalize
  PROVE  XInv'
<1>1. CASE Refused /\ UNCHANGED <<cache, offset>>
  BY <1>1, XUndisturbed DEF Refused, XInv, XTypes, TypeOK
<1>2. CASE ~Refused
  <2>1. finalized' = TRUE /\ result' = 0 /\ kind = "xof"
        /\ UNCHANGED <<kind, input, inputCapacity, failed, given, cache, offset>>
    BY <1>2 DEF Finalize
  <2> QED
    BY <2>1 DEF XInv, XTypes, TypeOK, Order, CacheIsStream, GivenIsOnce
<1> QED
  BY <1>1, <1>2 DEF Finalize

\* A failing squeeze may have grown the cache, which is then not read again.
LEMMA XBroken ==
  ASSUME XInv, kind = "xof", finalized, Broken, UNCHANGED offset, NEW capacity \in Sizes,
         Len(cache) <= capacity, cache' \in {cache, ZeroFilled(capacity)}
  PROVE  XInv'
<1>1. Len(cache) \in Nat /\ capacity \in Nat /\ offset <= Len(cache) /\ capacity <= SizeMax
      /\ Len(cache) <= SizeMax /\ SizeMax \in Nat
  BY SizesAssumption DEF XInv, XTypes, TypeOK, Sizes
<1>2. cache' \in Seq(CacheBytes) /\ Len(cache') <= SizeMax /\ offset <= Len(cache')
  BY <1>1, ZeroFill DEF XInv, XTypes
<1>3. /\ failed' = TRUE /\ result' = -1
      /\ UNCHANGED <<kind, input, inputCapacity, finalized, given, offset>>
  BY DEF Broken
<1>4. XTypes'
  BY <1>2, <1>3 DEF XInv, XTypes, TypeOK
<1> QED
  BY <1>3, <1>4 DEF XInv, Order, CacheIsStream, GivenIsOnce

\* The stages of trine_xof_squeeze once it is asked for bytes.
Computes(n, capacity) ==
  /\ GrowsTo(capacity, Len(cache), offset + n)
  /\ Deliver(n, FilledTo(capacity))

GivesUp(n, capacity) ==
  /\ GrowsTo(capacity, Len(cache), offset + n)
  /\ Broken /\ cache' \in {cache, ZeroFilled(capacity)} /\ UNCHANGED offset

LEMMA CapacityFacts ==
  ASSUME XInv, NEW n \in Nat, NEW capacity \in Sizes,
         GrowsTo(capacity, Len(cache), offset + n)
  PROVE  /\ capacity \in Nat /\ offset + n <= capacity /\ Len(cache) <= capacity
         /\ ~failed => FilledTo(capacity) = PseudoXof(input, capacity)
<1>1. Len(cache) \in Sizes /\ offset \in Nat /\ capacity \in Nat /\ Len(cache) \in Nat
  BY SizesAssumption DEF XInv, XTypes, TypeOK, Sizes
<1>2. offset + n <= capacity /\ (capacity = Len(cache) \/ offset + n > Len(cache))
  BY <1>1, GrowsEnough
<1>3. ~failed => FilledTo(capacity) = PseudoXof(input, capacity)
  BY DEF FilledTo, XInv, CacheIsStream
<1> QED
  BY <1>1, <1>2, <1>3

LEMMA XComputes ==
  ASSUME XInv, kind = "xof", finalized, ~failed, NEW n \in Nat, NEW capacity \in Sizes,
         Computes(n, capacity)
  PROVE  XInv'
<1>1. input \in Seq(Nat) /\ offset \in Nat /\ SizeMax \in Nat
  BY SizesAssumption DEF XInv, XTypes
<1>2. capacity \in Nat /\ offset + n <= capacity /\ capacity <= SizeMax
      /\ FilledTo(capacity) = PseudoXof(input, capacity)
  BY CapacityFacts DEF Computes, Sizes
<1>3. /\ cache' = PseudoXof(input, capacity) /\ offset' = offset + n /\ result' = 0
      /\ given' = given \o SubSeq(PseudoXof(input, capacity), offset + 1, offset + n)
      /\ UNCHANGED <<kind, input, inputCapacity, finalized, failed>>
  BY <1>2 DEF Computes, Deliver
<1>4. cache' \in Seq(CacheBytes) /\ Len(cache') = capacity
  BY <1>1, <1>2, <1>3, StreamIsSeq
<1>5. GivenIsOnce'
  BY <1>2, <1>3, Delivery DEF GivenIsOnce
<1>6. CacheIsStream'
  BY <1>3, <1>4 DEF CacheIsStream
<1>7. XTypes'
  BY <1>1, <1>2, <1>3, <1>4 DEF XInv, XTypes, TypeOK
<1>8. Order'
  BY <1>3 DEF Order
<1> QED
  BY <1>5, <1>6, <1>7, <1>8 DEF XInv

\* Every way trine_xof_squeeze ends.
LEMMA SqueezeCases ==
  ASSUME XInv, NEW n \in Nat, Squeeze(n) \/ SqueezeFault(n)
  PROVE  /\ kind = "xof"
         /\ \/ Refused /\ UNCHANGED <<cache, offset>>
            \/ /\ finalized /\ n = 0 /\ result' = 0
               /\ UNCHANGED <<kind, input, inputCapacity, finalized, failed, given, cache, offset>>
            \/ finalized /\ ~failed /\ Broken /\ UNCHANGED <<cache, offset>>
            \/ finalized /\ ~failed /\ \E capacity \in Sizes :
                 Computes(n, capacity) \/ GivesUp(n, capacity)
<1>1. CASE Squeeze(n)
  <2>1. CASE ~finalized
    BY <1>1, <2>1 DEF Squeeze
  <2>2. CASE finalized /\ n = 0
    BY <1>1, <2>2 DEF Squeeze
  <2>3. CASE finalized /\ n # 0 /\ failed
    BY <1>1, <2>3 DEF Squeeze
  <2>4. CASE finalized /\ n # 0 /\ ~failed /\ n > SizeMax - offset
    BY <1>1, <2>4 DEF Squeeze
  <2>5. CASE finalized /\ n # 0 /\ ~failed /\ ~(n > SizeMax - offset)
    <3>1. PICK capacity \in Sizes :
            /\ GrowsTo(capacity, Len(cache), offset + n)
            /\ IF capacity = Len(cache) \/ (Countable(capacity) /\ Countable(Len(input)))
                 THEN Deliver(n, FilledTo(capacity))
                 ELSE Broken /\ cache' = ZeroFilled(capacity) /\ UNCHANGED offset
      <4>1. Plus(offset, n) = offset + n
        BY <2>5, NoWrap, SizesAssumption DEF XInv, XTypes
      <4> QED
        BY <1>1, <2>5, <4>1 DEF Squeeze
    <3>2. Computes(n, capacity) \/ GivesUp(n, capacity)
      BY <3>1 DEF Computes, GivesUp
    <3> QED
      BY <1>1, <2>5, <3>2 DEF Squeeze
  <2> QED
    BY <2>1, <2>2, <2>3, <2>4, <2>5
<1>2. CASE SqueezeFault(n)
  <2>1. offset \in Nat /\ n <= SizeMax - offset
    BY <1>2 DEF SqueezeFault, XInv, XTypes
  <2>2. Plus(offset, n) = offset + n
    BY <2>1, NoWrap
  <2> QED
    BY <1>2, <2>2 DEF SqueezeFault, GivesUp
<1> QED
  BY <1>1, <1>2

LEMMA XSqueeze ==
  ASSUME XInv, NEW n \in Nat, Squeeze(n) \/ SqueezeFault(n)
  PROVE  XInv'
<1>1. CASE Refused /\ UNCHANGED <<cache, offset>>
  BY <1>1, XUndisturbed DEF Refused, XInv, XTypes, TypeOK
<1>2. CASE result' = 0 /\ UNCHANGED <<kind, input, inputCapacity, finalized, failed, given, cache, offset>>
  BY <1>2, XUndisturbed DEF XInv, XTypes, TypeOK
<1>3. CASE Broken /\ UNCHANGED <<cache, offset>>
  BY <1>3, XUndisturbed DEF Broken
<1>4. ASSUME finalized, ~failed, kind = "xof", NEW capacity \in Sizes,
             Computes(n, capacity) \/ GivesUp(n, capacity)
      PROVE  XInv'
  <2>1. CASE Computes(n, capacity)
    BY <1>4, <2>1, XComputes
  <2>2. CASE GivesUp(n, capacity)
    <3>1. Len(cache) <= capacity
      BY <2>2, CapacityFacts DEF GivesUp
    <3> QED
      BY <1>4, <2>2, <3>1, XBroken DEF GivesUp
  <2> QED
    BY <1>4, <2>1, <2>2
<1> QED
  BY <1>1, <1>2, <1>3, <1>4, SqueezeCases

LEMMA XHash ==
  ASSUME XInv, NEW n \in Nat, HashFinalize(n) \/ HashFault(n)
  PROVE  XInv'
<1>1. CASE Refused /\ UNCHANGED <<cache, offset>>
  BY <1>1, XUndisturbed DEF Refused, XInv, XTypes, TypeOK
<1>2. CASE Broken /\ UNCHANGED <<cache, offset>>
  BY <1>2, XUndisturbed DEF Broken
<1>3. CASE ~Refused /\ ~Broken
  <2>1. finalized' = TRUE /\ result' = 0 /\ kind = "hash"
        /\ UNCHANGED <<kind, input, inputCapacity, failed, cache, offset>>
    BY <1>3 DEF HashFinalize, HashFault
  <2> QED
    BY <2>1 DEF XInv, XTypes, TypeOK, Order, CacheIsStream, GivenIsOnce
<1> QED
  BY <1>1, <1>2, <1>3 DEF HashFinalize, HashFault

LEMMA XRelease ==
  ASSUME Release
  PROVE  XInv'
<1>1. input' = <<>> /\ inputCapacity' = 0 /\ cache' = <<>> /\ offset' = 0 /\ given' = <<>>
      /\ finalized' = FALSE /\ failed' = FALSE /\ result' = 0 /\ kind' \in {"xof", "hash"}
  BY DEF Release
<1>2. /\ Len(input') = 0 /\ Len(cache') = 0
      /\ input' \in Seq(Nat) /\ cache' \in Seq(CacheBytes)
  BY <1>1, NoBytes, Zenon
<1>4. XTypes' /\ Order'
  <2>1. Order'
    BY <1>1, Zenon DEF Order
  <2>2. inputCapacity' = 0 /\ offset' = 0 /\ SizeMax \in Nat
    BY <1>1, SizesAssumption
  <2>3. kind' \in {"xof", "hash"} /\ finalized' \in BOOLEAN /\ failed' \in BOOLEAN
        /\ result' \in {0, -1}
    BY <1>1, Zenon
  <2>4. XTypes'
    BY <1>2, <2>2, <2>3 DEF XTypes, TypeOK, Sizes
  <2> QED
    BY <2>1, <2>4
<1>3. CacheIsStream' /\ GivenIsOnce'
  BY <1>1, <1>2, StreamOfNothing DEF CacheIsStream, GivenIsOnce
<1> QED
  BY <1>3, <1>4 DEF XInv

LEMMA XStep == XInv /\ [Next]_vars => XInv'
<1> SUFFICES ASSUME XInv, [Next]_vars PROVE XInv'
  OBVIOUS
<1>1. \A n \in Lengths : n \in Nat
  BY SizesAssumption
<1>2. CASE UNCHANGED vars
  BY <1>2, XUndisturbed DEF vars, bufferVars, XInv, XTypes, TypeOK
<1>3. CASE Next
  BY <1>1, <1>3, XAbsorb, XFinalize, XSqueeze, XHash, XRelease DEF Next
<1> QED
  BY <1>2, <1>3

LEMMA XInvariant == Spec => []XInv
BY XInit, XStep, PTL DEF Spec

\* Every buffer stays within the size its counter gives, for all sizes.
THEOREM XofTypeCorrect == Spec => []TypeOK
<1>1. XInv => TypeOK
  BY DEF XInv, XTypes
<1> QED
  BY <1>1, XInvariant, PTL

\* Whatever a caller has received is a prefix of what the one-shot function
\* gives for the whole input, and the cache of a state that has not failed is
\* such a prefix too.
THEOREM SqueezedIsOnce == Spec => [](CacheIsStream /\ GivenIsOnce)
<1>1. XInv => CacheIsStream /\ GivenIsOnce
  BY DEF XInv
<1> QED
  BY <1>1, XInvariant, PTL

-----------------------------------------------------------------------------
(* Refinement.                                                              *)

LEMMA StreamInit == Init => Stream!Init
BY DEF Init, BufferInit, Stream!Init, Phase

LEMMA MapsRefused ==
  ASSUME Refused
  PROVE  Stream!Next
<1>1. Stream!Refuse
  BY DEF Refused, Stream!Refuse, Phase
<1> QED
  BY <1>1 DEF Stream!Next

LEMMA MapsBroken ==
  ASSUME Broken
  PROVE  Stream!Next
<1>1. Stream!Break
  BY DEF Broken, Stream!Break, Phase
<1> QED
  BY <1>1 DEF Stream!Next

LEMMA MapsAbsorb ==
  ASSUME Absorbs
  PROVE  Stream!Next
<1> PICK chunk \in Inputs : Absorb(chunk) \/ AbsorbFault(chunk)
  BY DEF Absorbs
<1>1. CASE Refused \/ Broken
  BY <1>1, MapsRefused, MapsBroken
<1>2. CASE ~finalized /\ ~failed /\ ~Broken
  <2>1. Stream!Absorb(chunk)
    BY <1>2 DEF Absorb, AbsorbFault, Stream!Absorb, Phase
  <2> QED
    BY <2>1 DEF Stream!Next
<1> QED
  BY <1>1, <1>2 DEF Absorb, AbsorbFault

LEMMA MapsFinalize ==
  ASSUME Finalize
  PROVE  Stream!Next
<1>1. CASE Refused
  BY <1>1, MapsRefused
<1>2. CASE ~Refused
  <2>1. Stream!Finalize
    BY <1>2 DEF Finalize, Stream!Finalize, Phase
  <2> QED
    BY <2>1 DEF Stream!Next
<1> QED
  BY <1>1, <1>2

LEMMA MapsSqueeze ==
  ASSUME XInv, NEW n \in Lengths, Squeeze(n) \/ SqueezeFault(n)
  PROVE  Stream!Next
<1>0. n \in Nat
  BY SizesAssumption
<1>1. CASE Refused \/ Broken
  BY <1>1, MapsRefused, MapsBroken
<1>2. CASE /\ finalized /\ n = 0 /\ result' = 0 /\ kind = "xof"
           /\ UNCHANGED <<kind, input, inputCapacity, finalized, failed, given, cache, offset>>
  <2>1. CASE failed
    <3>1. Stream!SqueezeNothing
      BY <1>2, <2>1 DEF Stream!SqueezeNothing, Phase
    <3> QED
      BY <3>1 DEF Stream!Next
  <2>2. CASE ~failed
    <3> DEFINE nothing == [i \in 1 .. 0 |-> OnceByte(input, Len(given) + i)]
    <3>1. nothing = <<>>
      OBVIOUS
    <3>2. given \in Seq(CacheBytes)
      BY <1>2, StreamIsSeq DEF XInv, XTypes, GivenIsOnce
    <3>3. given \o nothing = given
      BY <3>1, <3>2, ConcatEmptySeq
    <3>4. Phase = "squeezing" /\ Phase' = Phase
      BY <1>2, <2>2 DEF Phase
    <3>5. Stream!Squeeze(0)
      BY <1>2, <3>3, <3>4 DEF Stream!Squeeze
    <3> QED
      BY <1>2, <3>5 DEF Stream!Next
  <2> QED
    BY <2>1, <2>2
<1>3. ASSUME finalized, ~failed, kind = "xof", NEW capacity \in Sizes, Computes(n, capacity)
      PROVE  Stream!Next
  <2>1. capacity \in Nat /\ offset + n <= capacity
        /\ FilledTo(capacity) = PseudoXof(input, capacity)
    BY <1>0, <1>3, CapacityFacts DEF Computes
  <2>2. /\ given' = given \o SubSeq(PseudoXof(input, capacity), offset + 1, offset + n)
        /\ result' = 0 /\ UNCHANGED <<kind, input, finalized, failed>>
    BY <1>3, <2>1 DEF Computes, Deliver
  <2>3. given' = given \o [i \in 1 .. n |-> OnceByte(input, Len(given) + i)]
    BY <1>0, <1>3, <2>1, <2>2, Delivery
  <2>4. Phase = "squeezing" /\ Phase' = Phase
    BY <1>3, <2>2 DEF Phase
  <2>5. Stream!Squeeze(n)
    BY <2>2, <2>3, <2>4 DEF Stream!Squeeze
  <2> QED
    BY <2>5 DEF Stream!Next
<1>4. ASSUME NEW capacity \in Sizes, GivesUp(n, capacity)
      PROVE  Stream!Next
  BY <1>4, MapsBroken DEF GivesUp
<1> QED
  BY <1>0, <1>1, <1>2, <1>3, <1>4, SqueezeCases

LEMMA MapsHash ==
  ASSUME NEW n \in Lengths, HashFinalize(n) \/ HashFault(n)
  PROVE  Stream!Next
<1>1. CASE Refused \/ Broken
  BY <1>1, MapsRefused, MapsBroken
<1>2. CASE ~Refused /\ ~Broken
  <2>1. /\ kind = "hash" /\ ~finalized /\ ~failed /\ given' = PseudoHash(input, n)
        /\ finalized' = TRUE /\ result' = 0 /\ UNCHANGED <<kind, input, failed>>
    BY <1>2 DEF HashFinalize, HashFault
  <2>2. given' = [i \in 1 .. n |-> HashByte(input, n, i)]
    BY <2>1 DEF PseudoHash, HashByte
  <2>3. Stream!Digest(n)
    BY <2>1, <2>2 DEF Stream!Digest, Phase
  <2> QED
    BY <2>3 DEF Stream!Next
<1> QED
  BY <1>1, <1>2

LEMMA MapsRelease ==
  ASSUME Release
  PROVE  Stream!Next
<1>1. Stream!Release
  BY DEF Release, Stream!Release, Phase
<1> QED
  BY <1>1 DEF Stream!Next

LEMMA StreamStep == XInv /\ [Next]_vars => [Stream!Next]_(Stream!vars)
<1> SUFFICES ASSUME XInv, [Next]_vars PROVE [Stream!Next]_(Stream!vars)
  OBVIOUS
<1>1. CASE UNCHANGED vars
  BY <1>1 DEF vars, bufferVars, Stream!vars, Phase
<1>2. CASE Next
  BY <1>2, MapsAbsorb, MapsFinalize, MapsSqueeze, MapsHash, MapsRelease DEF Next
<1> QED
  BY <1>1, <1>2

\* The buffered, cached states of the SM3 build implement the abstract stream,
\* failing calls included.
THEOREM CachedImplementsStream == Spec => ImplementsStream
BY StreamInit, StreamStep, XInvariant, PTL DEF Spec, Stream!Spec, ImplementsStream

-----------------------------------------------------------------------------
(* The padding and the hashes of iccs/auxfunc.c: sequences.                 *)

E == INSTANCE SequencesExt

\* Both clauses of the definition of FlattenSeq.
LEMMA FlattenSteps ==
  ASSUME NEW seqs, NEW n \in Nat \ {0}, Len(seqs) = n
  PROVE  \E f : /\ E!FlattenSeq(seqs) = f[n] /\ f[1] = seqs[1]
                /\ \A k \in 2 .. n : f[k] = f[k - 1] \o seqs[k]
<1> DEFINE Runs(g, m) == g = [i \in 1 .. m |-> IF i = 1 THEN seqs[i] ELSE g[i - 1] \o seqs[i]]
           h == CHOOSE g : Runs(g, n)
<1>1. ASSUME NEW m \in Nat, NEW g, Runs(g, m), NEW i \in 1 .. m
      PROVE  g[i] = IF i = 1 THEN seqs[i] ELSE g[i - 1] \o seqs[i]
  <2> DEFINE e == [j \in 1 .. m |-> IF j = 1 THEN seqs[j] ELSE g[j - 1] \o seqs[j]]
  <2>1. e[i] = IF i = 1 THEN seqs[i] ELSE g[i - 1] \o seqs[i]
    OBVIOUS
  <2>2. g = e
    BY <1>1, Zenon
  <2> QED
    BY <2>1, <2>2, Zenon
<1>2. \A m \in Nat : \E g : Runs(g, m)
  <2> DEFINE S == {m \in Nat : \E g : Runs(g, m)}
  <2>1. 0 \in S
    <3> DEFINE g == [i \in 1 .. 0 |-> seqs[i]]
    <3>1. Runs(g, 0)
      OBVIOUS
    <3> QED
      BY <3>1
  <2>2. ASSUME NEW m \in Nat, m \in S
        PROVE  m + 1 \in S
    <3>1. PICK g : Runs(g, m)
      BY <2>2
    <3> DEFINE e == [i \in 1 .. m + 1 |-> IF i = m + 1
                       THEN IF i = 1 THEN seqs[i] ELSE g[i - 1] \o seqs[i] ELSE g[i]]
    <3>2. ASSUME NEW i \in 1 .. m + 1
          PROVE  e[i] = IF i = 1 THEN seqs[i] ELSE e[i - 1] \o seqs[i]
      <4>1. CASE i = m + 1
        <5>1. i # 1 => i - 1 \in 1 .. m + 1 /\ i - 1 # m + 1
          BY <4>1
        <5> QED
          BY <4>1, <5>1
      <4>2. CASE i # m + 1
        <5>1. i \in 1 .. m /\ (i # 1 => i - 1 \in 1 .. m + 1 /\ i - 1 # m + 1)
          BY <4>2
        <5>2. e[i] = g[i] /\ (i # 1 => e[i - 1] = g[i - 1])
          BY <4>2, <5>1
        <5> HIDE DEF e, Runs
        <5> QED
          BY <1>1, <3>1, <5>1, <5>2
      <4> QED
        BY <4>1, <4>2
    <3>3. Runs(e, m + 1)
      <4>1. e = [i \in 1 .. m + 1 |-> e[i]]
        OBVIOUS
      <4> HIDE DEF e
      <4> QED
        BY <3>2, <4>1
    <3> HIDE DEF Runs, e
    <3> QED
      BY <3>3
  <2> HIDE DEF S
  <2>3. \A m \in Nat : m \in S
    BY <2>1, <2>2, NumbersByInduction
  <2> QED
    BY <2>3 DEF S
<1>3. Runs(h, n)
  <2> HIDE DEF Runs
  <2> QED
    BY <1>2
<1>4. E!FlattenSeq(seqs) = h[n]
  BY Zenon DEF E!FlattenSeq
<1> HIDE DEF h
<1>5. h[1] = seqs[1]
  <2>1. 1 \in 1 .. n
    OBVIOUS
  <2> QED
    BY <1>1, <1>3, <2>1
<1>6. ASSUME NEW k \in 2 .. n
      PROVE  h[k] = h[k - 1] \o seqs[k]
  <2>1. k \in 1 .. n /\ k # 1
    OBVIOUS
  <2> QED
    BY <1>1, <1>3, <2>1
<1> QED
  BY <1>4, <1>5, <1>6

\* Sequences with the same elements.
LEMMA SameElements ==
  ASSUME NEW A, NEW s \in Seq(A), NEW t \in Seq(A), Len(s) = Len(t),
         \A k \in 1 .. Len(s) : s[k] = t[k]
  PROVE  s = t
OBVIOUS

LEMMA Concatenated ==
  ASSUME NEW A, NEW s \in Seq(A), NEW t \in Seq(A)
  PROVE  /\ s \o t \in Seq(A) /\ Len(s \o t) = Len(s) + Len(t)
         /\ \A k \in 1 .. Len(s) : (s \o t)[k] = s[k]
         /\ \A k \in 1 .. Len(t) : (s \o t)[Len(s) + k] = t[k]
OBVIOUS

LEMMA Concat ==
  ASSUME NEW A, NEW s \in Seq(A), NEW t \in Seq(A), NEW m, Len(s) = m, NEW n, Len(t) = n
  PROVE  /\ s \o t \in Seq(A) /\ Len(s \o t) = m + n
         /\ \A k \in 1 .. m : (s \o t)[k] = s[k]
         /\ \A k \in 1 .. n : (s \o t)[m + k] = t[k]
OBVIOUS

LEMMA Sub ==
  ASSUME NEW A, NEW s \in Seq(A), NEW m \in Nat, NEW n \in m .. Len(s)
  PROVE  /\ SubSeq(s, m + 1, n) \in Seq(A) /\ Len(SubSeq(s, m + 1, n)) = n - m
         /\ \A k \in 1 .. n - m : SubSeq(s, m + 1, n)[k] = s[m + k]
OBVIOUS

-----------------------------------------------------------------------------
(* sm3_bit: the blocks of a string.                                         *)

LEMMA SameFlatten ==
  ASSUME NEW s PROVE P!FlattenSeq(s) = E!FlattenSeq(s)
BY Zenon DEF P!FlattenSeq, E!FlattenSeq

\* A sequence is a part of a string, so many elements from one on.
IsPart(s, T, g, from, n) == s \in Seq(T) /\ Len(s) = n /\ \A i \in 1 .. n : s[i] = g[from + i]

LEMMA PartsJoin ==
  ASSUME NEW T, NEW g, NEW base \in Nat, NEW size \in Nat, NEW front, NEW back, NEW all,
         IsPart(front, T, g, 0, base), IsPart(back, T, g, base, size),
         IsPart(all, T, g, 0, base + size)
  PROVE  front \o back = all
<1> DEFINE joined == front \o back
<1>0. front \in Seq(T) /\ back \in Seq(T)
  BY Zenon DEF IsPart
<1>1. Len(front) = base /\ Len(back) = size
  BY Zenon DEF IsPart
<1>2. /\ joined \in Seq(T) /\ Len(joined) = Len(front) + Len(back)
      /\ \A i \in 1 .. Len(front) : joined[i] = front[i]
      /\ \A i \in 1 .. Len(back) : joined[Len(front) + i] = back[i]
  BY <1>0, Concatenated
<1> HIDE DEF joined
<1>3. /\ Len(joined) = base + size
      /\ \A i \in 1 .. base : joined[i] = front[i]
      /\ \A i \in 1 .. size : joined[base + i] = back[i]
  BY <1>1, <1>2, Zenon
<1>4. ASSUME NEW i \in 1 .. base + size
      PROVE  joined[i] = all[i]
  <2>0. all[i] = g[0 + i] /\ 0 + i = i
    BY DEF IsPart
  <2>1. CASE i <= base
    <3>1. i \in 1 .. base
      BY <2>1
    <3>2. joined[i] = front[i] /\ front[i] = g[0 + i]
      BY <1>3, <3>1, Zenon DEF IsPart
    <3> QED
      BY <2>0, <3>2, Zenon
  <2>2. CASE i > base
    <3>1. i - base \in 1 .. size /\ base + (i - base) = i
      BY <2>2
    <3>2. joined[base + (i - base)] = back[i - base] /\ back[i - base] = g[base + (i - base)]
      BY <1>3, <3>1, Zenon DEF IsPart
    <3> QED
      BY <2>0, <3>1, <3>2, Zenon
  <2> QED
    BY <2>1, <2>2
<1>5. all \in Seq(T) /\ Len(all) = base + size
  BY Zenon DEF IsPart
<1> QED
  BY <1>2, <1>3, <1>4, <1>5, SameElements DEF joined

\* Blocks of a string, one behind the other, are the string.
InBlocks(g, n, size) == [k \in 1 .. n |-> [i \in 1 .. size |-> g[(k - 1) * size + i]]]
LEMMA BlocksFlatten ==
  ASSUME NEW n \in Nat \ {0}, NEW size \in Nat \ {0}, NEW g,
         \A j \in 1 .. n * size : g[j] \in Int
  PROVE  E!FlattenSeq(InBlocks(g, n, size)) = [j \in 1 .. n * size |-> g[j]]
<1> DEFINE part(k) == [i \in 1 .. size |-> g[(k - 1) * size + i]]
           seqs == [k \in 1 .. n |-> part(k)]
           first(m) == [j \in 1 .. m * size |-> g[j]]
<1>0. \A m \in Nat : m * size \in Nat /\ (m + 1) * size = m * size + size
  OBVIOUS
<1>1. Len(seqs) = n /\ \A k \in 1 .. n : seqs[k] = part(k)
  OBVIOUS
<1>2. ASSUME NEW m \in Nat, NEW k \in Nat, m <= k
      PROVE  m * size <= k * size
  <2>1. PICK e \in Nat : k = m + e
    <3>1. k - m \in Nat /\ k = m + (k - m)
      BY <1>2
    <3> QED
      BY <3>1
  <2>2. (m + e) * size = m * size + e * size /\ e * size \in Nat /\ m * size \in Nat
    OBVIOUS
  <2> QED
    BY <2>1, <2>2
<1>3. ASSUME NEW m \in Nat, m + 1 <= n
      PROVE  /\ m * size + size <= n * size
             /\ part(m + 1) \in Seq(Int) /\ Len(part(m + 1)) = size
             /\ \A i \in 1 .. size : part(m + 1)[i] = g[m * size + i]
             /\ first(m) \in Seq(Int) /\ Len(first(m)) = m * size
             /\ \A i \in 1 .. m * size : first(m)[i] = g[i]
             /\ first(m + 1) \in Seq(Int) /\ Len(first(m + 1)) = m * size + size
             /\ \A i \in 1 .. m * size + size : first(m + 1)[i] = g[i]
  <2>1. (m + 1) * size <= n * size /\ (m + 1) * size = m * size + size
        /\ m * size \in Nat /\ (m + 1) - 1 = m /\ n * size \in Nat
    BY <1>0, <1>2, <1>3
  <2> DEFINE base == m * size
             all == n * size
             next == (m + 1) * size
  <2>2. base \in Nat /\ all \in Nat /\ base + size <= all /\ next = base + size
    BY <2>1
  <2>3. part(m + 1) = [i \in 1 .. size |-> g[base + i]]
    BY <2>1
  <2>4. first(m) = [j \in 1 .. base |-> g[j]] /\ first(m + 1) = [j \in 1 .. base + size |-> g[j]]
    BY <2>2
  <2>5. \A j \in 1 .. all : g[j] \in Int
    OBVIOUS
  <2> HIDE DEF base, all, next, part, first
  <2>6. part(m + 1) \in Seq(Int) /\ Len(part(m + 1)) = size
        /\ \A i \in 1 .. size : part(m + 1)[i] = g[base + i]
    <3>1. \A i \in 1 .. size : base + i \in 1 .. all
      BY <2>2
    <3> QED
      BY <2>3, <2>5, <3>1
  <2>7. first(m) \in Seq(Int) /\ Len(first(m)) = base /\ \A i \in 1 .. base : first(m)[i] = g[i]
    <3>1. \A i \in 1 .. base : i \in 1 .. all
      BY <2>2
    <3> QED
      BY <2>2, <2>4, <2>5, <3>1
  <2>8. first(m + 1) \in Seq(Int) /\ Len(first(m + 1)) = base + size
        /\ \A i \in 1 .. base + size : first(m + 1)[i] = g[i]
    <3>1. \A i \in 1 .. base + size : i \in 1 .. all
      BY <2>2
    <3> QED
      BY <2>2, <2>4, <2>5, <3>1
  <2> QED
    BY <2>2, <2>6, <2>7, <2>8 DEF base, all
<1>4. PICK f : /\ E!FlattenSeq(seqs) = f[n] /\ f[1] = seqs[1]
               /\ \A k \in 2 .. n : f[k] = f[k - 1] \o seqs[k]
  <2> HIDE DEF seqs
  <2> QED
    BY <1>1, FlattenSteps
<1> HIDE DEF seqs
<1> DEFINE S == {m \in Nat : m + 1 <= n => f[m + 1] = first(m + 1)}
<1>5. 0 \in S
  <2>1. 0 \in Nat /\ 0 + 1 <= n /\ 0 + 1 = 1 /\ 0 * size = 0 /\ 1 \in 1 .. n
    OBVIOUS
  <2>2. /\ part(1) \in Seq(Int) /\ Len(part(1)) = size
        /\ \A i \in 1 .. size : part(1)[i] = g[i]
        /\ first(1) \in Seq(Int) /\ Len(first(1)) = size
        /\ \A i \in 1 .. size : first(1)[i] = g[i]
    <3> HIDE DEF part, first
    <3>1. PICK m \in Nat : m = 0
      OBVIOUS
    <3>2. m + 1 <= n
      BY <3>1
    <3>3. /\ part(m + 1) \in Seq(Int) /\ Len(part(m + 1)) = size
          /\ \A i \in 1 .. size : part(m + 1)[i] = g[m * size + i]
          /\ first(m + 1) \in Seq(Int) /\ Len(first(m + 1)) = m * size + size
          /\ \A i \in 1 .. m * size + size : first(m + 1)[i] = g[i]
      BY <1>3, <3>2
    <3>4. m + 1 = 1 /\ m * size + size = size /\ \A i \in 1 .. size : m * size + i = i
      BY <3>1
    <3> QED
      BY <3>3, <3>4
  <2> HIDE DEF part, first
  <2>3. part(1) = first(1)
    BY <2>2, SameElements
  <2> QED
    BY <1>1, <1>4, <2>1, <2>3
<1>6. ASSUME NEW m \in Nat, m \in S
      PROVE  m + 1 \in S
  <2> SUFFICES ASSUME (m + 1) + 1 <= n PROVE f[(m + 1) + 1] = first((m + 1) + 1)
    OBVIOUS
  <2>1. f[m + 1] = first(m + 1)
    BY <1>6
  <2> DEFINE k == m + 1
  <2>2. k \in Nat /\ k + 1 <= n /\ k + 1 \in 2 .. n /\ (k + 1) - 1 = k /\ k + 1 \in 1 .. n
    OBVIOUS
  <2> HIDE DEF k, S, part, first
  <2>3. f[k + 1] = first(k) \o part(k + 1)
    BY <1>1, <1>4, <2>1, <2>2 DEF k
  <2>4. /\ part(k + 1) \in Seq(Int) /\ Len(part(k + 1)) = size
        /\ \A i \in 1 .. size : part(k + 1)[i] = g[k * size + i]
        /\ first(k) \in Seq(Int) /\ Len(first(k)) = k * size
        /\ \A i \in 1 .. k * size : first(k)[i] = g[i]
        /\ first(k + 1) \in Seq(Int) /\ Len(first(k + 1)) = k * size + size
        /\ \A i \in 1 .. k * size + size : first(k + 1)[i] = g[i]
    BY <1>3, <2>2
  <2>5. first(k) \o part(k + 1) = first(k + 1)
    <3>1. PICK base \in Nat : base = k * size
      BY <1>0, <2>2
    <3>2. PICK front, back, all : front = first(k) /\ back = part(k + 1) /\ all = first(k + 1)
      OBVIOUS
    <3>3. IsPart(back, Int, g, base, size)
      BY <2>4, <3>1, <3>2 DEF IsPart
    <3>4. IsPart(front, Int, g, 0, base)
      <4>1. front \in Seq(Int) /\ Len(front) = base /\ \A i \in 1 .. base : front[i] = g[i]
        BY <2>4, <3>1, <3>2
      <4>2. \A i \in 1 .. base : 0 + i = i
        BY <3>1
      <4> QED
        BY <4>1, <4>2 DEF IsPart
    <3>5. IsPart(all, Int, g, 0, base + size)
      <4>1. all \in Seq(Int) /\ Len(all) = base + size /\ \A i \in 1 .. base + size : all[i] = g[i]
        BY <2>4, <3>1, <3>2
      <4>2. \A i \in 1 .. base + size : 0 + i = i
        BY <3>1
      <4> QED
        BY <4>1, <4>2 DEF IsPart
    <3>6. front \o back = all
      BY <3>3, <3>4, <3>5, PartsJoin
    <3> QED
      BY <3>2, <3>6
  <2> QED
    BY <2>3, <2>5 DEF k
<1>7. n - 1 \in S
  <2>1. n - 1 \in Nat
    OBVIOUS
  <2> HIDE DEF S
  <2> QED
    BY <1>5, <1>6, <2>1, NumbersByInduction
<1>8. f[n] = first(n)
  <2>1. (n - 1) + 1 = n
    OBVIOUS
  <2> HIDE DEF first
  <2> QED
    BY <1>7, <2>1
<1>9. InBlocks(g, n, size) = seqs
  BY DEF InBlocks, seqs
<1> HIDE DEF first
<1>10. E!FlattenSeq(InBlocks(g, n, size)) = first(n)
  BY <1>4, <1>8, <1>9, Zenon
<1> QED
  BY <1>10 DEF first

-----------------------------------------------------------------------------
\* Multiples of a number that are less than it apart are the same.
LEMMA CloseMultiples ==
  ASSUME NEW d \in Nat \ {0}, NEW a \in Nat, NEW b \in Nat,
         a * d - b * d < d, b * d - a * d < d
  PROVE  a = b
<1>1. ASSUME NEW x \in Nat, NEW y \in Nat, x > y
      PROVE  x * d - y * d >= d
  <2>1. PICK e \in Nat : x = y + 1 + e
    <3>1. x - y - 1 \in Nat /\ x = y + 1 + (x - y - 1)
      BY <1>1
    <3> QED
      BY <3>1
  <2>2. (y + 1 + e) * d = y * d + d + e * d /\ e * d \in Nat /\ y * d \in Nat
    OBVIOUS
  <2> QED
    BY <2>1, <2>2
<1>2. a * d \in Nat /\ b * d \in Nat
  OBVIOUS
<1>3. ~(a > b) /\ ~(b > a)
  BY <1>1, <1>2
<1> QED
  BY <1>3

LEMMA Remainders ==
  ASSUME NEW v \in Nat, NEW d \in Nat \ {0}
  PROVE  /\ v \div d \in Nat /\ v % d \in Nat /\ v % d < d
         /\ (v \div d) * d \in Nat /\ v = (v \div d) * d + (v % d)
<1>1. PICK low, high : low = v % d /\ high = v \div d
  OBVIOUS
<1>2. low \in Nat /\ low < d /\ high \in Nat /\ v = low + d * high
  BY <1>1
<1>3. d * high = high * d /\ high * d \in Nat
  BY <1>2
<1>4. low \in Nat /\ low < d /\ high \in Nat /\ v = high * d + low
  BY <1>2, <1>3
<1> QED
  BY <1>1, <1>3, <1>4

LEMMA MultipleRemains ==
  ASSUME NEW n \in Nat, NEW low \in Nat, NEW d \in Nat \ {0}, low < d
  PROVE  (n * d + low) % d = low /\ (n * d + low) \div d = n
<1>1. n * d + low = low + d * n
  OBVIOUS
<1> QED
  BY <1>1, Divides

-----------------------------------------------------------------------------
(* The standard's padding, bit by bit.                                      *)

\* The blocks the message fills, those of the padded message, where the length
\* is in it, and its bits.
WholeBlocks(bitlen) == bitlen \div BlockBits
PadBlocks(bitlen) ==
  WholeBlocks(bitlen) + IF bitlen % BlockBits <= BlockBits - 2 * WordBits - 1 THEN 1 ELSE 2
LengthAt(bitlen) == PadBlocks(bitlen) * BlockBits - 2 * WordBits
PadBit(bitlen, j) ==
  IF j <= bitlen THEN j + 1 ELSE IF j = bitlen + 1 THEN 1
  ELSE IF j <= LengthAt(bitlen) THEN 0
  ELSE P!BitsOfNumber(bitlen, 2 * WordBits)[j - LengthAt(bitlen)]
PadBlock(bitlen, k) == [i \in 1 .. BlockBits |-> PadBit(bitlen, (k - 1) * BlockBits + i)]

LEMMA PadSizes ==
  ASSUME P!WidthsFit, NEW bitlen \in Nat
  PROVE  LET whole == WholeBlocks(bitlen)
             rest == bitlen % BlockBits
             n == PadBlocks(bitlen)
             zeros == LengthAt(bitlen) - bitlen - 1
         IN /\ whole \in Nat /\ rest \in 0 .. BlockBits - 1 /\ whole * BlockBits \in Nat
            /\ bitlen = whole * BlockBits + rest
            /\ n \in Nat \ {0} /\ n * BlockBits \in Nat
            /\ IF rest <= BlockBits - 2 * WordBits - 1
               THEN n = whole + 1 /\ n * BlockBits = whole * BlockBits + BlockBits
               ELSE n = whole + 2 /\ n * BlockBits = whole * BlockBits + BlockBits + BlockBits
            /\ LengthAt(bitlen) = n * BlockBits - 2 * WordBits
            /\ LengthAt(bitlen) \in Nat /\ zeros \in 0 .. BlockBits - 1
<1> DEFINE whole == WholeBlocks(bitlen)
           rest == bitlen % BlockBits
           n == PadBlocks(bitlen)
           base == whole * BlockBits
           twice == 2 * WordBits
<1>1. BlockBits \in Nat \ {0} /\ twice \in Nat /\ twice <= BlockBits
  BY DEF P!WidthsFit
<1>2. /\ whole \in Nat /\ rest \in Nat /\ rest < BlockBits /\ base \in Nat /\ bitlen = base + rest
  BY <1>1, Remainders DEF WholeBlocks
<1>3. IF rest <= BlockBits - twice - 1 THEN n = whole + 1 ELSE n = whole + 2
  BY <1>2 DEF PadBlocks
<1>4. LengthAt(bitlen) = n * BlockBits - twice
  BY DEF LengthAt
<1> HIDE DEF whole, rest, n, twice
<1>5. (whole + 1) * BlockBits = base + BlockBits /\ (whole + 2) * BlockBits = base + BlockBits + BlockBits
  BY <1>1, <1>2
<1> HIDE DEF base
<1>6. IF rest <= BlockBits - twice - 1 THEN n = whole + 1 /\ n * BlockBits = base + BlockBits
                                      ELSE n = whole + 2 /\ n * BlockBits = base + BlockBits + BlockBits
  BY <1>3, <1>5
<1>7. n \in Nat \ {0} /\ n * BlockBits \in Nat
  BY <1>1, <1>2, <1>6
<1>8. LengthAt(bitlen) \in Nat /\ LengthAt(bitlen) - bitlen - 1 \in 0 .. BlockBits - 1
  <2>1. PICK total \in Nat : total = n * BlockBits
    BY <1>7
  <2> QED
    BY <1>1, <1>2, <1>4, <1>6, <2>1
<1> QED
  <2>1. rest \in 0 .. BlockBits - 1
    BY <1>1, <1>2
  <2> QED
    BY <1>2, <1>4, <1>6, <1>7, <1>8, <2>1, Zenon DEF whole, rest, n, base, twice

LEMMA FewestZeros ==
  ASSUME P!WidthsFit, NEW bitlen \in Nat
  PROVE  (CHOOSE k \in 0 .. BlockBits - 1 : (bitlen + 1 + k + 2 * WordBits) % BlockBits = 0)
           = LengthAt(bitlen) - bitlen - 1
<1> DEFINE n == PadBlocks(bitlen)
           zeros == LengthAt(bitlen) - bitlen - 1
           total == n * BlockBits
<1>1. /\ n \in Nat /\ total \in Nat /\ zeros \in 0 .. BlockBits - 1 /\ BlockBits \in Nat \ {0}
      /\ LengthAt(bitlen) = total - 2 * WordBits /\ WordBits \in Nat /\ LengthAt(bitlen) \in Nat
  BY PadSizes DEF P!WidthsFit
<1> HIDE DEF n
<1>2. (bitlen + 1 + zeros + 2 * WordBits) % BlockBits = 0
  <2>1. bitlen + 1 + zeros + 2 * WordBits = total + 0
    <3> HIDE DEF total
    <3> QED
      BY <1>1
  <2>2. (total + 0) % BlockBits = 0
    <3>1. \A z \in Nat : z < BlockBits => (n * BlockBits + z) % BlockBits = z
      BY <1>1, MultipleRemains
    <3>2. 0 \in Nat /\ 0 < BlockBits
      BY <1>1
    <3> QED
      BY <3>1, <3>2, Zenon
  <2> QED
    BY <2>1, <2>2
<1>3. ASSUME NEW k \in 0 .. BlockBits - 1, (bitlen + 1 + k + 2 * WordBits) % BlockBits = 0
      PROVE  k = zeros
  <2> DEFINE v == bitlen + 1 + k + 2 * WordBits
             m == v \div BlockBits
             multiple == m * BlockBits
  <2>1. v \in Nat
    BY <1>1
  <2>2. m \in Nat /\ multiple \in Nat /\ v = multiple + 0
    BY <1>1, <1>3, <2>1, Remainders
  <2>3. v = total + (k - zeros)
    <3> HIDE DEF total
    <3> QED
      BY <1>1
  <2>4. multiple - total < BlockBits /\ total - multiple < BlockBits
    <3> HIDE DEF multiple, total, v, zeros
    <3> QED
      BY <1>1, <2>1, <2>2, <2>3
  <2> HIDE DEF v, m
  <2>5. m = n
    BY <1>1, <2>2, <2>4, CloseMultiples
  <2>6. multiple = total
    BY <2>5
  <2> HIDE DEF multiple, total, zeros
  <2> QED
    BY <1>1, <2>2, <2>3, <2>6
<1> QED
  BY <1>1, <1>2, <1>3

LEMMA SamePowers == P!Pow2 = Pow2
BY Zenon DEF P!Pow2, Pow2

LEMMA NumberBits ==
  ASSUME NEW number \in Nat, NEW n \in Nat
  PROVE  /\ P!BitsOfNumber(number, n) \in Seq(Int) /\ Len(P!BitsOfNumber(number, n)) = n
         /\ \A b \in 1 .. n : P!BitsOfNumber(number, n)[b] = (number \div Pow2[n - b]) % 2
<1>1. \A b \in 1 .. n : (number \div Pow2[n - b]) % 2 \in Int
  <2>1. ASSUME NEW b \in 1 .. n
        PROVE  (number \div Pow2[n - b]) % 2 \in Int
    <3>1. n - b \in Nat
      OBVIOUS
    <3>2. PICK p \in Nat \ {0} : p = Pow2[n - b]
      BY <3>1, Pow2Steps
    <3>3. number \div p \in Int
      OBVIOUS
    <3> QED
      BY <3>2, <3>3
  <2> QED
    BY <2>1
<1> DEFINE f == P!BitsOfNumber(number, n)
<1>2. f = [b \in 1 .. n |-> (number \div Pow2[n - b]) % 2]
  BY SamePowers, Zenon DEF P!BitsOfNumber
<1>3. \A b \in 1 .. n : f[b] = (number \div Pow2[n - b]) % 2
  BY <1>2, Zenon
<1>4. DOMAIN f = 1 .. n /\ f = [b \in 1 .. n |-> f[b]]
  BY <1>2, <1>3, Zenon
<1> HIDE DEF f
<1>5. \A b \in 1 .. n : f[b] \in Int
  BY <1>1, <1>3, Zenon
<1>6. f \in [1 .. n -> Int]
  BY <1>4, <1>5, Zenon
<1>7. f \in Seq(Int) /\ Len(f) = n
  BY <1>6
<1> QED
  BY <1>3, <1>7 DEF f

LEMMA PadMessage ==
  ASSUME NEW first \in Nat, NEW n \in Nat
  PROVE  /\ P!Message(first, n) \in Seq(Int) /\ Len(P!Message(first, n)) = n
         /\ P!Zeros(n) \in Seq(Int) /\ Len(P!Zeros(n)) = n
         /\ \A b \in 1 .. n : P!Message(first, n)[b] = first + b + 1 /\ P!Zeros(n)[b] = 0
BY DEF P!Message, P!Zeros

\* The whole padded message, as a function.
LEMMA PaddedBits ==
  ASSUME P!WidthsFit, NEW bitlen \in Nat
  PROVE  /\ P!Padded(bitlen) = [j \in 1 .. PadBlocks(bitlen) * BlockBits |-> PadBit(bitlen, j)]
         /\ \A j \in 1 .. PadBlocks(bitlen) * BlockBits : PadBit(bitlen, j) \in Int
<1> DEFINE total == PadBlocks(bitlen) * BlockBits
           place == LengthAt(bitlen)
           zeros == place - bitlen - 1
           twice == 2 * WordBits
           number == P!BitsOfNumber(bitlen, twice)
           g == [j \in 1 .. total |-> PadBit(bitlen, j)]
           first(m) == [j \in 1 .. m |-> g[j]]
<1>1. total \in Nat /\ place \in Nat /\ zeros \in Nat /\ twice \in Nat /\ total = place + twice
  <2>1. PICK t \in Nat : t = total
    BY PadSizes
  <2>2. place = t - twice /\ place \in Nat /\ zeros \in Nat /\ WordBits \in Nat
    BY <2>1, PadSizes DEF P!WidthsFit
  <2> QED
    BY <2>1, <2>2
<1>2. number \in Seq(Int) /\ Len(number) = twice
  <2> HIDE DEF twice
  <2> QED
    BY <1>1, NumberBits
<1> HIDE DEF total, number, twice
<1>3. ASSUME NEW j \in 1 .. total
      PROVE  g[j] = IF j <= bitlen THEN j + 1 ELSE IF j = bitlen + 1 THEN 1
                    ELSE IF j <= place THEN 0 ELSE number[j - place]
  BY DEF PadBit, number, twice
<1> HIDE DEF place
<1>4. \A j \in 1 .. total : g[j] \in Int
  <2>1. ASSUME NEW j \in 1 .. total
        PROVE  g[j] \in Int
    <3>1. j > place => number[j - place] \in Int
      <4>1. j > place => j - place \in 1 .. twice
        BY <1>1
      <4> QED
        BY <1>2, <4>1
    <3>2. j \in Nat /\ j + 1 \in Int /\ (j <= place \/ j > place)
      BY <1>1
    <3> HIDE DEF g
    <3> QED
      BY <1>3, <3>1, <3>2
  <2> QED
    BY <2>1
<1> HIDE DEF g
<1>5. ASSUME NEW m \in Nat, m <= total
      PROVE  IsPart(first(m), Int, g, 0, m)
  <2>1. \A j \in 1 .. m : j \in 1 .. total /\ 0 + j = j
    BY <1>1, <1>5
  <2> QED
    BY <1>4, <2>1 DEF IsPart
<1> HIDE DEF first
<1>6. /\ bitlen + 1 = bitlen + 1 /\ bitlen + 1 <= total /\ bitlen <= total /\ place <= total
      /\ (bitlen + 1) + zeros = place /\ bitlen + 1 \in Nat /\ 1 \in Nat
  BY <1>1
<1> HIDE DEF zeros
<1>7. P!Message(0, bitlen) = first(bitlen)
  <2>1. P!Message(0, bitlen) \in Seq(Int) /\ Len(P!Message(0, bitlen)) = bitlen
        /\ \A b \in 1 .. bitlen : P!Message(0, bitlen)[b] = 0 + b + 1
    BY PadMessage
  <2>2. first(bitlen) \in Seq(Int) /\ Len(first(bitlen)) = bitlen
        /\ \A b \in 1 .. bitlen : first(bitlen)[b] = g[0 + b]
    BY <1>5, <1>6 DEF IsPart
  <2>3. \A b \in 1 .. bitlen : g[0 + b] = 0 + b + 1
    <3>1. \A b \in 1 .. bitlen : b \in 1 .. total /\ 0 + b = b /\ b <= bitlen
      BY <1>1, <1>6
    <3> QED
      BY <1>3, <3>1
  <2> QED
    BY <2>1, <2>2, <2>3, SameElements
<1>8. P!Message(0, bitlen) \o <<1>> = first(bitlen + 1)
  <2>1. IsPart(<<1>>, Int, g, bitlen, 1)
    <3>1. g[bitlen + 1] = 1
      BY <1>1, <1>3, <1>6
    <3> QED
      BY <3>1 DEF IsPart
  <2>2. IsPart(first(bitlen), Int, g, 0, bitlen) /\ IsPart(first(bitlen + 1), Int, g, 0, bitlen + 1)
    BY <1>5, <1>6
  <2>3. first(bitlen) \o <<1>> = first(bitlen + 1)
    BY <1>6, <2>1, <2>2, PartsJoin
  <2> QED
    BY <1>7, <2>3, Zenon
<1>9. first(bitlen + 1) \o P!Zeros(zeros) = first(place)
  <2>1. IsPart(P!Zeros(zeros), Int, g, bitlen + 1, zeros)
    <3>1. P!Zeros(zeros) \in Seq(Int) /\ Len(P!Zeros(zeros)) = zeros
          /\ \A b \in 1 .. zeros : P!Zeros(zeros)[b] = 0
      BY <1>1, PadMessage
    <3>2. ASSUME NEW b \in 1 .. zeros
          PROVE  g[(bitlen + 1) + b] = 0
      <4>1. (bitlen + 1) + b \in 1 .. total /\ (bitlen + 1) + b <= place /\ (bitlen + 1) + b > bitlen + 1
        BY <1>1, <1>6
      <4> QED
        BY <1>3, <4>1
    <3> QED
      BY <3>1, <3>2 DEF IsPart
  <2>2. IsPart(first(bitlen + 1), Int, g, 0, bitlen + 1) /\ IsPart(first(place), Int, g, 0, place)
    BY <1>1, <1>5, <1>6
  <2> QED
    BY <1>1, <1>6, <2>1, <2>2, PartsJoin
<1>10. first(place) \o number = first(total)
  <2>1. IsPart(number, Int, g, place, twice)
    <3>1. ASSUME NEW b \in 1 .. twice
          PROVE  g[place + b] = number[b]
      <4>1. PICK j : j = place + b
        OBVIOUS
      <4>2. j \in 1 .. total /\ ~(j <= place) /\ ~(j <= bitlen) /\ j # bitlen + 1 /\ j - place = b
        BY <1>1, <1>6, <4>1
      <4>3. g[j] = number[j - place]
        BY <1>3, <4>2, Zenon
      <4> QED
        BY <4>1, <4>2, <4>3, Zenon
    <3> QED
      BY <1>2, <3>1 DEF IsPart
  <2>2. IsPart(first(place), Int, g, 0, place) /\ IsPart(first(total), Int, g, 0, total)
    BY <1>1, <1>5, <1>6
  <2> QED
    BY <1>1, <2>1, <2>2, PartsJoin
<1>11. P!Padded(bitlen) = ((P!Message(0, bitlen) \o <<1>>) \o P!Zeros(zeros)) \o number
  <2>1. P!Padded(bitlen) = ((P!Message(0, bitlen) \o <<1>>) \o P!Zeros(LengthAt(bitlen) - bitlen - 1))
                              \o P!BitsOfNumber(bitlen, 2 * WordBits)
    BY FewestZeros, Zenon DEF P!Padded
  <2> QED
    BY <2>1, Zenon DEF zeros, place, number, twice
<1>12. P!Padded(bitlen) = first(total)
  BY <1>8, <1>9, <1>10, <1>11, Zenon
<1>13. first(total) = g
  BY DEF first, g
<1> QED
  BY <1>4, <1>12, <1>13 DEF g, total

\* A length that fits a word has an upper word of zeros.
LEMMA LengthBits ==
  ASSUME P!WidthsFit, NEW bitlen \in Nat, bitlen < Pow2[WordBits], NEW whole \in Nat, whole <= bitlen
  PROVE  P!BitsOfNumber((whole \div Pow2[WordBits]) * BlockBits, WordBits)
           \o P!BitsOfNumber(bitlen, WordBits) = P!BitsOfNumber(bitlen, 2 * WordBits)
<1> DEFINE g == P!BitsOfNumber(bitlen, 2 * WordBits)
           w == Pow2[WordBits]
           upper == P!BitsOfNumber((whole \div w) * BlockBits, WordBits)
           lower == P!BitsOfNumber(bitlen, WordBits)
<1>1. WordBits \in Nat /\ 2 * WordBits = WordBits + WordBits /\ 2 * WordBits \in Nat
  BY DEF P!WidthsFit
<1>2. w \in Nat \ {0} /\ bitlen < w
  BY <1>1, Pow2Steps
<1>3. (whole \div w) * BlockBits = 0 /\ 0 \in Nat
  <2> HIDE DEF w
  <2>1. whole \div w = 0
    BY <1>2
  <2> QED
    BY <2>1 DEF P!WidthsFit
<1>4. /\ upper \in Seq(Int) /\ Len(upper) = WordBits
      /\ \A b \in 1 .. WordBits : upper[b] = 0
  <2>1. \A b \in 1 .. WordBits : (0 \div Pow2[WordBits - b]) % 2 = 0
    <3>1. ASSUME NEW b \in 1 .. WordBits
          PROVE  (0 \div Pow2[WordBits - b]) % 2 = 0
      <4>1. WordBits - b \in Nat
        BY <1>1
      <4>2. PICK p \in Nat \ {0} : p = Pow2[WordBits - b]
        BY <4>1, Pow2Steps
      <4>3. 0 \div p = 0
        OBVIOUS
      <4> QED
        BY <4>2, <4>3
    <3> QED
      BY <3>1
  <2>2. upper = P!BitsOfNumber(0, WordBits)
    BY <1>3, Zenon
  <2> HIDE DEF upper
  <2>3. P!BitsOfNumber(0, WordBits) \in Seq(Int) /\ Len(P!BitsOfNumber(0, WordBits)) = WordBits
        /\ \A b \in 1 .. WordBits : P!BitsOfNumber(0, WordBits)[b] = (0 \div Pow2[WordBits - b]) % 2
    BY <1>1, NumberBits
  <2> QED
    BY <2>1, <2>2, <2>3
<1>5. /\ lower \in Seq(Int) /\ Len(lower) = WordBits
      /\ \A b \in 1 .. WordBits : lower[b] = (bitlen \div Pow2[WordBits - b]) % 2
  BY <1>1, NumberBits
<1>6. /\ g \in Seq(Int) /\ Len(g) = 2 * WordBits
      /\ \A b \in 1 .. 2 * WordBits : g[b] = (bitlen \div Pow2[2 * WordBits - b]) % 2
  BY <1>1, NumberBits
<1> HIDE DEF g, upper, lower
<1>7. IsPart(upper, Int, g, 0, WordBits)
  <2>1. ASSUME NEW b \in 1 .. WordBits
        PROVE  g[0 + b] = 0
    <3>1. b \in 1 .. 2 * WordBits /\ 0 + b = b /\ WordBits - b \in Nat
          /\ 2 * WordBits - b = WordBits + (WordBits - b)
      BY <1>1
    <3>2. PICK p \in Nat \ {0} : p = Pow2[WordBits - b]
      BY <3>1, Pow2Steps
    <3>3. Pow2[2 * WordBits - b] = w * p
      BY <1>1, <3>1, <3>2, Pow2Sum
    <3>4. w * p \in Nat /\ w * p >= w
      <4> HIDE DEF w
      <4>1. PICK e \in Nat : p = e + 1
        <5>1. p - 1 \in Nat /\ p = (p - 1) + 1
          OBVIOUS
        <5> QED
          BY <5>1
      <4>2. w * (e + 1) = w * e + w /\ w * e \in Nat
        BY <1>2
      <4> QED
        BY <1>2, <4>1, <4>2
    <3>5. bitlen \div (w * p) = 0
      <4>1. PICK m \in Nat : m = w * p
        BY <3>4
      <4>2. bitlen < m
        BY <1>2, <3>4, <4>1
      <4>3. bitlen \div m = 0
        BY <4>2
      <4> QED
        BY <4>1, <4>3, Zenon
    <3>6. g[b] = (bitlen \div Pow2[2 * WordBits - b]) % 2
      BY <1>6, <3>1, Zenon
    <3>7. g[b] = 0 % 2
      BY <3>3, <3>5, <3>6, Zenon
    <3> QED
      BY <3>1, <3>7
  <2> QED
    BY <1>4, <2>1 DEF IsPart
<1>8. IsPart(lower, Int, g, WordBits, WordBits)
  <2>1. ASSUME NEW b \in 1 .. WordBits
        PROVE  g[WordBits + b] = lower[b]
    <3>1. WordBits + b \in 1 .. 2 * WordBits /\ 2 * WordBits - (WordBits + b) = WordBits - b
      BY <1>1
    <3>2. g[WordBits + b] = (bitlen \div Pow2[2 * WordBits - (WordBits + b)]) % 2
      BY <1>6, <3>1, Zenon
    <3> QED
      BY <1>5, <3>1, <3>2, Zenon
  <2> QED
    BY <1>5, <2>1 DEF IsPart
<1>9. IsPart(g, Int, g, 0, WordBits + WordBits)
  <2>1. \A b \in 1 .. WordBits + WordBits : 0 + b = b
    BY <1>1
  <2> QED
    BY <1>1, <1>6, <2>1 DEF IsPart
<1>10. upper \o lower = g
  BY <1>1, <1>7, <1>8, <1>9, PartsJoin
<1> QED
  BY <1>10 DEF upper, lower, g, w

-----------------------------------------------------------------------------
(* sm3_bit.                                                                 *)

\* The bits of the last block up to the end of the byte the message ends in.
LEMMA BytesOfRest ==
  ASSUME P!WidthsFit, NEW rest \in Nat, rest < BlockBits
  PROVE  LET bits == ((rest + ByteBits - 1) \div ByteBits) * ByteBits
             tail == ByteBits - 1 - (rest % ByteBits)
         IN /\ bits \in Nat /\ rest <= bits /\ bits <= BlockBits
            /\ tail \in Nat /\ bits <= rest + 1 + tail
<1> DEFINE d == ByteBits
           q == rest \div d
           r == rest % d
           c == BlockBits \div d
<1>1. d \in Nat \ {0} /\ BlockBits \in Nat \ {0} /\ BlockBits % d = 0
  BY DEF P!WidthsFit
<1> HIDE DEF d
<1>2. q \in Nat /\ r \in Nat /\ r < d /\ q * d \in Nat /\ rest = q * d + r
  BY <1>1, Remainders
<1>3. c \in Nat /\ c * d \in Nat /\ BlockBits = c * d + 0
  BY <1>1, Remainders
<1> HIDE DEF q, r, c
<1>4. (q + 1) * d = q * d + d
  BY <1>1, <1>2
<1>5. CASE r = 0
  <2>1. rest + d - 1 = q * d + (d - 1) /\ d - 1 \in Nat /\ d - 1 < d
    BY <1>1, <1>2, <1>5
  <2>2. (q * d + (d - 1)) \div d = q
    BY <1>1, <1>2, <2>1, MultipleRemains
  <2>3. ((rest + d - 1) \div d) * d = q * d
    BY <2>1, <2>2, Zenon
  <2>4. PICK base \in Nat : base = q * d
    BY <1>2
  <2>5. rest = base /\ ((rest + d - 1) \div d) * d = base
    BY <1>2, <1>5, <2>3, <2>4
  <2>6. PICK bits : bits = ((rest + d - 1) \div d) * d
    OBVIOUS
  <2>7. bits \in Nat /\ rest <= bits /\ bits <= BlockBits /\ d - 1 - r \in Nat /\ bits <= rest + 1 + (d - 1 - r)
    BY <1>1, <1>5, <2>5, <2>6
  <2> QED
    BY <2>6, <2>7, Zenon DEF d, r
<1>6. CASE r # 0
  <2>1. rest + d - 1 = (q + 1) * d + (r - 1) /\ r - 1 \in Nat /\ r - 1 < d /\ q + 1 \in Nat
    <3>1. PICK base \in Nat : base = q * d
      BY <1>2
    <3> QED
      BY <1>1, <1>2, <1>4, <1>6, <3>1
  <2>2. ((q + 1) * d + (r - 1)) \div d = q + 1
    BY <1>1, <2>1, MultipleRemains
  <2>3. ((rest + d - 1) \div d) * d = (q + 1) * d
    BY <2>1, <2>2, Zenon
  <2>4. PICK base \in Nat : base = q * d
    BY <1>2
  <2>5. base + d <= BlockBits
    <3>1. q < c
      <4>1. ASSUME q >= c
            PROVE  FALSE
        <5>1. PICK e \in Nat : q = c + e
          <6>1. q - c \in Nat /\ q = c + (q - c)
            BY <1>2, <1>3, <4>1
          <6> QED
            BY <6>1
        <5>2. (c + e) * d = c * d + e * d /\ e * d \in Nat
          BY <1>1, <1>3
        <5>3. q * d = c * d + e * d
          BY <5>1, <5>2
        <5> QED
          BY <1>2, <1>3, <5>2, <5>3
      <4> QED
        BY <1>2, <1>3, <4>1
    <3>2. PICK e \in Nat : c = q + 1 + e
      <4>1. c - q - 1 \in Nat /\ c = q + 1 + (c - q - 1)
        BY <1>2, <1>3, <3>1
      <4> QED
        BY <4>1
    <3>3. (q + 1 + e) * d = q * d + d + e * d /\ e * d \in Nat
      BY <1>1, <1>2
    <3>4. c * d = q * d + d + e * d
      BY <3>2, <3>3
    <3>5. PICK more \in Nat : more = e * d
      BY <3>3
    <3>6. PICK product : product = c * d
      OBVIOUS
    <3>7. product = base + d + more
      BY <2>4, <3>4, <3>5, <3>6, Zenon
    <3>8. BlockBits = product + 0 /\ product \in Nat
      BY <1>3, <3>6, Zenon
    <3> QED
      BY <1>1, <3>7, <3>8
  <2>6. rest = base + r /\ ((rest + d - 1) \div d) * d = base + d
    BY <1>2, <1>4, <2>3, <2>4
  <2>7. PICK bits : bits = ((rest + d - 1) \div d) * d
    OBVIOUS
  <2>8. bits \in Nat /\ rest <= bits /\ bits <= BlockBits /\ d - 1 - r \in Nat /\ bits <= rest + 1 + (d - 1 - r)
    BY <1>1, <1>2, <2>5, <2>6, <2>7
  <2> QED
    BY <2>7, <2>8, Zenon DEF d, r
<1> QED
  BY <1>5, <1>6

\* The last block of the message, whatever memory holds behind the message.
MarkedBit(bitlen, i) ==
  IF WholeBlocks(bitlen) * BlockBits + i <= bitlen THEN WholeBlocks(bitlen) * BlockBits + i + 1
  ELSE IF WholeBlocks(bitlen) * BlockBits + i = bitlen + 1 THEN 1 ELSE 0

LEMMA MarkedBlock ==
  ASSUME P!WidthsFit, msg_bitlen \in Nat
  PROVE  P!Marked(P!Rest) = [i \in 1 .. BlockBits |-> MarkedBit(msg_bitlen, i)]
<1> DEFINE rest == msg_bitlen % BlockBits
           base == WholeBlocks(msg_bitlen) * BlockBits
           bits == ((rest + ByteBits - 1) \div ByteBits) * ByteBits
           tail == ByteBits - 1 - (rest % ByteBits)
           message == P!Message(base, bits)
           before == P!Put(P!Zeros(BlockBits), 0, message)
           mark == <<1>> \o P!Zeros(tail)
           after == P!Put(before, rest, mark)
<1>1. /\ rest \in Nat /\ rest < BlockBits /\ base \in Nat /\ msg_bitlen = base + rest
      /\ BlockBits \in Nat
  <2>1. BlockBits \in Nat \ {0}
    BY DEF P!WidthsFit
  <2> QED
    BY <2>1, Remainders DEF WholeBlocks
<1>2. P!Marked(P!Rest) = after
  BY Zenon DEF P!Marked, P!Rest, P!remain, P!block_num, WholeBlocks
<1>3. \A i : MarkedBit(msg_bitlen, i) =
         IF base + i <= msg_bitlen THEN base + i + 1 ELSE IF base + i = msg_bitlen + 1 THEN 1 ELSE 0
  BY Zenon DEF MarkedBit
<1> HIDE DEF rest, base
<1>4. bits \in Nat /\ rest <= bits /\ bits <= BlockBits /\ tail \in Nat /\ bits <= rest + 1 + tail
  BY <1>1, BytesOfRest, Zenon
<1> HIDE DEF bits, tail
<1>5. Len(message) = bits /\ \A i \in 1 .. bits : message[i] = base + i + 1
  BY <1>1, <1>4, PadMessage
<1>6. Len(mark) = 1 + tail /\ mark[1] = 1 /\ \A i \in 2 .. 1 + tail : mark[i] = 0
  <2> DEFINE zeros == P!Zeros(tail)
  <2>1. zeros \in Seq(Int) /\ Len(zeros) = tail /\ \A i \in 1 .. tail : zeros[i] = 0
    BY <1>4, PadMessage
  <2> HIDE DEF zeros
  <2>2. <<1>> \in Seq(Int) /\ Len(<<1>>) = 1 /\ <<1>>[1] = 1
    OBVIOUS
  <2>3. Len(mark) = 1 + tail /\ mark[1] = 1 /\ \A i \in 1 .. tail : mark[1 + i] = zeros[i]
    BY <2>1, <2>2, Concatenated DEF zeros
  <2>4. ASSUME NEW i \in 2 .. 1 + tail
        PROVE  mark[i] = 0
    <3>1. i - 1 \in 1 .. tail /\ 1 + (i - 1) = i
      BY <1>4
    <3> QED
      BY <2>1, <2>3, <3>1
  <2> QED
    BY <2>3, <2>4
<1> HIDE DEF message, mark
<1>7. before = [i \in 1 .. BlockBits |-> IF i \in 1 .. bits THEN message[i] ELSE 0]
  BY <1>1, <1>4, <1>5 DEF P!Put, P!Zeros
<1>8. /\ after = [i \in 1 .. BlockBits |-> after[i]]
      /\ \A i \in 1 .. BlockBits : after[i] =
           IF i \in rest + 1 .. rest + (1 + tail) THEN mark[i - rest]
           ELSE IF i \in 1 .. bits THEN message[i] ELSE 0
  <2> HIDE DEF before
  <2>1. after = [i \in 1 .. BlockBits |->
                  IF i \in rest + 1 .. rest + (1 + tail) THEN mark[i - rest] ELSE before[i]]
    BY <1>6, <1>7 DEF P!Put
  <2> HIDE DEF after
  <2> QED
    BY <1>7, <2>1
<1> HIDE DEF after
<1>9. ASSUME NEW i \in 1 .. BlockBits
      PROVE  after[i] = MarkedBit(msg_bitlen, i)
  <2>0. MarkedBit(msg_bitlen, i) =
          IF base + i <= msg_bitlen THEN base + i + 1 ELSE IF base + i = msg_bitlen + 1 THEN 1 ELSE 0
    BY <1>3
  <2>1. CASE i <= rest
    <3>1. i \in 1 .. bits /\ ~(i \in rest + 1 .. rest + (1 + tail)) /\ base + i <= msg_bitlen
      BY <1>1, <1>4, <2>1
    <3> QED
      BY <1>5, <1>8, <2>0, <3>1, Zenon
  <2>2. CASE i = rest + 1
    <3>1. /\ i \in rest + 1 .. rest + (1 + tail) /\ i - rest = 1
          /\ ~(base + i <= msg_bitlen) /\ base + i = msg_bitlen + 1
      BY <1>1, <1>4, <2>2
    <3> QED
      BY <1>6, <1>8, <2>0, <3>1, Zenon
  <2>3. CASE i > rest + 1 /\ i <= rest + (1 + tail)
    <3>1. /\ i \in rest + 1 .. rest + (1 + tail) /\ i - rest \in 2 .. 1 + tail
          /\ ~(base + i <= msg_bitlen) /\ base + i # msg_bitlen + 1
      BY <1>1, <1>4, <2>3
    <3> QED
      BY <1>6, <1>8, <2>0, <3>1, Zenon
  <2>4. CASE i > rest + (1 + tail)
    <3>1. /\ ~(i \in rest + 1 .. rest + (1 + tail)) /\ ~(i \in 1 .. bits)
          /\ ~(base + i <= msg_bitlen) /\ base + i # msg_bitlen + 1
      BY <1>1, <1>4, <2>4
    <3> QED
      BY <1>8, <2>0, <3>1, Zenon
  <2> QED
    BY <1>1, <1>4, <2>1, <2>2, <2>3, <2>4
<1> QED
  BY <1>2, <1>8, <1>9, Zenon

\* Wherever a call of sm3_bit is, what it has compressed is the first blocks of
\* the padded message, and the block in hand is begun as the next one is.
PadInv ==
  /\ msg_bitlen \in Nat
  /\ padAt \in {"idle", "blocks", "rest", "pad", "length"}
  /\ padAt = "idle" =>
       \/ padDigest = << >>
       \/ msg_bitlen < Pow2[WordBits] =>
            padDigest = [k \in 1 .. PadBlocks(msg_bitlen) |-> PadBlock(msg_bitlen, k)]
  /\ padAt \in {"rest", "pad"} =>
       padDigest = [k \in 1 .. WholeBlocks(msg_bitlen) |-> PadBlock(msg_bitlen, k)]
  /\ padAt = "pad" => padBlock = [i \in 1 .. BlockBits |-> MarkedBit(msg_bitlen, i)]
  /\ padAt = "length" =>
       /\ padDigest = [k \in 1 .. PadBlocks(msg_bitlen) - 1 |-> PadBlock(msg_bitlen, k)]
       /\ DOMAIN padBlock = 1 .. BlockBits
       /\ \A i \in 1 .. BlockBits - 2 * WordBits :
            padBlock[i] = PadBit(msg_bitlen, (PadBlocks(msg_bitlen) - 1) * BlockBits + i)

LEMMA OneMoreBlock ==
  ASSUME NEW m, NEW n \in Nat
  PROVE  Append([k \in 1 .. n |-> PadBlock(m, k)], PadBlock(m, n + 1))
           = [k \in 1 .. n + 1 |-> PadBlock(m, k)]
<1> DEFINE T == {PadBlock(m, k) : k \in 1 .. n + 1}
           s == [k \in 1 .. n |-> PadBlock(m, k)]
           t == [k \in 1 .. n + 1 |-> PadBlock(m, k)]
           longer == Append(s, PadBlock(m, n + 1))
<1>1. s \in Seq(T) /\ Len(s) = n /\ \A k \in 1 .. n : s[k] = PadBlock(m, k)
  OBVIOUS
<1>2. t \in Seq(T) /\ Len(t) = n + 1 /\ \A k \in 1 .. n + 1 : t[k] = PadBlock(m, k)
  OBVIOUS
<1>3. PadBlock(m, n + 1) \in T
  OBVIOUS
<1> HIDE DEF T, s, t
<1>4. longer \in Seq(T) /\ Len(longer) = n + 1 /\ longer[n + 1] = PadBlock(m, n + 1)
      /\ \A k \in 1 .. n : longer[k] = s[k]
  BY <1>1, <1>3
<1> HIDE DEF longer
<1>5. \A k \in 1 .. n + 1 : longer[k] = t[k]
  <2>1. ASSUME NEW k \in 1 .. n + 1
        PROVE  longer[k] = t[k]
    <3>1. k \in 1 .. n \/ k = n + 1
      OBVIOUS
    <3> QED
      BY <1>1, <1>2, <1>4, <3>1
  <2> QED
    BY <2>1
<1> QED
  BY <1>2, <1>4, <1>5, SameElements DEF longer, s, t

LEMMA WholePreserves ==
  ASSUME P!WidthsFit, PadInv, P!WholeBlocks
  PROVE  PadInv'
<1> DEFINE m == msg_bitlen
           whole == WholeBlocks(m)
<1>1. /\ padAt' = "rest" /\ msg_bitlen' = msg_bitlen /\ m \in Nat
      /\ padDigest' = [k \in 1 .. whole |-> P!Message((k - 1) * BlockBits, BlockBits)]
  BY Zenon DEF P!WholeBlocks, P!block_num, WholeBlocks, PadInv
<1>2. /\ BlockBits \in Nat \ {0} /\ whole \in Nat /\ whole * BlockBits \in Nat
      /\ whole * BlockBits <= m
  <2>1. BlockBits \in Nat \ {0}
    BY DEF P!WidthsFit
  <2>2. whole \in Nat /\ m % BlockBits \in Nat /\ whole * BlockBits \in Nat
        /\ m = whole * BlockBits + (m % BlockBits)
    BY <1>1, <2>1, Remainders DEF WholeBlocks
  <2>3. PICK base \in Nat : base = whole * BlockBits
    BY <2>2
  <2>4. PICK rest \in Nat : rest = m % BlockBits
    BY <2>2
  <2> HIDE DEF m, whole
  <2>5. m = base + rest
    BY <2>2, <2>3, <2>4, Zenon
  <2>6. base <= m
    BY <2>5
  <2> QED
    BY <2>1, <2>2, <2>3, <2>6, Zenon
<1> HIDE DEF m, whole
<1>3. ASSUME NEW k \in 1 .. whole
      PROVE  P!Message((k - 1) * BlockBits, BlockBits) = PadBlock(m, k)
  <2>1. PICK first \in Nat : first = (k - 1) * BlockBits /\ first + BlockBits <= m
    <3>1. PICK e \in Nat : whole = (k - 1) + 1 + e /\ k - 1 \in Nat
      <4>1. whole - k \in Nat /\ whole = (k - 1) + 1 + (whole - k)
        BY <1>2
      <4> QED
        BY <4>1
    <3>2. PICK p \in Nat : p = k - 1
      BY <3>1
    <3>3. (p + 1 + e) * BlockBits = p * BlockBits + BlockBits + e * BlockBits
          /\ p * BlockBits \in Nat /\ e * BlockBits \in Nat
      BY <1>2
    <3>4. PICK first \in Nat : first = p * BlockBits
      BY <3>3
    <3>5. PICK more \in Nat : more = e * BlockBits
      BY <3>3
    <3>6. whole * BlockBits = first + BlockBits + more
      BY <3>1, <3>2, <3>3, <3>4, <3>5, Zenon
    <3>7. first + BlockBits <= whole * BlockBits
      <4>1. PICK base \in Nat : base = whole * BlockBits
        BY <1>2
      <4>2. base = first + BlockBits + more
        BY <3>6, <4>1, Zenon
      <4>3. first + BlockBits <= base
        BY <1>2, <4>2
      <4> QED
        BY <4>1, <4>3, Zenon
    <3>8. first + BlockBits <= m
      <4>1. PICK base \in Nat : base = whole * BlockBits
        BY <1>2
      <4>2. first + BlockBits <= base /\ base <= m
        BY <1>2, <3>7, <4>1, Zenon
      <4> QED
        BY <1>1, <1>2, <4>2 DEF m
    <3> QED
      BY <3>2, <3>4, <3>8, Zenon
  <2>2. ASSUME NEW i \in 1 .. BlockBits
        PROVE  PadBit(m, first + i) = first + i + 1
    <3>1. first + i <= m
      BY <1>1, <1>2, <2>1 DEF m
    <3> QED
      BY <3>1, Zenon DEF PadBit
  <2>3. P!Message(first, BlockBits) = [i \in 1 .. BlockBits |-> first + i + 1]
    BY DEF P!Message
  <2>4. P!Message(first, BlockBits) = [i \in 1 .. BlockBits |-> PadBit(m, first + i)]
    BY <2>2, <2>3, Zenon
  <2> QED
    BY <2>1, <2>4, Zenon DEF PadBlock
<1>4. padDigest' = [k \in 1 .. whole |-> PadBlock(m, k)]
  BY <1>1, <1>3, Zenon
<1> QED
  BY <1>1, <1>4 DEF PadInv, m, whole

LEMMA LastPreserves ==
  ASSUME P!WidthsFit, PadInv, P!LastBlock
  PROVE  PadInv'
<1>1. padAt = "rest" /\ padAt' = "pad" /\ msg_bitlen' = msg_bitlen /\ padDigest' = padDigest
      /\ padBlock' = P!Marked(P!Rest)
  BY DEF P!LastBlock
<1>2. padBlock' = [i \in 1 .. BlockBits |-> MarkedBit(msg_bitlen, i)]
  BY <1>1, MarkedBlock, Zenon DEF PadInv
<1> QED
  BY <1>1, <1>2 DEF PadInv

LEMMA BeginPreserves ==
  ASSUME P!WidthsFit, PadInv, NEW bitlen \in 0 .. MaxBitlen, P!sm3_bit(bitlen)
  PROVE  PadInv'
<1>1. bitlen \in Nat
  BY DEF P!WidthsFit
<1> QED
  BY <1>1 DEF P!sm3_bit, PadInv

\* The sizes of the invariant, with the products taken as numbers.
LEMMA PadNumbers ==
  ASSUME P!WidthsFit, NEW m \in Nat
  PROVE  \E base, rest \in Nat :
           /\ base = WholeBlocks(m) * BlockBits /\ rest = m % BlockBits /\ rest < BlockBits
           /\ m = base + rest /\ WholeBlocks(m) \in Nat
           /\ BlockBits \in Nat \ {0} /\ WordBits \in Nat /\ 2 * WordBits <= BlockBits
           /\ IF rest <= BlockBits - 2 * WordBits - 1
              THEN /\ PadBlocks(m) = WholeBlocks(m) + 1 /\ (PadBlocks(m) - 1) * BlockBits = base
                   /\ LengthAt(m) = base + BlockBits - 2 * WordBits
              ELSE /\ PadBlocks(m) = WholeBlocks(m) + 2
                   /\ (PadBlocks(m) - 1) * BlockBits = base + BlockBits
                   /\ LengthAt(m) = base + BlockBits + BlockBits - 2 * WordBits
<1> DEFINE whole == WholeBlocks(m)
           rest == m % BlockBits
           n == PadBlocks(m)
           base == whole * BlockBits
           total == n * BlockBits
<1>1. BlockBits \in Nat \ {0} /\ WordBits \in Nat /\ 2 * WordBits <= BlockBits
  BY DEF P!WidthsFit
<1>2. /\ whole \in Nat /\ rest \in 0 .. BlockBits - 1 /\ base \in Nat /\ m = base + rest
      /\ IF rest <= BlockBits - 2 * WordBits - 1 THEN n = whole + 1 /\ total = base + BlockBits
                                                ELSE n = whole + 2 /\ total = base + BlockBits + BlockBits
      /\ LengthAt(m) = total - 2 * WordBits
  BY PadSizes, Zenon
<1>3. ((whole + 1) - 1) * BlockBits = base /\ ((whole + 2) - 1) * BlockBits = base + BlockBits
  <2>1. whole \in Nat
    BY <1>2
  <2> HIDE DEF whole
  <2>2. (whole + 1) - 1 = whole /\ (whole + 2) - 1 = whole + 1 /\ (whole + 1) * BlockBits = whole * BlockBits + BlockBits
    BY <1>1, <2>1
  <2> QED
    BY <2>2, Zenon
<1> HIDE DEF whole, rest, n, base, total
<1>4. rest \in Nat /\ rest < BlockBits
  BY <1>1, <1>2
<1>5. CASE rest <= BlockBits - 2 * WordBits - 1
  <2>1. n = whole + 1 /\ total = base + BlockBits
    BY <1>2, <1>5, Zenon
  <2>2. (n - 1) * BlockBits = base
    BY <1>3, <2>1, Zenon
  <2>3. LengthAt(m) = base + BlockBits - 2 * WordBits
    BY <1>1, <1>2, <2>1
  <2> QED
    BY <1>1, <1>2, <1>4, <1>5, <2>1, <2>2, <2>3, Zenon DEF whole, rest, n, base
<1>6. CASE ~(rest <= BlockBits - 2 * WordBits - 1)
  <2>1. n = whole + 2 /\ total = base + BlockBits + BlockBits
    BY <1>2, <1>6, Zenon
  <2>2. (n - 1) * BlockBits = base + BlockBits
    BY <1>3, <2>1, Zenon
  <2>3. LengthAt(m) = base + BlockBits + BlockBits - 2 * WordBits
    BY <1>1, <1>2, <2>1
  <2> QED
    BY <1>1, <1>2, <1>4, <1>6, <2>1, <2>2, <2>3, Zenon DEF whole, rest, n, base
<1> QED
  BY <1>5, <1>6

LEMMA PadPreserves ==
  ASSUME P!WidthsFit, PadInv, P!Pad
  PROVE  PadInv'
<1> DEFINE m == msg_bitlen
           whole == WholeBlocks(m)
           n == PadBlocks(m)
           place == LengthAt(m)
           room == BlockBits - 2 * WordBits
<1>1. m \in Nat
  BY DEF PadInv
<1>2. PICK base, rest \in Nat :
           /\ base = whole * BlockBits /\ rest = m % BlockBits /\ rest < BlockBits
           /\ m = base + rest /\ whole \in Nat
           /\ BlockBits \in Nat \ {0} /\ WordBits \in Nat /\ 2 * WordBits <= BlockBits
           /\ IF rest <= BlockBits - 2 * WordBits - 1
              THEN n = whole + 1 /\ (n - 1) * BlockBits = base /\ place = base + BlockBits - 2 * WordBits
              ELSE /\ n = whole + 2 /\ (n - 1) * BlockBits = base + BlockBits
                   /\ place = base + BlockBits + BlockBits - 2 * WordBits
  BY <1>1, PadNumbers, Zenon
<1>3. /\ padAt' = "length" /\ msg_bitlen' = msg_bitlen
      /\ padDigest = [k \in 1 .. whole |-> PadBlock(m, k)]
      /\ padBlock = [i \in 1 .. BlockBits |-> MarkedBit(m, i)]
      /\ IF rest <= BlockBits - 2 * WordBits - 1
         THEN padDigest' = padDigest /\ padBlock' = padBlock
         ELSE padDigest' = Append(padDigest, padBlock) /\ padBlock' = P!Put(padBlock, 0, P!Zeros(room))
  BY <1>2, Zenon DEF P!Pad, P!Room, P!remain, PadInv
<1>4. \A i : MarkedBit(m, i) = IF base + i <= m THEN base + i + 1 ELSE IF base + i = m + 1 THEN 1 ELSE 0
  BY <1>2, Zenon DEF MarkedBit
<1>5. \A j : j <= place => PadBit(m, j) = IF j <= m THEN j + 1 ELSE IF j = m + 1 THEN 1 ELSE 0
  BY Zenon DEF PadBit
<1> HIDE DEF whole, n, place
<1>6. room \in Nat /\ room <= BlockBits
  BY <1>2
<1>7. CASE rest <= BlockBits - 2 * WordBits - 1
  <2>1. n - 1 = whole /\ (n - 1) * BlockBits = base /\ place = base + room
    BY <1>2, <1>7
  <2>2. ASSUME NEW i \in 1 .. room
        PROVE  padBlock[i] = PadBit(m, base + i)
    <3>1. i \in 1 .. BlockBits /\ base + i <= place
      BY <1>2, <1>6, <2>1
    <3>2. padBlock[i] = MarkedBit(m, i)
      BY <1>3, <3>1, Zenon
    <3> QED
      BY <1>4, <1>5, <3>1, <3>2, Zenon
  <2>3. padDigest' = [k \in 1 .. n - 1 |-> PadBlock(m, k)] /\ padBlock' = padBlock
    BY <1>3, <1>7, <2>1
  <2>4. DOMAIN padBlock = 1 .. BlockBits
    BY <1>3, Zenon
  <2>5. \A i \in 1 .. room : padBlock[i] = PadBit(m, (n - 1) * BlockBits + i)
    BY <2>1, <2>2, Zenon
  <2> QED
    BY <1>1, <1>3, <2>3, <2>4, <2>5, Zenon DEF PadInv, m, n
<1>8. CASE ~(rest <= BlockBits - 2 * WordBits - 1)
  <2>1. /\ n - 1 = whole + 1 /\ (n - 1) * BlockBits = base + BlockBits /\ place = base + BlockBits + room
        /\ (whole + 1) - 1 = whole
    BY <1>2, <1>8
  <2>2. padBlock = PadBlock(m, whole + 1)
    <3>1. ASSUME NEW i \in 1 .. BlockBits
          PROVE  MarkedBit(m, i) = PadBit(m, base + i)
      <4>1. base + i <= place
        BY <1>2, <1>6, <2>1
      <4> QED
        BY <1>4, <1>5, <4>1, Zenon
    <3>2. padBlock = [i \in 1 .. BlockBits |-> PadBit(m, base + i)]
      BY <1>3, <3>1, Zenon
    <3>3. ((whole + 1) - 1) * BlockBits = base
      BY <1>2, <2>1, Zenon
    <3>4. \A i \in 1 .. BlockBits : PadBit(m, base + i) = PadBit(m, ((whole + 1) - 1) * BlockBits + i)
      BY <3>3, Zenon
    <3>5. padBlock = [i \in 1 .. BlockBits |-> PadBit(m, ((whole + 1) - 1) * BlockBits + i)]
      BY <3>2, <3>4, Zenon
    <3> QED
      BY <3>5, Zenon DEF PadBlock
  <2>3. padDigest' = [k \in 1 .. n - 1 |-> PadBlock(m, k)]
    <3>1. Append(padDigest, padBlock) = [k \in 1 .. whole + 1 |-> PadBlock(m, k)]
      <4>1. whole \in Nat
        BY <1>2, Zenon
      <4>2. Append([k \in 1 .. whole |-> PadBlock(m, k)], PadBlock(m, whole + 1))
              = [k \in 1 .. whole + 1 |-> PadBlock(m, k)]
        BY <4>1, OneMoreBlock, Zenon
      <4> QED
        BY <1>3, <2>2, <4>2, Zenon
    <3> QED
      BY <1>3, <1>8, <2>1, <3>1, Zenon
  <2>4. padBlock' = P!Put(padBlock, 0, P!Zeros(room))
    BY <1>3, <1>8, Zenon
  <2> DEFINE zeros == P!Zeros(room)
  <2>5. Len(zeros) = room /\ \A i \in 1 .. room : zeros[i] = 0
    BY <1>6, PadMessage
  <2>6. DOMAIN padBlock = 1 .. BlockBits
    BY <1>3, Zenon
  <2> HIDE DEF zeros
  <2>7. DOMAIN padBlock' = 1 .. BlockBits /\ \A i \in 1 .. room : padBlock'[i] = 0
    <3>1. padBlock' = [i \in 1 .. BlockBits |->
                        IF i \in 0 + 1 .. 0 + room THEN zeros[i - 0] ELSE padBlock[i]]
      BY <2>4, <2>5, <2>6, Zenon DEF P!Put, zeros
    <3>2. \A i \in 1 .. room : i \in 1 .. BlockBits /\ i \in 0 + 1 .. 0 + room /\ i - 0 = i
      BY <1>2, <1>6
    <3> QED
      BY <2>5, <3>1, <3>2
  <2>8. ASSUME NEW i \in 1 .. room
        PROVE  PadBit(m, (base + BlockBits) + i) = 0
    <3>1. /\ (base + BlockBits) + i <= place /\ ~((base + BlockBits) + i <= m)
          /\ (base + BlockBits) + i # m + 1
      BY <1>2, <1>6, <2>1
    <3> QED
      BY <1>5, <3>1, Zenon
  <2>9. \A i \in 1 .. room : padBlock'[i] = PadBit(m, (n - 1) * BlockBits + i)
    BY <2>1, <2>7, <2>8, Zenon
  <2> QED
    BY <1>1, <1>3, <2>3, <2>7, <2>9, Zenon DEF PadInv, m, n
<1> QED
  BY <1>7, <1>8

LEMMA FinishPreserves ==
  ASSUME P!WidthsFit, PadInv, P!Finish
  PROVE  PadInv'
<1> DEFINE m == msg_bitlen
           whole == WholeBlocks(m)
           n == PadBlocks(m)
           place == LengthAt(m)
           room == BlockBits - 2 * WordBits
           upper == P!BitsOfNumber((whole \div Pow2[WordBits]) * BlockBits, WordBits)
           lower == P!BitsOfNumber(m, WordBits)
           number == P!BitsOfNumber(m, 2 * WordBits)
           last == P!Put(padBlock, room, upper \o lower)
<1>1. m \in Nat
  BY DEF PadInv
<1>2. PICK base, rest \in Nat :
           /\ base = whole * BlockBits /\ rest = m % BlockBits /\ rest < BlockBits
           /\ m = base + rest /\ whole \in Nat
           /\ BlockBits \in Nat \ {0} /\ WordBits \in Nat /\ 2 * WordBits <= BlockBits
           /\ IF rest <= BlockBits - 2 * WordBits - 1
              THEN n = whole + 1 /\ (n - 1) * BlockBits = base /\ place = base + BlockBits - 2 * WordBits
              ELSE /\ n = whole + 2 /\ (n - 1) * BlockBits = base + BlockBits
                   /\ place = base + BlockBits + BlockBits - 2 * WordBits
  BY <1>1, PadNumbers, Zenon
<1>3. /\ padAt' = "idle" /\ msg_bitlen' = msg_bitlen
      /\ padDigest = [k \in 1 .. n - 1 |-> PadBlock(m, k)]
      /\ DOMAIN padBlock = 1 .. BlockBits
      /\ \A i \in 1 .. room : padBlock[i] = PadBit(m, (n - 1) * BlockBits + i)
      /\ padDigest' = Append(padDigest, last)
  <2>1. P!LowerWord = m /\ P!UpperWord = (whole \div Pow2[WordBits]) * BlockBits
    <3>1. P!LowerWord = whole * BlockBits + (m % BlockBits)
      BY Zenon DEF P!LowerWord, P!block_num, P!remain, WholeBlocks
    <3>2. P!LowerWord = m
      BY <1>2, <3>1, Zenon
    <3>3. P!UpperWord = (whole \div Pow2[WordBits]) * BlockBits
      BY SamePowers, Zenon DEF P!UpperWord, P!block_num, WholeBlocks
    <3> QED
      BY <3>2, <3>3
  <2> HIDE DEF m, whole
  <2> QED
    BY <2>1, Zenon DEF P!Finish, PadInv, m
<1>4. ASSUME m < Pow2[WordBits]
      PROVE  last = PadBlock(m, n)
  <2>1. upper \o lower = number
    <3>1. whole <= m
      <4>1. PICK d \in Nat \ {0} : d = BlockBits
        BY <1>2
      <4>2. m \div d <= m
        <5>1. PICK q : q = m \div d
          OBVIOUS
        <5>2. q \in Nat /\ q * d \in Nat /\ q * d <= m
          <6>1. q \in Nat /\ q * d \in Nat /\ m % d \in Nat /\ m = q * d + (m % d)
            BY <1>1, <5>1, Remainders
          <6>2. PICK low \in Nat : low = m % d
            BY <6>1
          <6>3. PICK high \in Nat : high = q * d
            BY <6>1
          <6>4. m = high + low
            BY <6>1, <6>2, <6>3, Zenon
          <6>5. high <= m
            BY <6>4
          <6> QED
            BY <6>1, <6>3, <6>5, Zenon
        <5>3. q <= q * d
          <6>1. PICK e \in Nat : d = e + 1
            <7>1. d - 1 \in Nat /\ d = (d - 1) + 1
              OBVIOUS
            <7> QED
              BY <7>1
          <6>2. q * (e + 1) = q * e + q /\ q * e \in Nat
            BY <5>2
          <6> QED
            BY <5>2, <6>1, <6>2
        <5>4. q <= m
          <6>1. PICK high \in Nat : high = q * d
            BY <5>2
          <6>2. q <= high /\ high <= m
            BY <5>2, <5>3, <6>1, Zenon
          <6> HIDE DEF m
          <6> QED
            BY <1>1, <5>2, <6>2
        <5> QED
          BY <5>1, <5>4
      <4> QED
        BY <4>1, <4>2, Zenon DEF WholeBlocks
    <3> HIDE DEF whole, m
    <3> QED
      BY <1>1, <1>2, <1>4, <3>1, LengthBits, Zenon
  <2> HIDE DEF upper, lower
  <2>2. Len(number) = 2 * WordBits
    <3>1. 2 * WordBits \in Nat
      BY <1>2
    <3> QED
      BY <1>1, <3>1, NumberBits
  <2>3. last = [i \in 1 .. BlockBits |->
                 IF i \in room + 1 .. room + 2 * WordBits THEN number[i - room] ELSE padBlock[i]]
    <3> HIDE DEF number
    <3> QED
      BY <1>3, <2>1, <2>2, Zenon DEF P!Put
  <2> DEFINE before == (n - 1) * BlockBits
  <2>4. before \in Nat /\ place = before + room /\ m + 1 <= place
    <3> HIDE DEF place, n, whole, m
    <3> QED
      BY <1>2
  <2>5. \A j : ~(j <= m) /\ j # m + 1 /\ ~(j <= place) => PadBit(m, j) = number[j - place]
    BY Zenon DEF PadBit
  <2>6. ASSUME NEW i \in 1 .. BlockBits
        PROVE  (IF i \in room + 1 .. room + 2 * WordBits THEN number[i - room] ELSE padBlock[i])
                 = PadBit(m, before + i)
    <3> HIDE DEF number, n, place, whole, m, before
    <3>1. CASE i <= room
      <4>1. i \in 1 .. room /\ ~(i \in room + 1 .. room + 2 * WordBits)
        BY <1>2, <3>1
      <4> QED
        BY <1>3, <4>1, Zenon DEF before
    <3>2. CASE i > room
      <4>1. i \in room + 1 .. room + 2 * WordBits
        BY <1>2, <3>2
      <4>2. PICK j : j = before + i
        OBVIOUS
      <4>3. ~(j <= m) /\ j # m + 1 /\ ~(j <= place) /\ j - place = i - room
        BY <1>1, <1>2, <2>4, <3>2, <4>2 DEF m
      <4>4. PadBit(m, j) = number[j - place]
        BY <2>5, <4>3, Zenon
      <4> QED
        BY <4>1, <4>2, <4>3, <4>4, Zenon
    <3> QED
      BY <1>2, <3>1, <3>2
  <2> HIDE DEF number, n, place, whole, before
  <2>7. last = [i \in 1 .. BlockBits |-> PadBit(m, before + i)]
    BY <2>3, <2>6, Zenon
  <2> QED
    BY <2>7, Zenon DEF PadBlock, before
<1> HIDE DEF last
<1>5. ASSUME m < Pow2[WordBits]
      PROVE  padDigest' = [k \in 1 .. n |-> PadBlock(m, k)]
  <2>1. n - 1 \in Nat /\ (n - 1) + 1 = n
    <3> HIDE DEF place, n, whole, m
    <3> QED
      BY <1>2
  <2> HIDE DEF n
  <2>2. Append([k \in 1 .. n - 1 |-> PadBlock(m, k)], PadBlock(m, (n - 1) + 1))
          = [k \in 1 .. (n - 1) + 1 |-> PadBlock(m, k)]
    BY <2>1, OneMoreBlock
  <2>3. last = PadBlock(m, n)
    BY <1>4, <1>5
  <2> QED
    BY <1>3, <2>1, <2>2, <2>3, Zenon
<1> QED
  BY <1>1, <1>3, <1>5 DEF PadInv, m, n

LEMMA PadStep ==
  ASSUME P!WidthsFit, PadInv, [P!Next]_P!vars
  PROVE  PadInv'
<1>1. CASE UNCHANGED P!vars
  BY <1>1 DEF P!vars, PadInv
<1>2. CASE P!WholeBlocks
  BY <1>2, WholePreserves
<1>3. CASE P!LastBlock
  BY <1>3, LastPreserves
<1>4. CASE P!Pad
  BY <1>4, PadPreserves
<1>5. CASE P!Finish
  BY <1>5, FinishPreserves
<1>6. ASSUME NEW bitlen \in 0 .. MaxBitlen, P!sm3_bit(bitlen)
      PROVE  PadInv'
  BY <1>6, BeginPreserves
<1> QED
  BY <1>1, <1>2, <1>3, <1>4, <1>5, <1>6 DEF P!Next

LEMMA PaddedIsHashed ==
  ASSUME P!WidthsFit, NEW m \in Nat
  PROVE  P!FlattenSeq([k \in 1 .. PadBlocks(m) |-> PadBlock(m, k)]) = P!Padded(m)
<1> DEFINE n == PadBlocks(m)
           total == n * BlockBits
           g == [j \in 1 .. total |-> PadBit(m, j)]
<1>1. n \in Nat \ {0} /\ BlockBits \in Nat \ {0} /\ total \in Nat
  BY PadSizes DEF P!WidthsFit
<1>2. P!Padded(m) = g /\ \A j \in 1 .. total : PadBit(m, j) \in Int
  BY PaddedBits, Zenon
<1> HIDE DEF n
<1>3. \A j \in 1 .. total : g[j] = PadBit(m, j) /\ g[j] \in Int
  BY <1>2, Zenon
<1>4. ASSUME NEW k \in 1 .. n, NEW i \in 1 .. BlockBits
      PROVE  (k - 1) * BlockBits + i \in 1 .. total
  <2>1. PICK p, e \in Nat : p = k - 1 /\ n = p + 1 + e
    <3>1. k - 1 \in Nat /\ n - k \in Nat /\ n = (k - 1) + 1 + (n - k)
      BY <1>1
    <3> QED
      BY <3>1
  <2>2. (p + 1 + e) * BlockBits = p * BlockBits + BlockBits + e * BlockBits
        /\ p * BlockBits \in Nat /\ e * BlockBits \in Nat
    BY <1>1
  <2>3. PICK first \in Nat : first = p * BlockBits
    BY <2>2
  <2>4. PICK more \in Nat : more = e * BlockBits
    BY <2>2
  <2>5. total = first + BlockBits + more
    BY <2>1, <2>2, <2>3, <2>4, Zenon
  <2> HIDE DEF total
  <2>6. first + i \in 1 .. total
    BY <1>1, <2>5
  <2> QED
    BY <2>1, <2>3, <2>6, Zenon
<1> HIDE DEF total, g
<1>5. ASSUME NEW k \in 1 .. n
      PROVE  PadBlock(m, k) = [i \in 1 .. BlockBits |-> g[(k - 1) * BlockBits + i]]
  BY <1>3, <1>4, <1>5, Zenon DEF PadBlock
<1>6. [k \in 1 .. n |-> PadBlock(m, k)] = InBlocks(g, n, BlockBits)
  BY <1>5, Zenon DEF InBlocks
<1>7. E!FlattenSeq(InBlocks(g, n, BlockBits)) = [j \in 1 .. total |-> g[j]]
  <2>1. \A j \in 1 .. n * BlockBits : g[j] \in Int
    BY <1>3, Zenon DEF total
  <2> QED
    BY <1>1, <2>1, BlocksFlatten DEF total
<1>8. [j \in 1 .. total |-> g[j]] = g
  BY <1>3 DEF g
<1> QED
  BY <1>2, <1>6, <1>7, <1>8, SameFlatten, Zenon DEF n

\* Messages that end anywhere in a byte and anywhere in a block, the length in
\* the block of the mark or in one more: the blocks sm3_bit compresses are the
\* standard's, for all widths of a byte, a word and a block that fit together.
THEOREM PaddingIsStandard == P!Spec => []PadsAsStandard
<1>1. P!Init => PadInv
  BY DEF P!Init, PadInv
<1>2. PadInv /\ [P!Next]_P!vars => PadInv'
  BY PadStep, PaddingAssumption
<1>3. PadInv => PadsAsStandard
  <2> SUFFICES ASSUME PadInv, msg_bitlen < P!Pow2[WordBits], padAt = "idle", padDigest # << >>
               PROVE  P!FlattenSeq(padDigest) = P!Padded(msg_bitlen)
    BY Zenon DEF PadsAsStandard, P!PadsAsStandard, P!PadsAs
  <2>1. msg_bitlen < Pow2[WordBits]
    BY SamePowers
  <2>2. padDigest = [k \in 1 .. PadBlocks(msg_bitlen) |-> PadBlock(msg_bitlen, k)] /\ msg_bitlen \in Nat
    BY <2>1, Zenon DEF PadInv
  <2> QED
    BY <2>2, PaddedIsHashed, PaddingAssumption, Zenon
<1> QED
  BY <1>1, <1>2, <1>3, PTL DEF P!Spec

-----------------------------------------------------------------------------
(* pseudohash and pseudoXOF: joined strings.                                *)

\* The operators of an instance are its own.
LEMMA SameJoin ==
  ASSUME NEW s PROVE H!FlattenSeq(s) = E!FlattenSeq(s)
BY Zenon DEF H!FlattenSeq, E!FlattenSeq

LEMMA FlattenedOne == ASSUME NEW a PROVE H!FlattenSeq(<<a>>) = a
<1> DEFINE s == <<a>>
<1>1. s[1] = a /\ Len(s) = 1 /\ 1 \in Nat \ {0}
  OBVIOUS
<1> HIDE DEF s
<1>0. H!FlattenSeq(s) = E!FlattenSeq(s)
  BY SameJoin, Zenon
<1>2. PICK f : H!FlattenSeq(s) = f[1] /\ f[1] = s[1]
  <2>1. \E f : E!FlattenSeq(s) = f[1] /\ f[1] = s[1]
    BY <1>1, FlattenSteps, Zenon
  <2> QED
    BY <1>0, <2>1, Zenon
<1> QED
  BY <1>1, <1>2, Zenon DEF s

LEMMA FlattenedTwo == ASSUME NEW a, NEW b PROVE H!FlattenSeq(<<a, b>>) = a \o b
<1> DEFINE s == <<a, b>>
<1>1. s[1] = a /\ s[2] = b /\ Len(s) = 2 /\ 2 \in Nat \ {0}
  OBVIOUS
<1> HIDE DEF s
<1>0. H!FlattenSeq(s) = E!FlattenSeq(s)
  BY SameJoin, Zenon
<1>2. PICK f : H!FlattenSeq(s) = f[2] /\ f[1] = s[1] /\ \A k \in 2 .. 2 : f[k] = f[k - 1] \o s[k]
  <2>1. \E f : E!FlattenSeq(s) = f[2] /\ f[1] = s[1] /\ \A k \in 2 .. 2 : f[k] = f[k - 1] \o s[k]
    BY <1>1, FlattenSteps, Zenon
  <2> QED
    BY <1>0, <2>1, Zenon
<1>3. 2 \in 2 .. 2 /\ 2 - 1 = 1
  OBVIOUS
<1>4. f[2] = f[2 - 1] \o s[2]
  BY <1>2, <1>3, Zenon
<1> QED
  BY <1>1, <1>2, <1>3, <1>4, Zenon DEF s

LEMMA FlattenedThree ==
  ASSUME NEW s, Len(s) = 3
  PROVE  H!FlattenSeq(s) = (s[1] \o s[2]) \o s[3]
<1>1. 3 \in Nat \ {0}
  OBVIOUS
<1>0. H!FlattenSeq(s) = E!FlattenSeq(s)
  BY SameJoin, Zenon
<1>2. PICK f : H!FlattenSeq(s) = f[3] /\ f[1] = s[1] /\ \A k \in 2 .. 3 : f[k] = f[k - 1] \o s[k]
  <2>1. \E f : E!FlattenSeq(s) = f[3] /\ f[1] = s[1] /\ \A k \in 2 .. 3 : f[k] = f[k - 1] \o s[k]
    BY <1>1, FlattenSteps, Zenon
  <2> QED
    BY <1>0, <2>1, Zenon
<1>3. 2 \in 2 .. 3 /\ 2 - 1 = 1 /\ 3 \in 2 .. 3 /\ 3 - 1 = 2
  OBVIOUS
<1>4. f[2] = f[2 - 1] \o s[2] /\ f[3] = f[3 - 1] \o s[3]
  BY <1>2, <1>3, Zenon
<1> QED
  BY <1>2, <1>3, <1>4, Zenon

-----------------------------------------------------------------------------
(* pseudohash and pseudoXOF.                                                *)

\* The hashes of a call, by the names of the code.
Tagged(bits, digestLen) == H!Message(bits) \o H!Tag(digestLen)
H1Of(bits, digestLen) == H!Sm3(Tagged(bits, digestLen))
K1Of(bits, digestLen) == H!Hmac(H!Tag(digestLen) \o H!Message(bits))
H2Of(bits, digestLen) == H!Sm3(K1Of(bits, digestLen) \o H1Of(bits, digestLen))
K2Of(bits, digestLen) == H!Hmac(H1Of(bits, digestLen))
H3Of(bits, digestLen) == H!Sm3(H2Of(bits, digestLen) \o K2Of(bits, digestLen))
K3Of(bits, digestLen) == H!Hmac(H2Of(bits, digestLen))
K4Of(bits, digestLen) == H!Hmac(H3Of(bits, digestLen))
H4Of(bits, digestLen) ==
  H!Sm3((K3Of(bits, digestLen) \o H3Of(bits, digestLen)) \o K4Of(bits, digestLen))

\* What each of the local arrays is to hold.
Promised(bits, digestLen) ==
  [name \in H!Names |->
    CASE name = "k1" -> K1Of(bits, digestLen) [] name = "h1" -> H1Of(bits, digestLen)
      [] name = "k2" -> K2Of(bits, digestLen) [] name = "h2" -> H2Of(bits, digestLen)
      [] name = "k3" -> K3Of(bits, digestLen) [] name = "h3" -> H3Of(bits, digestLen)
      [] name = "k4" -> K4Of(bits, digestLen) [] name = "h4" -> H4Of(bits, digestLen)]

DigestLens == {512, 768, 1024}
Scratch == {"tag_msg", "msg_tag", "msg_ct"}

\* The names whose hashes are computed when the chain is at a step.
Computed(digestLen, n) == {"k1", "h1"} \cup {H!Chain(digestLen)[j].to : j \in 1 .. n - 1}

\* What a call holds and has promised, wherever it is.
CallOrder ==
  /\ lengths.msg \in Nat /\ lengths.output \in Nat
  /\ hashPc \in {"idle", "hash", "k1", "h1", "chain", "buffers"}
  /\ hashPc = "hash" => hashOp = "sm3hash"
  /\ hashPc \in {"k1", "h1", "chain"} => hashOp = "pseudohash" /\ lengths.output \in DigestLens
  /\ hashPc = "buffers" => hashOp = "pseudoXOF"
  /\ hashPc \in {"hash", "buffers"} => held = {}
  /\ hashPc # "idle" => output = H!Untouched /\ held \subseteq Scratch /\ hashOp # "none"
  /\ values = [name \in H!Names |-> values[name]]

\* Every hash it has computed is the promised one.
HashesFollow ==
  /\ hashPc = "h1" => values["k1"] = K1Of(lengths.msg, lengths.output)
  /\ hashPc = "chain" =>
       /\ step \in 1 .. Len(H!Chain(lengths.output)) + 1
       /\ \A name \in Computed(lengths.output, step) :
            values[name] = Promised(lengths.msg, lengths.output)[name]

HashInv == CallOrder /\ HashesFollow /\ H!HashesAllOrNothing

LEMMA WholeBytes ==
  ASSUME NEW bits \in Nat
  PROVE  /\ H!Bytes(bits) \in Nat /\ H!OctetBits * H!Bytes(bits) \in Nat
         /\ H!OctetBits * H!Bytes(bits) \in bits .. bits + 7
         /\ bits % 8 = 0 => H!OctetBits * H!Bytes(bits) = bits
BY DEF H!Bytes, H!OctetBits

LEMMA MessageBits ==
  ASSUME NEW n \in Nat
  PROVE  /\ H!Message(n) \in Seq(Int) /\ Len(H!Message(n)) = n
         /\ H!Zeros(n) \in Seq(Int) /\ Len(H!Zeros(n)) = n
         /\ \A b \in 1 .. n : H!Message(n)[b] = b + 1 /\ H!Zeros(n)[b] = 0
BY DEF H!Message, H!Zeros

\* A tag behind the last bit of a message, wherever in a byte that is.
LEMMA TagFollows ==
  ASSUME NEW bits \in Nat, NEW A, NEW tag \in Seq(A), Len(tag) >= 7
  PROVE  SubSeq(H!MsgThenTag(bits, tag), 1, bits + Len(tag)) = H!Message(bits) \o tag
<1> DEFINE whole == H!OctetBits * H!Bytes(bits)
           copy == H!Message(whole)
           free == Len(copy) - bits
           last == H!normalize(copy, bits)
           T == Int \cup A
<1>1. whole \in Nat /\ whole \in bits .. bits + 7
  BY WholeBytes
<1> HIDE DEF whole
<1>2. /\ copy \in Seq(T) /\ Len(copy) = whole /\ tag \in Seq(T)
      /\ \A b \in 1 .. whole : copy[b] = b + 1
      /\ H!Message(bits) \in Seq(T) /\ Len(H!Message(bits)) = bits
      /\ \A b \in 1 .. bits : H!Message(bits)[b] = b + 1
  <2>1. Seq(Int) \subseteq Seq(T) /\ Seq(A) \subseteq Seq(T)
    OBVIOUS
  <2> QED
    BY <1>1, <2>1, MessageBits
<1>3. /\ H!Message(bits) \o tag \in Seq(T) /\ Len(H!Message(bits) \o tag) = bits + Len(tag)
      /\ \A b \in 1 .. bits : (H!Message(bits) \o tag)[b] = b + 1
      /\ \A b \in 1 .. Len(tag) : (H!Message(bits) \o tag)[bits + b] = tag[b]
  <2> HIDE DEF T
  <2>1. PICK n \in Nat : Len(tag) = n
    OBVIOUS
  <2>2. H!Message(bits) \in Seq(T) /\ Len(H!Message(bits)) = bits /\ tag \in Seq(T)
    BY <1>2
  <2>3. /\ H!Message(bits) \o tag \in Seq(T) /\ Len(H!Message(bits) \o tag) = bits + n
        /\ \A b \in 1 .. bits : (H!Message(bits) \o tag)[b] = H!Message(bits)[b]
        /\ \A b \in 1 .. n : (H!Message(bits) \o tag)[bits + b] = tag[b]
    <3> DEFINE front == H!Message(bits)
    <3>1. front \in Seq(T) /\ Len(front) = bits
      BY <2>2
    <3> HIDE DEF front
    <3>2. /\ front \o tag \in Seq(T) /\ Len(front \o tag) = bits + n
          /\ \A b \in 1 .. bits : (front \o tag)[b] = front[b]
          /\ \A b \in 1 .. n : (front \o tag)[bits + b] = tag[b]
      <4>1. front \in Seq(T) /\ tag \in Seq(T)
        BY <2>2, <3>1, Zenon
      <4>2. /\ front \o tag \in Seq(T) /\ Len(front \o tag) = Len(front) + Len(tag)
            /\ \A b \in 1 .. Len(front) : (front \o tag)[b] = front[b]
            /\ \A b \in 1 .. Len(tag) : (front \o tag)[Len(front) + b] = tag[b]
        BY <4>1, Concatenated
      <4> QED
        BY <2>1, <3>1, <4>2, Zenon
    <3> QED
      BY <3>2, Zenon DEF front
  <2> QED
    BY <1>2, <2>1, <2>3, Zenon
<1>4. free \in 0 .. 7 /\ whole = bits + free
  BY <1>1, <1>2
<1>5. CASE free = 0
  <2>1. H!MsgThenTag(bits, tag) = copy \o tag /\ copy = H!Message(bits)
    BY <1>4, <1>5 DEF H!MsgThenTag, whole
  <2> HIDE DEF copy, free
  <2> QED
    BY <1>3, <2>1
<1>6. CASE free # 0
  <2> DEFINE head == [b \in 1 .. Len(copy) |-> IF b <= bits THEN last[b] ELSE H!XorBit(last[b], tag[b - bits])]
             rest == SubSeq(tag, free + 1, Len(tag))
             joined == head \o rest \o H!Zeros(free)
  <2>1. H!MsgThenTag(bits, tag) = joined
    BY <1>6 DEF H!MsgThenTag, whole
  <2>2. /\ H!Zeros(free) \in Seq(T) /\ Len(H!Zeros(free)) = free
        /\ \A b \in 1 .. free : H!Zeros(free)[b] = 0
    <3> HIDE DEF free
    <3>1. Seq(Int) \subseteq Seq(T) /\ free \in Nat
      BY <1>4
    <3> QED
      BY <3>1, MessageBits
  <2>3. /\ \A b \in 1 .. bits : last[b] = b + 1
        /\ \A b \in bits + 1 .. whole : last[b] = 0
    <3>1. last = SubSeq(copy, 1, bits) \o H!Zeros(free)
      BY DEF H!normalize
    <3> HIDE DEF copy, free, last, T
    <3> DEFINE kept == SubSeq(copy, 1, bits)
    <3>2. kept \in Seq(T) /\ Len(kept) = bits /\ \A b \in 1 .. bits : kept[b] = copy[b]
      <4>1. 0 \in Nat /\ bits \in 0 .. Len(copy) /\ bits - 0 = bits /\ 0 + 1 = 1
            /\ \A b \in 1 .. bits : 0 + b = b
        BY <1>1, <1>2
      <4> QED
        BY <1>2, <4>1, Sub
    <3> HIDE DEF kept
    <3>3. /\ \A b \in 1 .. bits : last[b] = kept[b]
          /\ \A b \in 1 .. free : last[bits + b] = H!Zeros(free)[b]
      BY <2>2, <3>1, <3>2, Concat DEF kept
    <3>4. ASSUME NEW b \in bits + 1 .. whole
          PROVE  last[b] = 0
      <4>1. b - bits \in 1 .. free /\ bits + (b - bits) = b
        BY <1>4, <3>4
      <4> QED
        BY <2>2, <3>3, <4>1
    <3> QED
      BY <1>1, <1>2, <3>2, <3>3, <3>4
  <2>4. ASSUME NEW b \in 1 .. whole
        PROVE  head[b] = (H!Message(bits) \o tag)[b] /\ head[b] \in T
    <3>0. b \in 1 .. Len(copy)
      BY <1>2
    <3>1. head[b] = IF b <= bits THEN last[b] ELSE H!XorBit(last[b], tag[b - bits])
      BY <3>0
    <3> HIDE DEF head, copy, free, last
    <3>2. ASSUME b <= bits
          PROVE  head[b] = (H!Message(bits) \o tag)[b] /\ head[b] = b + 1 /\ b \in 1 .. bits
      BY <1>3, <2>3, <3>1, <3>2
    <3>3. ASSUME b > bits
          PROVE  head[b] = (H!Message(bits) \o tag)[b] /\ head[b] \in A
      <4>1. b - bits \in 1 .. Len(tag) /\ bits + (b - bits) = b
        BY <1>4, <3>3
      <4>2. (H!Message(bits) \o tag)[b] = tag[b - bits] /\ tag[b - bits] \in A
        BY <1>3, <4>1
      <4>3. H!XorBit(last[b], tag[b - bits]) = tag[b - bits]
        BY <1>4, <2>3, <3>3 DEF H!XorBit
      <4> QED
        BY <3>1, <3>3, <4>2, <4>3
    <3>4. (b <= bits \/ b > bits) /\ b + 1 \in Int
      BY <1>1
    <3> QED
      BY <3>2, <3>3, <3>4
  <2>5. head \in Seq(T) /\ Len(head) = whole
    <3>1. head \in [1 .. whole -> T]
      BY <1>2, <2>4
    <3> QED
      BY <1>1, <3>1
  <2>6. /\ rest \in Seq(T) /\ Len(rest) = Len(tag) - free
        /\ \A b \in 1 .. Len(tag) - free : rest[b] = tag[free + b]
    <3> HIDE DEF free, T
    <3>1. free \in Nat /\ Len(tag) \in free .. Len(tag)
      BY <1>2, <1>4
    <3> QED
      BY <1>2, <3>1, Sub
  <2> HIDE DEF head, rest, copy, free, last, T
  <2>7. /\ joined \in Seq(T) /\ Len(joined) = bits + Len(tag) + free
        /\ \A b \in 1 .. whole : joined[b] = head[b]
        /\ \A b \in 1 .. Len(tag) - free : joined[whole + b] = rest[b]
    <3>1. /\ head \o rest \in Seq(T) /\ Len(head \o rest) = whole + (Len(tag) - free)
          /\ \A b \in 1 .. whole : (head \o rest)[b] = head[b]
          /\ \A b \in 1 .. Len(tag) - free : (head \o rest)[whole + b] = rest[b]
      <4>1. head \in Seq(T) /\ Len(head) = whole /\ rest \in Seq(T) /\ Len(rest) = Len(tag) - free
        BY <2>5, <2>6
      <4> QED
        BY <4>1, Concat
    <3>2. /\ joined \in Seq(T) /\ Len(joined) = whole + (Len(tag) - free) + free
          /\ \A b \in 1 .. whole + (Len(tag) - free) : joined[b] = (head \o rest)[b]
      <4>1. /\ head \o rest \in Seq(T) /\ Len(head \o rest) = whole + (Len(tag) - free)
            /\ H!Zeros(free) \in Seq(T) /\ Len(H!Zeros(free)) = free
        BY <2>2, <3>1
      <4>2. /\ (head \o rest) \o H!Zeros(free) \in Seq(T)
            /\ Len((head \o rest) \o H!Zeros(free)) = whole + (Len(tag) - free) + free
            /\ \A b \in 1 .. whole + (Len(tag) - free) :
                 ((head \o rest) \o H!Zeros(free))[b] = (head \o rest)[b]
        <5> DEFINE front == head \o rest
        <5> HIDE DEF front
        <5>1. PICK n : n = whole + (Len(tag) - free)
          OBVIOUS
        <5>2. /\ front \in Seq(T) /\ Len(front) = n
              /\ H!Zeros(free) \in Seq(T) /\ Len(H!Zeros(free)) = free
          BY <4>1, <5>1 DEF front
        <5>3. /\ front \o H!Zeros(free) \in Seq(T) /\ Len(front \o H!Zeros(free)) = n + free
              /\ \A b \in 1 .. n : (front \o H!Zeros(free))[b] = front[b]
          BY <5>2, Concat
        <5> QED
          BY <5>1, <5>3 DEF front
      <4> QED
        BY <4>2
    <3> HIDE DEF joined
    <3>3. /\ \A b \in 1 .. whole : b \in 1 .. whole + (Len(tag) - free)
          /\ \A b \in 1 .. Len(tag) - free : whole + b \in 1 .. whole + (Len(tag) - free)
          /\ whole + (Len(tag) - free) + free = bits + Len(tag) + free
      BY <1>1, <1>2, <1>4
    <3> QED
      BY <3>1, <3>2, <3>3
  <2> HIDE DEF joined
  <2>8. ASSUME NEW b \in 1 .. bits + Len(tag)
        PROVE  joined[b] = (H!Message(bits) \o tag)[b]
    <3>0. Len(tag) \in Nat
      BY <1>2
    <3>3. b <= whole \/ b > whole
      BY <1>1, <3>0
    <3>1. ASSUME b <= whole
          PROVE  joined[b] = (H!Message(bits) \o tag)[b]
      <4>1. b \in 1 .. whole
        BY <1>1, <3>0, <3>1
      <4> QED
        BY <2>4, <2>7, <4>1
    <3>2. ASSUME b > whole
          PROVE  joined[b] = (H!Message(bits) \o tag)[b]
      <4>1. b - whole \in 1 .. Len(tag) - free /\ whole + (b - whole) = b
            /\ free + (b - whole) \in 1 .. Len(tag) /\ bits + (free + (b - whole)) = b
        BY <1>1, <1>4, <3>0, <3>2
      <4> QED
        BY <1>3, <2>6, <2>7, <4>1
    <3> QED
      BY <3>1, <3>2, <3>3
  <2>9. /\ SubSeq(joined, 1, bits + Len(tag)) \in Seq(T)
        /\ Len(SubSeq(joined, 1, bits + Len(tag))) = bits + Len(tag)
        /\ \A b \in 1 .. bits + Len(tag) : SubSeq(joined, 1, bits + Len(tag))[b] = joined[b]
    BY <1>4, <2>7
  <2> QED
    BY <1>3, <2>1, <2>8, <2>9, SameElements
<1> QED
  BY <1>5, <1>6

\* The bits of a tag or a counter, whatever they are.
LEMMA TagBits ==
  ASSUME NEW digestLen, NEW ct
  PROVE  /\ \E A : H!Tag(digestLen) \in Seq(A)
         /\ \E A : H!Counter(ct) \in Seq(A)
         /\ Len(H!Tag(digestLen)) = 16 /\ Len(H!Counter(ct)) = 32
<1>1. ASSUME NEW number
      PROVE  /\ H!BitsOfNumber(number, 8) \in Seq(Int \cup {H!BitsOfNumber(number, 8)[b] : b \in 1 .. 8})
             /\ Len(H!BitsOfNumber(number, 8)) = 8
  <2> DEFINE f == H!BitsOfNumber(number, 8)
  <2>1. f = [b \in 1 .. 8 |-> f[b]]
    BY DEF H!BitsOfNumber
  <2> HIDE DEF f
  <2> DEFINE T == Int \cup {f[b] : b \in 1 .. 8}
  <2>2. f \in [1 .. 8 -> T]
    BY <2>1
  <2> HIDE DEF T
  <2>3. f \in Seq(T) /\ Len(f) = 8
    <3>1. \A n \in Nat : \A g \in [1 .. n -> T] : g \in Seq(T) /\ Len(g) = n
      OBVIOUS
    <3> QED
      BY <2>2, <3>1
  <2> QED
    BY <2>3 DEF f, T
<1>2. ASSUME NEW A
      PROVE  H!Zeros(8) \in Seq(Int \cup A) /\ H!Zeros(24) \in Seq(Int \cup A)
  BY MessageBits
<1>3. Len(H!Zeros(8)) = 8 /\ Len(H!Zeros(24)) = 24
  BY MessageBits
<1>4. PICK A : H!BitsOfNumber(digestLen \div 256, 8) \in Seq(Int \cup A) /\ Len(H!BitsOfNumber(digestLen \div 256, 8)) = 8
  BY <1>1
<1>5. PICK B : H!BitsOfNumber(ct, 8) \in Seq(Int \cup B) /\ Len(H!BitsOfNumber(ct, 8)) = 8
  BY <1>1
<1>6. H!Tag(digestLen) \in Seq(Int \cup A) /\ Len(H!Tag(digestLen)) = 8 + 8
  <2> DEFINE T == Int \cup A
  <2>1. /\ H!BitsOfNumber(digestLen \div 256, 8) \in Seq(T) /\ Len(H!BitsOfNumber(digestLen \div 256, 8)) = 8
        /\ H!Zeros(8) \in Seq(T) /\ Len(H!Zeros(8)) = 8
    BY <1>2, <1>3, <1>4
  <2> HIDE DEF T
  <2> QED
    <3> DEFINE s == H!BitsOfNumber(digestLen \div 256, 8)
               t == H!Zeros(8)
    <3>1. s \in Seq(T) /\ t \in Seq(T)
      BY <2>1
    <3>2. s \o t \in Seq(T) /\ Len(s \o t) = Len(s) + Len(t)
      <4> HIDE DEF s, t
      <4> QED
        BY <3>1, Concatenated
    <3> QED
      BY <2>1, <3>2 DEF H!Tag, T
<1>7. H!Counter(ct) \in Seq(Int \cup B) /\ Len(H!Counter(ct)) = 24 + 8
  <2> DEFINE T == Int \cup B
  <2>1. /\ H!BitsOfNumber(ct, 8) \in Seq(T) /\ Len(H!BitsOfNumber(ct, 8)) = 8
        /\ H!Zeros(24) \in Seq(T) /\ Len(H!Zeros(24)) = 24
    BY <1>2, <1>3, <1>5
  <2> HIDE DEF T
  <2> QED
    <3> DEFINE s == H!Zeros(24)
               t == H!BitsOfNumber(ct, 8)
    <3>1. s \in Seq(T) /\ t \in Seq(T)
      BY <2>1
    <3>2. s \o t \in Seq(T) /\ Len(s \o t) = Len(s) + Len(t)
      <4> HIDE DEF s, t
      <4> QED
        BY <3>1, Concatenated
    <3> QED
      BY <2>1, <3>2 DEF H!Counter, T
<1> QED
  BY <1>6, <1>7

LEMMA FirstHashes ==
  ASSUME NEW bits \in Nat, NEW digestLen
  PROVE  /\ H!Hmac(SubSeq(H!TagThenMsg(bits, H!Tag(digestLen)), 1, 16 + bits)) = K1Of(bits, digestLen)
         /\ H!sm3_bit(H!MsgThenTag(bits, H!Tag(digestLen)), 16 + bits) = H1Of(bits, digestLen)
<1> DEFINE tag == H!Tag(digestLen)
           whole == H!OctetBits * H!Bytes(bits)
<1>1. PICK A : tag \in Seq(A)
  BY TagBits
<1>2. Len(tag) = 16
  BY TagBits
<1> HIDE DEF tag
<1>3. SubSeq(H!MsgThenTag(bits, tag), 1, 16 + bits) = H!Message(bits) \o tag
  <2>1. bits + Len(tag) = 16 + bits /\ Len(tag) >= 7
    BY <1>2
  <2> QED
    BY <1>1, <2>1, TagFollows
<1>4. SubSeq(H!TagThenMsg(bits, tag), 1, 16 + bits) = tag \o H!Message(bits)
  <2> DEFINE T == Int \cup A
             longer == tag \o H!Message(whole)
             asked == tag \o H!Message(bits)
             cut == SubSeq(longer, 1, 16 + bits)
  <2>1. H!TagThenMsg(bits, tag) = longer
    BY DEF H!TagThenMsg
  <2>2. whole \in Nat /\ whole >= bits
    BY WholeBytes
  <2> HIDE DEF whole
  <2>3. /\ tag \in Seq(T) /\ H!Message(whole) \in Seq(T) /\ H!Message(bits) \in Seq(T)
        /\ Len(H!Message(whole)) = whole /\ Len(H!Message(bits)) = bits
    <3>1. Seq(Int) \subseteq Seq(T) /\ Seq(A) \subseteq Seq(T)
      OBVIOUS
    <3> QED
      BY <1>1, <2>2, <3>1, MessageBits
  <2> HIDE DEF T
  <2>4. /\ longer \in Seq(T) /\ Len(longer) = 16 + whole
        /\ \A k \in 1 .. 16 : longer[k] = tag[k]
        /\ \A k \in 1 .. whole : longer[16 + k] = H!Message(whole)[k]
    <3> DEFINE rest == H!Message(whole)
    <3>0. tag \in Seq(T) /\ rest \in Seq(T)
      BY <2>3
    <3>1. Len(tag) = 16 /\ Len(rest) = whole /\ whole \in Nat
      BY <1>2, <2>2, <2>3
    <3> HIDE DEF rest
    <3>2. /\ tag \o rest \in Seq(T) /\ Len(tag \o rest) = 16 + whole
          /\ \A k \in 1 .. 16 : (tag \o rest)[k] = tag[k]
          /\ \A k \in 1 .. whole : (tag \o rest)[16 + k] = rest[k]
      <4>1. /\ tag \o rest \in Seq(T) /\ Len(tag \o rest) = Len(tag) + Len(rest)
            /\ \A k \in 1 .. Len(tag) : (tag \o rest)[k] = tag[k]
            /\ \A k \in 1 .. Len(rest) : (tag \o rest)[Len(tag) + k] = rest[k]
        BY <3>0, Concatenated
      <4> QED
        BY <3>1, <4>1, Zenon
    <3> QED
      BY <3>2 DEF rest
  <2>5. /\ asked \in Seq(T) /\ Len(asked) = 16 + bits
        /\ \A k \in 1 .. 16 : asked[k] = tag[k]
        /\ \A k \in 1 .. bits : asked[16 + k] = H!Message(bits)[k]
    <3> DEFINE rest == H!Message(bits)
    <3>0. tag \in Seq(T) /\ rest \in Seq(T)
      BY <2>3
    <3>1. Len(tag) = 16 /\ Len(rest) = bits /\ bits \in Nat
      BY <1>2, <2>2, <2>3
    <3> HIDE DEF rest
    <3>2. /\ tag \o rest \in Seq(T) /\ Len(tag \o rest) = 16 + bits
          /\ \A k \in 1 .. 16 : (tag \o rest)[k] = tag[k]
          /\ \A k \in 1 .. bits : (tag \o rest)[16 + k] = rest[k]
      <4>1. /\ tag \o rest \in Seq(T) /\ Len(tag \o rest) = Len(tag) + Len(rest)
            /\ \A k \in 1 .. Len(tag) : (tag \o rest)[k] = tag[k]
            /\ \A k \in 1 .. Len(rest) : (tag \o rest)[Len(tag) + k] = rest[k]
        BY <3>0, Concatenated
      <4> QED
        BY <3>1, <4>1, Zenon
    <3> QED
      BY <3>2 DEF rest
  <2> HIDE DEF longer, asked
  <2>6. /\ cut \in Seq(T) /\ Len(cut) = 16 + bits
        /\ \A k \in 1 .. 16 + bits : cut[k] = longer[k]
    BY <2>2, <2>4
  <2> HIDE DEF cut
  <2>7. ASSUME NEW k \in 1 .. 16 + bits
        PROVE  longer[k] = asked[k]
    <3>1. ASSUME k <= 16
          PROVE  longer[k] = asked[k]
      <4>1. k \in 1 .. 16
        BY <3>1
      <4> QED
        BY <2>4, <2>5, <4>1
    <3>2. ASSUME k > 16
          PROVE  longer[k] = asked[k]
      <4>1. k - 16 \in 1 .. bits /\ k - 16 \in 1 .. whole /\ 16 + (k - 16) = k
        BY <2>2, <3>2
      <4>2. H!Message(whole)[k - 16] = H!Message(bits)[k - 16]
        BY <2>2, <4>1, MessageBits
      <4> QED
        BY <2>4, <2>5, <4>1, <4>2
    <3> QED
      BY <3>1, <3>2
  <2>8. cut = asked
    BY <2>5, <2>6, <2>7, SameElements
  <2> QED
    BY <2>1, <2>8 DEF cut, asked
<1> QED
  BY <1>3, <1>4 DEF H!sm3_bit, H1Of, K1Of, Tagged, tag

LEMMA PromisedHashes ==
  ASSUME NEW bits, NEW d
  PROVE  LET p == Promised(bits, d)
         IN /\ p["k1"] = K1Of(bits, d) /\ p["h1"] = H1Of(bits, d)
            /\ p["k2"] = K2Of(bits, d) /\ p["h2"] = H2Of(bits, d)
            /\ p["k3"] = K3Of(bits, d) /\ p["h3"] = H3Of(bits, d)
            /\ p["k4"] = K4Of(bits, d) /\ p["h4"] = H4Of(bits, d)
BY DEF Promised, H!Names

LEMMA JoinsOne ==
  ASSUME NEW f, NEW a
  PROVE  H!Join(<<a>>, f) = f[a]
<1>1. [k \in DOMAIN <<a>> |-> f[<<a>>[k]]] = <<f[a]>>
  OBVIOUS
<1>2. H!Join(<<a>>, f) = H!FlattenSeq(<<f[a]>>)
  BY <1>1, Zenon DEF H!Join
<1> QED
  BY <1>2, FlattenedOne, Zenon

LEMMA JoinsTwo ==
  ASSUME NEW f, NEW a, NEW b
  PROVE  H!Join(<<a, b>>, f) = f[a] \o f[b]
<1>1. [k \in DOMAIN <<a, b>> |-> f[<<a, b>>[k]]] = <<f[a], f[b]>>
  OBVIOUS
<1>2. H!Join(<<a, b>>, f) = H!FlattenSeq(<<f[a], f[b]>>)
  BY <1>1, Zenon DEF H!Join
<1> QED
  BY <1>2, FlattenedTwo, Zenon

LEMMA JoinsThree ==
  ASSUME NEW f, NEW of, DOMAIN of = 1 .. 3
  PROVE  H!Join(of, f) = (f[of[1]] \o f[of[2]]) \o f[of[3]]
<1> DEFINE s == [k \in DOMAIN of |-> f[of[k]]]
<1>1. Len(s) = 3 /\ s[1] = f[of[1]] /\ s[2] = f[of[2]] /\ s[3] = f[of[3]]
  OBVIOUS
<1>2. H!Join(of, f) = H!FlattenSeq(s)
  BY Zenon DEF H!Join
<1> HIDE DEF s
<1> QED
  BY <1>1, <1>2, FlattenedThree, Zenon

\* Each hash is one of those the chain names before it.
LEMMA PromisedJoins ==
  ASSUME NEW bits, NEW d
  PROVE  LET p == Promised(bits, d)
         IN /\ p["h2"] = H!Sm3(H!Join(<<"k1", "h1">>, p))
            /\ p["h3"] = H!Sm3(H!Join(<<"h2", "k2">>, p))
            /\ p["h4"] = H!Sm3(H!Join(<<"k3", "h3", "k4">>, p))
            /\ p["k2"] = H!Hmac(H!Join(<<"h1">>, p))
            /\ p["k3"] = H!Hmac(H!Join(<<"h2">>, p))
            /\ p["k4"] = H!Hmac(H!Join(<<"h3">>, p))
<1> DEFINE p == Promised(bits, d)
<1> HIDE DEF p
<1>1. /\ p["h2"] = H!Sm3(p["k1"] \o p["h1"]) /\ p["h3"] = H!Sm3(p["h2"] \o p["k2"])
      /\ p["h4"] = H!Sm3((p["k3"] \o p["h3"]) \o p["k4"])
      /\ p["k2"] = H!Hmac(p["h1"]) /\ p["k3"] = H!Hmac(p["h2"]) /\ p["k4"] = H!Hmac(p["h3"])
  BY PromisedHashes, Zenon DEF p, H2Of, H3Of, H4Of, K2Of, K3Of, K4Of
<1>2. /\ H!Join(<<"k1", "h1">>, p) = p["k1"] \o p["h1"]
      /\ H!Join(<<"h2", "k2">>, p) = p["h2"] \o p["k2"]
      /\ H!Join(<<"k3", "h3", "k4">>, p) = (p["k3"] \o p["h3"]) \o p["k4"]
      /\ H!Join(<<"h1">>, p) = p["h1"] /\ H!Join(<<"h2">>, p) = p["h2"]
      /\ H!Join(<<"h3">>, p) = p["h3"]
  <2>1. H!Join(<<"k1", "h1">>, p) = p["k1"] \o p["h1"]
    BY JoinsTwo, Zenon
  <2>2. H!Join(<<"h2", "k2">>, p) = p["h2"] \o p["k2"]
    BY JoinsTwo, Zenon
  <2>3. H!Join(<<"k3", "h3", "k4">>, p) = (p["k3"] \o p["h3"]) \o p["k4"]
    <3> DEFINE of == <<"k3", "h3", "k4">>
    <3>1. DOMAIN of = 1 .. 3 /\ of[1] = "k3" /\ of[2] = "h3" /\ of[3] = "k4"
      OBVIOUS
    <3> HIDE DEF of
    <3>2. H!Join(of, p) = (p["k3"] \o p["h3"]) \o p["k4"]
      BY <3>1, JoinsThree, Zenon
    <3> QED
      BY <3>2 DEF of
  <2>4. /\ H!Join(<<"h1">>, p) = p["h1"] /\ H!Join(<<"h2">>, p) = p["h2"]
        /\ H!Join(<<"h3">>, p) = p["h3"]
    BY JoinsOne, Zenon
  <2> QED
    BY <2>1, <2>2, <2>3, <2>4, Zenon
<1> QED
  BY <1>1, <1>2, Zenon DEF p

\* What the chain computes next, and from hashes it has.
NextOf(bits, d, k) ==
  LET next == H!Chain(d)[k]
      joined == H!Join(next.of, Promised(bits, d))
  IN /\ next.to \in H!Names
     /\ \A j \in DOMAIN next.of : next.of[j] \in Computed(d, k)
     /\ Promised(bits, d)[next.to] = IF next.keyed THEN H!Hmac(joined) ELSE H!Sm3(joined)

LEMMA NextOne ==
  ASSUME NEW bits, NEW d, NEW k, NEW to \in H!Names, NEW a \in Computed(d, k),
         H!Chain(d)[k] = H!Then(to, TRUE, <<a>>),
         Promised(bits, d)[to] = H!Hmac(H!Join(<<a>>, Promised(bits, d)))
  PROVE  NextOf(bits, d, k)
<1>1. H!Chain(d)[k].to = to /\ H!Chain(d)[k].keyed /\ H!Chain(d)[k].of = <<a>>
  BY DEF H!Then
<1>2. \A j \in DOMAIN <<a>> : <<a>>[j] \in Computed(d, k)
  OBVIOUS
<1> QED
  BY <1>1, <1>2, Zenon DEF NextOf

LEMMA NextTwo ==
  ASSUME NEW bits, NEW d, NEW k, NEW to \in H!Names, NEW a \in Computed(d, k), NEW b \in Computed(d, k),
         H!Chain(d)[k] = H!Then(to, FALSE, <<a, b>>),
         Promised(bits, d)[to] = H!Sm3(H!Join(<<a, b>>, Promised(bits, d)))
  PROVE  NextOf(bits, d, k)
<1>1. H!Chain(d)[k].to = to /\ ~H!Chain(d)[k].keyed /\ H!Chain(d)[k].of = <<a, b>>
  BY DEF H!Then
<1>2. \A j \in DOMAIN <<a, b>> : <<a, b>>[j] \in Computed(d, k)
  OBVIOUS
<1> QED
  BY <1>1, <1>2, Zenon DEF NextOf

LEMMA NextThree ==
  ASSUME NEW bits, NEW d, NEW k, NEW to \in H!Names,
         NEW a \in Computed(d, k), NEW b \in Computed(d, k), NEW c \in Computed(d, k),
         H!Chain(d)[k] = H!Then(to, FALSE, <<a, b, c>>),
         Promised(bits, d)[to] = H!Sm3(H!Join(<<a, b, c>>, Promised(bits, d)))
  PROVE  NextOf(bits, d, k)
<1>1. H!Chain(d)[k].to = to /\ ~H!Chain(d)[k].keyed /\ H!Chain(d)[k].of = <<a, b, c>>
  BY DEF H!Then
<1>2. \A j \in DOMAIN <<a, b, c>> : <<a, b, c>>[j] \in Computed(d, k)
  OBVIOUS
<1> QED
  BY <1>1, <1>2, Zenon DEF NextOf

LEMMA IsComputed ==
  ASSUME NEW d, NEW k, NEW j \in 1 .. k - 1, NEW to, NEW keyed, NEW of,
         H!Chain(d)[j] = H!Then(to, keyed, of)
  PROVE  to \in Computed(d, k)
<1>1. H!Chain(d)[j].to = to
  BY DEF H!Then
<1> QED
  BY <1>1 DEF Computed

LEMMA ChainIsPromised ==
  ASSUME NEW bits, NEW d \in DigestLens, NEW k \in DOMAIN H!Chain(d)
  PROVE  NextOf(bits, d, k)
<1> DEFINE p == Promised(bits, d)
<1> HIDE DEF p
<1>1. /\ "h2" \in H!Names /\ "h3" \in H!Names /\ "h4" \in H!Names
      /\ "k2" \in H!Names /\ "k3" \in H!Names /\ "k4" \in H!Names
  BY DEF H!Names
<1>2. \A n : "k1" \in Computed(d, n) /\ "h1" \in Computed(d, n)
  BY DEF Computed
<1>3. /\ p["h2"] = H!Sm3(H!Join(<<"k1", "h1">>, p))
      /\ p["h3"] = H!Sm3(H!Join(<<"h2", "k2">>, p))
      /\ p["h4"] = H!Sm3(H!Join(<<"k3", "h3", "k4">>, p))
      /\ p["k2"] = H!Hmac(H!Join(<<"h1">>, p))
      /\ p["k3"] = H!Hmac(H!Join(<<"h2">>, p))
      /\ p["k4"] = H!Hmac(H!Join(<<"h3">>, p))
  BY PromisedJoins, Zenon DEF p
<1>4. CASE d = 512
  <2>0. DOMAIN H!Chain(d) = 1 .. 1
    BY <1>4 DEF H!Chain
  <2>1. H!Chain(d)[1] = H!Then("h2", FALSE, <<"k1", "h1">>)
    BY <1>4 DEF H!Chain
  <2>2. NextOf(bits, d, 1)
    BY <1>1, <1>2, <1>3, <2>1, NextTwo, Zenon DEF p
  <2>3. k = 1
    BY <2>0
  <2> QED
    BY <2>2, <2>3, Zenon
<1>5. CASE d = 768
  <2>0. DOMAIN H!Chain(d) = 1 .. 3
    BY <1>5 DEF H!Chain
  <2>1. H!Chain(d)[1] = H!Then("k2", TRUE, <<"h1">>)
    BY <1>5 DEF H!Chain
  <2>2. H!Chain(d)[2] = H!Then("h2", FALSE, <<"k1", "h1">>)
    BY <1>5 DEF H!Chain
  <2>3. H!Chain(d)[3] = H!Then("h3", FALSE, <<"h2", "k2">>)
    BY <1>5 DEF H!Chain
  <2>4. NextOf(bits, d, 1)
    BY <1>1, <1>2, <1>3, <2>1, NextOne, Zenon DEF p
  <2>5. NextOf(bits, d, 2)
    BY <1>1, <1>2, <1>3, <2>2, NextTwo, Zenon DEF p
  <2>6. NextOf(bits, d, 3)
    <3>1. "h2" \in Computed(d, 3)
      <4>1. 2 \in 1 .. 3 - 1
        OBVIOUS
      <4> QED
        BY <2>2, <4>1, IsComputed, Zenon
    <3>2. "k2" \in Computed(d, 3)
      <4>1. 1 \in 1 .. 3 - 1
        OBVIOUS
      <4> QED
        BY <2>1, <4>1, IsComputed, Zenon
    <3> QED
      BY <1>1, <1>2, <1>3, <2>3, <3>1, <3>2, NextTwo, Zenon DEF p
  <2>7. k = 1 \/ k = 2 \/ k = 3
    BY <2>0
  <2> QED
    BY <2>4, <2>5, <2>6, <2>7, Zenon
<1>6. CASE d = 1024
  <2>0. DOMAIN H!Chain(d) = 1 .. 6
    BY <1>6 DEF H!Chain
  <2>1. H!Chain(d)[1] = H!Then("k2", TRUE, <<"h1">>)
    BY <1>6 DEF H!Chain
  <2>2. H!Chain(d)[2] = H!Then("h2", FALSE, <<"k1", "h1">>)
    BY <1>6 DEF H!Chain
  <2>3. H!Chain(d)[3] = H!Then("k3", TRUE, <<"h2">>)
    BY <1>6 DEF H!Chain
  <2>4. H!Chain(d)[4] = H!Then("h3", FALSE, <<"h2", "k2">>)
    BY <1>6 DEF H!Chain
  <2>5. H!Chain(d)[5] = H!Then("k4", TRUE, <<"h3">>)
    BY <1>6 DEF H!Chain
  <2>6. H!Chain(d)[6] = H!Then("h4", FALSE, <<"k3", "h3", "k4">>)
    BY <1>6 DEF H!Chain
  <2>7. NextOf(bits, d, 1)
    BY <1>1, <1>2, <1>3, <2>1, NextOne, Zenon DEF p
  <2>8. NextOf(bits, d, 2)
    BY <1>1, <1>2, <1>3, <2>2, NextTwo, Zenon DEF p
  <2>9. NextOf(bits, d, 3)
    <3>1. "h2" \in Computed(d, 3)
      <4>1. 2 \in 1 .. 3 - 1
        OBVIOUS
      <4> QED
        BY <2>2, <4>1, IsComputed, Zenon
    <3> QED
      BY <1>1, <1>2, <1>3, <2>3, <3>1, NextOne, Zenon DEF p
  <2>10. NextOf(bits, d, 4)
    <3>1. "h2" \in Computed(d, 4)
      <4>1. 2 \in 1 .. 4 - 1
        OBVIOUS
      <4> QED
        BY <2>2, <4>1, IsComputed, Zenon
    <3>2. "k2" \in Computed(d, 4)
      <4>1. 1 \in 1 .. 4 - 1
        OBVIOUS
      <4> QED
        BY <2>1, <4>1, IsComputed, Zenon
    <3> QED
      BY <1>1, <1>2, <1>3, <2>4, <3>1, <3>2, NextTwo, Zenon DEF p
  <2>11. NextOf(bits, d, 5)
    <3>1. "h3" \in Computed(d, 5)
      <4>1. 4 \in 1 .. 5 - 1
        OBVIOUS
      <4> QED
        BY <2>4, <4>1, IsComputed, Zenon
    <3> QED
      BY <1>1, <1>2, <1>3, <2>5, <3>1, NextOne, Zenon DEF p
  <2>12. NextOf(bits, d, 6)
    <3>1. "k3" \in Computed(d, 6)
      <4>1. 3 \in 1 .. 6 - 1
        OBVIOUS
      <4> QED
        BY <2>3, <4>1, IsComputed, Zenon
    <3>2. "h3" \in Computed(d, 6)
      <4>1. 4 \in 1 .. 6 - 1
        OBVIOUS
      <4> QED
        BY <2>4, <4>1, IsComputed, Zenon
    <3>3. "k4" \in Computed(d, 6)
      <4>1. 5 \in 1 .. 6 - 1
        OBVIOUS
      <4> QED
        BY <2>5, <4>1, IsComputed, Zenon
    <3> QED
      BY <1>1, <1>2, <1>3, <2>6, <3>1, <3>2, <3>3, NextThree, Zenon DEF p
  <2>13. k = 1 \/ k = 2 \/ k = 3 \/ k = 4 \/ k = 5 \/ k = 6
    BY <2>0
  <2> QED
    BY <2>7, <2>8, <2>9, <2>10, <2>11, <2>12, <2>13, Zenon
<1> QED
  BY <1>4, <1>5, <1>6 DEF DigestLens

\* What a hash of the chain joins are the promised ones.
LEMMA JoinsAgree ==
  ASSUME NEW names, NEW f, NEW g, \A j \in DOMAIN names : f[names[j]] = g[names[j]]
  PROVE  H!Join(names, f) = H!Join(names, g)
<1>1. [j \in DOMAIN names |-> f[names[j]]] = [j \in DOMAIN names |-> g[names[j]]]
  BY Zenon
<1> QED
  BY <1>1, Zenon DEF H!Join

LEMMA FirstOfFour ==
  ASSUME NEW four, Len(four) = 4, four \in Seq({four[1], four[2], four[3], four[4]}), NEW n \in 1 .. 4
  PROVE  SubSeq(four, 1, n) = [k \in 1 .. n |-> four[k]]
<1> DEFINE T == {four[1], four[2], four[3], four[4]}
<1>1. four \in Seq(T)
  OBVIOUS
<1> HIDE DEF T
<1> QED
  BY <1>1

\* The names whose hashes a finished chain has.
LEMMA AllComputed ==
  ASSUME NEW d \in DigestLens
  PROVE  LET C == Computed(d, Len(H!Chain(d)) + 1)
         IN "h1" \in C /\ "h2" \in C /\ (d # 512 => "h3" \in C) /\ (d = 1024 => "h4" \in C)
<1> DEFINE n == Len(H!Chain(d)) + 1
<1>1. "h1" \in Computed(d, n)
  BY DEF Computed
<1>2. CASE d = 512
  <2>1. n = 2 /\ 1 \in 1 .. 2 - 1 /\ H!Chain(d)[1] = H!Then("h2", FALSE, <<"k1", "h1">>)
    BY <1>2 DEF H!Chain
  <2> HIDE DEF n
  <2>2. "h2" \in Computed(d, 2)
    BY <2>1, IsComputed, Zenon
  <2> QED
    BY <1>1, <1>2, <2>1, <2>2 DEF n
<1>3. CASE d = 768
  <2>1. n = 4 /\ 2 \in 1 .. 4 - 1 /\ H!Chain(d)[2] = H!Then("h2", FALSE, <<"k1", "h1">>)
    BY <1>3 DEF H!Chain
  <2>2. 3 \in 1 .. 4 - 1 /\ H!Chain(d)[3] = H!Then("h3", FALSE, <<"h2", "k2">>)
    BY <1>3 DEF H!Chain
  <2> HIDE DEF n
  <2>3. "h2" \in Computed(d, 4)
    BY <2>1, IsComputed, Zenon
  <2>4. "h3" \in Computed(d, 4)
    BY <2>2, IsComputed, Zenon
  <2> QED
    BY <1>1, <1>3, <2>1, <2>3, <2>4 DEF n
<1>4. CASE d = 1024
  <2>1. n = 7 /\ 2 \in 1 .. 7 - 1 /\ H!Chain(d)[2] = H!Then("h2", FALSE, <<"k1", "h1">>)
    BY <1>4 DEF H!Chain
  <2>2. 4 \in 1 .. 7 - 1 /\ H!Chain(d)[4] = H!Then("h3", FALSE, <<"h2", "k2">>)
    BY <1>4 DEF H!Chain
  <2>3. 6 \in 1 .. 7 - 1 /\ H!Chain(d)[6] = H!Then("h4", FALSE, <<"k3", "h3", "k4">>)
    BY <1>4 DEF H!Chain
  <2> HIDE DEF n
  <2>4. "h2" \in Computed(d, 7)
    BY <2>1, IsComputed, Zenon
  <2>5. "h3" \in Computed(d, 7)
    BY <2>2, IsComputed, Zenon
  <2>6. "h4" \in Computed(d, 7)
    BY <2>3, IsComputed, Zenon
  <2> QED
    BY <1>1, <2>1, <2>4, <2>5, <2>6 DEF n
<1> QED
  BY <1>2, <1>3, <1>4 DEF DigestLens

\* The hashes a finished chain delivers are those over strings of bits.
HashNames == <<"h1", "h2", "h3", "h4">>
LEMMA ChainDelivers ==
  ASSUME NEW bits, NEW d \in DigestLens, NEW f,
         \A name \in Computed(d, Len(H!Chain(d)) + 1) : f[name] = Promised(bits, d)[name]
  PROVE  LET names == SubSeq(HashNames, 1, d \div H!DigestBits)
         IN [k \in DOMAIN names |-> f[names[k]]] = H!PseudohashOf(H!Message(bits), d)
<1> DEFINE n == d \div H!DigestBits
           names == SubSeq(HashNames, 1, n)
           p == Promised(bits, d)
           all == <<p["h1"], p["h2"], p["h3"], p["h4"]>>
           hashes == SubSeq(all, 1, n)
<1>1. H!PseudohashOf(H!Message(bits), d) = hashes
  <2>1. H!PseudohashOf(H!Message(bits), d)
          = SubSeq(<<H1Of(bits, d), H2Of(bits, d), H3Of(bits, d), H4Of(bits, d)>>, 1, n)
    BY Zenon DEF H!PseudohashOf, H1Of, H2Of, H3Of, H4Of, K1Of, K2Of, K3Of, K4Of, Tagged
  <2> HIDE DEF n
  <2> QED
    BY <2>1, PromisedHashes, Zenon
<1> HIDE DEF p
<1>2. n \in 2 .. 4 /\ (n >= 3 => d # 512) /\ (n = 4 => d = 1024)
  BY DEF DigestLens, H!DigestBits
<1> HIDE DEF n
<1>3. names = [k \in 1 .. n |-> HashNames[k]]
  <2>1. Len(HashNames) = 4
        /\ HashNames \in Seq({HashNames[1], HashNames[2], HashNames[3], HashNames[4]})
    BY DEF HashNames
  <2>2. n \in 1 .. 4
    BY <1>2
  <2> QED
    BY <2>1, <2>2, FirstOfFour, Zenon
<1>4. hashes = [k \in 1 .. n |-> all[k]]
  <2>1. Len(all) = 4 /\ all \in Seq({all[1], all[2], all[3], all[4]})
    OBVIOUS
  <2>2. n \in 1 .. 4
    BY <1>2
  <2> HIDE DEF all
  <2> QED
    BY <2>1, <2>2, FirstOfFour, Zenon
<1>5. /\ f["h1"] = p["h1"] /\ f["h2"] = p["h2"]
      /\ (d # 512 => f["h3"] = p["h3"]) /\ (d = 1024 => f["h4"] = p["h4"])
  BY AllComputed DEF p
<1>6. ASSUME NEW k \in 1 .. n
      PROVE  f[HashNames[k]] = all[k]
  <2>1. /\ HashNames[1] = "h1" /\ HashNames[2] = "h2" /\ HashNames[3] = "h3" /\ HashNames[4] = "h4"
        /\ all[1] = p["h1"] /\ all[2] = p["h2"] /\ all[3] = p["h3"] /\ all[4] = p["h4"]
    BY DEF HashNames
  <2> HIDE DEF all
  <2>2. \/ k = 1 \/ k = 2 \/ (k = 3 /\ d # 512) \/ (k = 4 /\ d = 1024)
    <3>1. k = 1 \/ k = 2 \/ (k = 3 /\ n >= 3) \/ (k = 4 /\ n = 4)
      BY <1>2
    <3> QED
      BY <1>2, <3>1
  <2> QED
    BY <1>5, <2>1, <2>2
<1> HIDE DEF hashes, all
<1>7. /\ DOMAIN names = 1 .. n
      /\ \A k \in 1 .. n : names[k] = HashNames[k]
  BY <1>3
<1> HIDE DEF names
<1>8. [k \in 1 .. n |-> f[names[k]]] = [k \in 1 .. n |-> all[k]]
  BY <1>6, <1>7, Zenon
<1> QED
  BY <1>1, <1>4, <1>7, <1>8, Zenon DEF names, n, hashes

\* The bits of the caller's message, and of a pseudoXOF.
LEMMA FirstBits ==
  ASSUME NEW bits \in Nat, NEW whole \in Nat, bits <= whole
  PROVE  SubSeq(H!Message(whole), 1, bits) = H!Message(bits)
<1>1. H!Message(whole) \in Seq(Int) /\ Len(H!Message(whole)) = whole
      /\ \A b \in 1 .. whole : H!Message(whole)[b] = b + 1
  BY MessageBits
<1>2. H!Message(bits) \in Seq(Int) /\ Len(H!Message(bits)) = bits
      /\ \A b \in 1 .. bits : H!Message(bits)[b] = b + 1
  BY MessageBits
<1>3. SubSeq(H!Message(whole), 1, bits) \in Seq(Int) /\ Len(SubSeq(H!Message(whole), 1, bits)) = bits
      /\ \A b \in 1 .. bits : SubSeq(H!Message(whole), 1, bits)[b] = H!Message(whole)[b]
  BY <1>1
<1>4. \A b \in 1 .. bits : H!Message(whole)[b] = H!Message(bits)[b]
  BY <1>1, <1>2
<1> QED
  BY <1>2, <1>3, <1>4, SameElements

LEMMA Normalized ==
  ASSUME NEW bits \in Nat
  PROVE  LET copied == H!Message(H!OctetBits * H!Bytes(bits))
             kept == IF bits % H!DigestBits = 0 THEN copied ELSE H!normalize(copied, bits)
         IN kept = H!Message(bits) \o H!Zeros(Len(kept) - bits)
<1> DEFINE whole == H!OctetBits * H!Bytes(bits)
           copied == H!Message(whole)
<1>1. whole \in Nat /\ bits <= whole /\ (bits % H!DigestBits = 0 => whole = bits)
  <2>1. bits % 256 = 0 => bits % 8 = 0
    OBVIOUS
  <2>2. whole \in Nat /\ whole \in bits .. bits + 7 /\ (bits % 8 = 0 => whole = bits)
    BY WholeBytes
  <2> HIDE DEF whole
  <2> QED
    BY <2>1, <2>2 DEF H!DigestBits
<1> HIDE DEF whole
<1>2. Len(copied) = whole /\ H!Message(bits) \in Seq(Int) /\ Len(H!Message(bits)) = bits
  BY <1>1, MessageBits
<1> HIDE DEF copied
<1>3. CASE bits % H!DigestBits = 0
  <2>1. H!Message(bits) \o H!Zeros(0) = H!Message(bits)
    <3>1. H!Zeros(0) = << >>
      BY DEF H!Zeros
    <3> QED
      BY <1>2, <3>1
  <2>2. copied = H!Message(bits) /\ Len(copied) - bits = 0
    BY <1>1, <1>2, <1>3 DEF copied
  <2> QED
    BY <1>3, <2>1, <2>2 DEF copied, whole
<1>4. CASE bits % H!DigestBits # 0
  <2> DEFINE kept == H!normalize(copied, bits)
  <2>1. kept = H!Message(bits) \o H!Zeros(whole - bits)
    <3>1. SubSeq(copied, 1, bits) = H!Message(bits)
      BY <1>1, FirstBits DEF copied
    <3> QED
      BY <1>2, <3>1, Zenon DEF H!normalize
  <2> HIDE DEF kept
  <2>2. Len(kept) = whole
    <3>1. PICK free \in Nat : free = whole - bits
      BY <1>1
    <3>2. H!Zeros(free) \in Seq(Int) /\ Len(H!Zeros(free)) = free
      BY MessageBits
    <3>3. Len(kept) = bits + free
      <4> DEFINE front == H!Message(bits)
                 back == H!Zeros(free)
      <4>1. front \in Seq(Int) /\ back \in Seq(Int) /\ Len(front) = bits /\ Len(back) = free
            /\ kept = front \o back
        BY <1>2, <2>1, <3>1, <3>2
      <4> HIDE DEF front, back
      <4> QED
        BY <4>1
    <3> QED
      BY <1>1, <3>1, <3>3
  <2> QED
    BY <1>4, <2>1, <2>2 DEF copied, whole, kept
<1> QED
  BY <1>3, <1>4

-----------------------------------------------------------------------------
LEMMA CallPreserves ==
  ASSUME HashInv, NEW operation \in {"sm3hash", "pseudohash", "pseudoXOF"},
         NEW msgLen \in Nat, NEW outputLen \in Nat, H!Call(operation, msgLen, outputLen)
  PROVE  HashInv'
<1>1. hashPc' = H!Entry(operation, outputLen) /\ hashOp' = operation
      /\ lengths' = [msg |-> msgLen, output |-> outputLen] /\ values' = H!NoValues
      /\ held' = {} /\ output' = H!Untouched /\ (hashPc' = "idle" => hashResult' = -4)
  BY DEF H!Call
<1>2. \/ hashPc' = "hash" /\ operation = "sm3hash"
      \/ hashPc' = "k1" /\ operation = "pseudohash" /\ outputLen \in DigestLens
      \/ hashPc' = "buffers" /\ operation = "pseudoXOF"
      \/ hashPc' = "idle"
  BY <1>1 DEF H!Entry, DigestLens
<1>3. CallOrder'
  <2>1. lengths'.msg = msgLen /\ lengths'.output = outputLen /\ operation # "none"
    BY <1>1
  <2>2. values' = [name \in H!Names |-> values'[name]]
    BY <1>1 DEF H!NoValues
  <2> QED
    BY <1>1, <1>2, <2>1, <2>2 DEF CallOrder
<1>4. HashesFollow'
  BY <1>2 DEF HashesFollow
<1>5. H!HashesAllOrNothing'
  BY <1>1, <1>2 DEF H!HashesAllOrNothing
<1> QED
  BY <1>3, <1>4, <1>5 DEF HashInv

LEMMA FailurePreserves ==
  ASSUME HashInv, H!AllocationFails
  PROVE  HashInv'
<1>1. /\ hashPc # "idle" /\ hashPc' = "idle" /\ hashResult' \in {-2, -3}
      /\ (held' = held \/ held' \subseteq Scratch)
      /\ hashOp' = hashOp /\ lengths' = lengths /\ values' = values /\ output' = output
  BY DEF H!AllocationFails, H!Return, H!InChain, Scratch
<1>2. output = H!Untouched /\ held \subseteq Scratch /\ hashOp # "none"
  BY <1>1 DEF HashInv, CallOrder
<1>3. CallOrder'
  BY <1>1 DEF HashInv, CallOrder
<1>4. HashesFollow'
  BY <1>1 DEF HashesFollow
<1>5. H!HashesAllOrNothing'
  BY <1>1, <1>2 DEF H!HashesAllOrNothing, Scratch
<1> QED
  BY <1>3, <1>4, <1>5 DEF HashInv

LEMMA Sm3Preserves ==
  ASSUME HashInv, H!Sm3Hash
  PROVE  HashInv'
<1> DEFINE hashes == <<H!Sm3(H!Message(lengths.msg))>>
<1>1. /\ hashPc = "hash" /\ hashPc' = "idle" /\ hashResult' = 0 /\ output'.hashes = hashes
      /\ hashOp' = hashOp /\ lengths' = lengths /\ values' = values /\ held' = held
  <2> HIDE DEF hashes
  <2> QED
    BY DEF H!Sm3Hash, H!Return, H!Untouched, hashes
<1> HIDE DEF hashes
<1>2. hashOp = "sm3hash" /\ held = {}
  BY <1>1 DEF HashInv, CallOrder
<1>3. CallOrder'
  BY <1>1 DEF HashInv, CallOrder
<1>4. HashesFollow'
  BY <1>1 DEF HashesFollow
<1>5. H!HashesAllOrNothing'
  BY <1>1, <1>2 DEF H!HashesAllOrNothing, hashes
<1> QED
  BY <1>3, <1>4, <1>5 DEF HashInv

LEMMA K1Preserves ==
  ASSUME HashInv, H!K1
  PROVE  HashInv'
<1>1. /\ hashPc = "k1" /\ hashPc' = "h1" /\ held' = {"tag_msg"}
      /\ hashOp' = hashOp /\ lengths' = lengths /\ output' = output
      /\ values' = [values EXCEPT !["k1"] =
                      H!Hmac(SubSeq(H!TagThenMsg(lengths.msg, H!Tag(lengths.output)), 1, 16 + lengths.msg))]
  BY DEF H!K1
<1>2. lengths.msg \in Nat /\ values = [name \in H!Names |-> values[name]] /\ "k1" \in H!Names
  BY DEF HashInv, CallOrder, H!Names
<1>3. H!Hmac(SubSeq(H!TagThenMsg(lengths.msg, H!Tag(lengths.output)), 1, 16 + lengths.msg))
        = K1Of(lengths.msg, lengths.output)
  BY <1>2, FirstHashes
<1>4. /\ values' = [name \in H!Names |-> values'[name]]
      /\ values'["k1"] = K1Of(lengths.msg, lengths.output)
  <2>1. PICK k1 : k1 = K1Of(lengths.msg, lengths.output)
    OBVIOUS
  <2>2. values' = [values EXCEPT !["k1"] = k1]
    BY <1>1, <1>3, <2>1, Zenon
  <2> QED
    BY <1>2, <2>1, <2>2
<1>5. CallOrder'
  BY <1>1, <1>4 DEF HashInv, CallOrder, Scratch
<1>6. HashesFollow'
  BY <1>1, <1>4 DEF HashesFollow
<1>7. H!HashesAllOrNothing'
  BY <1>1 DEF H!HashesAllOrNothing
<1> QED
  BY <1>5, <1>6, <1>7 DEF HashInv

LEMMA H1Preserves ==
  ASSUME HashInv, H!H1
  PROVE  HashInv'
<1> DEFINE d == lengths.output
<1>1. /\ hashPc = "h1" /\ hashPc' = "chain" /\ held' = held \cup {"msg_tag"} /\ step' = 1
      /\ hashOp' = hashOp /\ lengths' = lengths /\ output' = output
      /\ values' = [values EXCEPT !["h1"] =
                      H!sm3_bit(H!MsgThenTag(lengths.msg, H!Tag(d)), 16 + lengths.msg)]
  BY DEF H!H1
<1>2. lengths.msg \in Nat /\ values = [name \in H!Names |-> values[name]]
      /\ "k1" \in H!Names /\ "h1" \in H!Names
      /\ values["k1"] = K1Of(lengths.msg, d) /\ d \in DigestLens
  BY <1>1 DEF HashInv, CallOrder, HashesFollow, H!Names
<1>3. H!sm3_bit(H!MsgThenTag(lengths.msg, H!Tag(d)), 16 + lengths.msg) = H1Of(lengths.msg, d)
  BY <1>2, FirstHashes
<1>4. /\ values' = [name \in H!Names |-> values'[name]]
      /\ values'["k1"] = K1Of(lengths.msg, d) /\ values'["h1"] = H1Of(lengths.msg, d)
  <2>1. PICK h1 : h1 = H1Of(lengths.msg, d)
    OBVIOUS
  <2>2. values' = [values EXCEPT !["h1"] = h1]
    BY <1>1, <1>3, <2>1, Zenon
  <2> QED
    BY <1>2, <2>1, <2>2
<1>5. CallOrder'
  BY <1>1, <1>4 DEF HashInv, CallOrder, Scratch
<1>6. HashesFollow'
  <2>1. Computed(d, 1) = {"k1", "h1"}
    BY DEF Computed
  <2>2. 1 \in 1 .. Len(H!Chain(d)) + 1
    <3>1. Len(H!Chain(d)) \in Nat
      BY <1>2 DEF DigestLens, H!Chain
    <3> QED
      BY <3>1
  <2>3. \A name \in Computed(d, 1) : values'[name] = Promised(lengths.msg, d)[name]
    BY <1>4, <2>1, PromisedHashes
  <2> QED
    BY <1>1, <2>2, <2>3 DEF HashesFollow
<1>7. H!HashesAllOrNothing'
  BY <1>1 DEF H!HashesAllOrNothing
<1> QED
  BY <1>5, <1>6, <1>7 DEF HashInv

LEMMA ComputedGrows ==
  ASSUME NEW d, NEW k \in Nat \ {0}
  PROVE  Computed(d, k + 1) = Computed(d, k) \cup {H!Chain(d)[k].to}
<1>1. 1 .. k + 1 - 1 = (1 .. k - 1) \cup {k}
  OBVIOUS
<1> QED
  BY <1>1 DEF Computed

LEMMA NextPreserves ==
  ASSUME HashInv, H!NextHash
  PROVE  HashInv'
<1> DEFINE d == lengths.output
           p == Promised(lengths.msg, d)
           next == H!Chain(d)[step]
           joined == H!Join(next.of, values)
           value == IF next.keyed THEN H!Hmac(joined) ELSE H!Sm3(joined)
<1>1. /\ hashPc = "chain" /\ step \in DOMAIN H!Chain(d) /\ step' = step + 1
      /\ hashPc' = hashPc /\ hashOp' = hashOp /\ lengths' = lengths /\ held' = held
      /\ output' = output /\ values' = [values EXCEPT ![next.to] = value]
  BY DEF H!NextHash, H!InChain
<1>2. /\ lengths.msg \in Nat /\ d \in DigestLens
      /\ values = [name \in H!Names |-> values[name]]
      /\ \A name \in Computed(d, step) : values[name] = p[name]
  BY <1>1 DEF HashInv, CallOrder, HashesFollow
<1> HIDE DEF p
<1>3. NextOf(lengths.msg, d, step)
  BY <1>1, <1>2, ChainIsPromised
<1>4. /\ next.to \in H!Names
      /\ \A j \in DOMAIN next.of : next.of[j] \in Computed(d, step)
      /\ p[next.to] = IF next.keyed THEN H!Hmac(H!Join(next.of, p)) ELSE H!Sm3(H!Join(next.of, p))
  BY <1>3, Zenon DEF NextOf, p
<1>5. value = p[next.to]
  <2>1. \A j \in DOMAIN next.of : values[next.of[j]] = p[next.of[j]]
    BY <1>2, <1>4, Zenon
  <2>2. H!Join(next.of, values) = H!Join(next.of, p)
    BY <2>1, JoinsAgree, Zenon
  <2> QED
    BY <1>4, <2>2, Zenon
<1> HIDE DEF value, next, d
<1>6. /\ values' = [name \in H!Names |-> values'[name]]
      /\ \A name \in H!Names : values'[name] = IF name = next.to THEN p[name] ELSE values[name]
  <2>1. PICK to : to = next.to
    OBVIOUS
  <2>2. values' = [values EXCEPT ![to] = p[to]] /\ to \in H!Names
    BY <1>1, <1>4, <1>5, <2>1, Zenon
  <2>3. \A name \in H!Names : values'[name] = IF name = to THEN p[name] ELSE values[name]
    BY <1>2, <2>2
  <2>4. values' = [name \in H!Names |-> values'[name]]
    BY <1>2, <2>2
  <2> QED
    BY <2>1, <2>3, <2>4
<1>7. step \in 1 .. Len(H!Chain(d)) /\ Len(H!Chain(d)) \in Nat
  BY <1>1, <1>2 DEF DigestLens, H!Chain
<1>8. \A name \in Computed(d, step + 1) : values'[name] = p[name]
  <2>1. Computed(d, step + 1) = Computed(d, step) \cup {next.to}
    BY <1>7, ComputedGrows DEF next
  <2>2. Computed(d, step) \subseteq H!Names
    <3>1. \A j \in 1 .. step - 1 : j \in DOMAIN H!Chain(d)
      BY <1>2, <1>7 DEF DigestLens, H!Chain
    <3>2. \A j \in DOMAIN H!Chain(d) : H!Chain(d)[j].to \in H!Names
      BY <1>2, ChainIsPromised, Zenon DEF NextOf
    <3> QED
      BY <3>1, <3>2 DEF Computed, H!Names
  <2> QED
    BY <1>2, <1>4, <1>6, <2>1, <2>2
<1>9. CallOrder'
  BY <1>1, <1>6 DEF HashInv, CallOrder
<1>10. HashesFollow'
  BY <1>1, <1>7, <1>8 DEF HashesFollow, d, p
<1>11. H!HashesAllOrNothing'
  BY <1>1 DEF H!HashesAllOrNothing
<1> QED
  BY <1>9, <1>10, <1>11 DEF HashInv

LEMMA FinalPreserves ==
  ASSUME HashInv, H!FinalResult
  PROVE  HashInv'
<1> DEFINE d == lengths.output
           names == SubSeq(HashNames, 1, d \div H!DigestBits)
           hashes == [k \in DOMAIN names |-> values[names[k]]]
<1>1. /\ hashPc = "chain" /\ ~(step \in DOMAIN H!Chain(d)) /\ hashPc' = "idle" /\ hashResult' = 0
      /\ held' = {} /\ hashOp' = hashOp /\ lengths' = lengths /\ values' = values
      /\ output' = [H!Untouched EXCEPT !.hashes = hashes]
  BY Zenon DEF H!FinalResult, H!InChain, H!Return, HashNames
<1>2. /\ lengths.msg \in Nat /\ d \in DigestLens /\ hashOp = "pseudohash"
      /\ step \in 1 .. Len(H!Chain(d)) + 1
      /\ \A name \in Computed(d, step) : values[name] = Promised(lengths.msg, d)[name]
  BY <1>1 DEF HashInv, CallOrder, HashesFollow
<1>3. step = Len(H!Chain(d)) + 1
  BY <1>1, <1>2 DEF DigestLens, H!Chain
<1>4. hashes = H!PseudohashOf(H!Message(lengths.msg), d)
  BY <1>2, <1>3, ChainDelivers, Zenon
<1> HIDE DEF hashes
<1>5. output'.hashes = H!PseudohashOf(H!Message(lengths.msg), d)
  BY <1>1, <1>4 DEF H!Untouched
<1>6. CallOrder'
  BY <1>1 DEF HashInv, CallOrder
<1>7. HashesFollow'
  BY <1>1 DEF HashesFollow
<1>8. H!HashesAllOrNothing'
  BY <1>1, <1>2, <1>5 DEF H!HashesAllOrNothing
<1> QED
  BY <1>6, <1>7, <1>8 DEF HashInv

LEMMA XofPreserves ==
  ASSUME HashInv, H!PseudoXof
  PROVE  HashInv'
<1> DEFINE n == lengths.output
           M == H!Message(lengths.msg)
           copied == H!Message(H!OctetBits * H!Bytes(n))
           blocks == (n + H!DigestBits - 1) \div H!DigestBits
           hashes == [ct \in 1 .. blocks |->
                       H!sm3_bit(H!MsgThenTag(lengths.msg, H!Counter(ct)), lengths.msg + 32)]
           kept == IF n % H!DigestBits = 0 THEN copied ELSE H!normalize(copied, n)
<1>1. /\ hashPc = "buffers" /\ hashPc' = "idle" /\ hashResult' = 0 /\ held' = held
      /\ hashOp' = hashOp /\ lengths' = lengths /\ values' = values
      /\ output' = [hashes |-> hashes, bits |-> kept]
  BY Zenon DEF H!PseudoXof, H!Return
<1>2. lengths.msg \in Nat /\ n \in Nat /\ hashOp = "pseudoXOF" /\ held = {}
  BY <1>1 DEF HashInv, CallOrder
<1>3. kept = H!Message(n) \o H!Zeros(Len(kept) - n)
  BY <1>2, Normalized, Zenon
<1> HIDE DEF kept
<1>4. blocks \in Nat /\ H!DigestBits * blocks >= n
  <2>1. H!DigestBits = 256
    BY DEF H!DigestBits
  <2> QED
    BY <1>2, <2>1
<1> HIDE DEF blocks
<1>5. hashes = [ct \in 1 .. blocks |-> H!Sm3(M \o H!Counter(ct))]
  <2>1. ASSUME NEW ct
        PROVE  H!sm3_bit(H!MsgThenTag(lengths.msg, H!Counter(ct)), lengths.msg + 32)
                 = H!Sm3(M \o H!Counter(ct))
    <3>1. PICK A : H!Counter(ct) \in Seq(A)
      BY TagBits
    <3>2. Len(H!Counter(ct)) = 32
      BY TagBits
    <3>3. SubSeq(H!MsgThenTag(lengths.msg, H!Counter(ct)), 1, lengths.msg + Len(H!Counter(ct)))
            = M \o H!Counter(ct)
      <4>1. Len(H!Counter(ct)) >= 7
        BY <3>2
      <4> QED
        BY <1>2, <3>1, <4>1, TagFollows
    <3> QED
      BY <3>2, <3>3, Zenon DEF H!sm3_bit
  <2> QED
    BY <2>1, Zenon
<1>6. DOMAIN hashes = 1 .. blocks /\ Len(hashes) = blocks
  BY <1>4
<1> HIDE DEF hashes, n, M
<1>7. output'.hashes = hashes /\ output'.bits = kept
  BY <1>1
<1>8. hashes = [ct \in DOMAIN hashes |-> H!Sm3(M \o H!Counter(ct))]
  BY <1>5, <1>6, Zenon
<1>9. CallOrder'
  BY <1>1 DEF HashInv, CallOrder
<1>10. HashesFollow'
  BY <1>1 DEF HashesFollow
<1>11. H!HashesAllOrNothing'
  <2>1. hashOp' = "pseudoXOF" /\ held' = {} /\ lengths' = lengths /\ hashOp' # "sm3hash" /\ hashOp' # "pseudohash"
    BY <1>1, <1>2
  <2>2. output'.hashes = [ct \in DOMAIN output'.hashes |-> H!Sm3(M \o H!Counter(ct))]
    BY <1>7, <1>8, Zenon
  <2>3. H!DigestBits * Len(output'.hashes) >= n
    BY <1>4, <1>6, <1>7
  <2>4. output'.bits = H!Message(n) \o H!Zeros(Len(output'.bits) - n)
    BY <1>3, <1>7, Zenon
  <2> QED
    BY <1>1, <2>1, <2>2, <2>3, <2>4, Zenon DEF H!HashesAllOrNothing, n, M
<1> QED
  BY <1>9, <1>10, <1>11 DEF HashInv

LEMMA HashStep ==
  ASSUME H!CallersLengths, HashInv, [H!Next]_H!vars
  PROVE  HashInv'
<1>1. ASSUME NEW operation \in {"sm3hash", "pseudohash"}, NEW msgLen \in MsgBitlens,
             NEW outputLen \in {256, 384, 512, 768, 1024}, H!Call(operation, msgLen, outputLen)
      PROVE  HashInv'
  <2>1. operation \in {"sm3hash", "pseudohash", "pseudoXOF"} /\ msgLen \in Nat /\ outputLen \in Nat
    BY DEF H!CallersLengths
  <2> QED
    BY <1>1, <2>1, CallPreserves
<1>2. ASSUME NEW msgLen \in MsgBitlens, NEW outputLen \in OutputBitlens,
             H!Call("pseudoXOF", msgLen, outputLen)
      PROVE  HashInv'
  <2>1. "pseudoXOF" \in {"sm3hash", "pseudohash", "pseudoXOF"} /\ msgLen \in Nat /\ outputLen \in Nat
    BY DEF H!CallersLengths
  <2> QED
    BY <1>2, <2>1, CallPreserves
<1>3. ASSUME UNCHANGED H!vars
      PROVE  HashInv'
  BY <1>3 DEF H!vars, HashInv, CallOrder, HashesFollow, H!HashesAllOrNothing
<1> QED
  <2>1. CASE H!Sm3Hash
    BY <2>1, Sm3Preserves
  <2>2. CASE H!AllocationFails
    BY <2>2, FailurePreserves
  <2>3. CASE H!K1
    BY <2>3, K1Preserves
  <2>4. CASE H!H1
    BY <2>4, H1Preserves
  <2>5. CASE H!NextHash
    BY <2>5, NextPreserves
  <2>6. CASE H!FinalResult
    BY <2>6, FinalPreserves
  <2>7. CASE H!PseudoXof
    BY <2>7, XofPreserves
  <2> QED
    BY <1>1, <1>2, <1>3, <2>1, <2>2, <2>3, <2>4, <2>5, <2>6, <2>7 DEF H!Next

\* A message of any number of bits, the tag joined to its last byte or to the
\* next, and any buffer refused at any point: a call of the hashes of
\* iccs/auxfunc.c is all or nothing.
THEOREM HashesAreWhole == H!Spec => []HashesAllOrNothing
<1>1. H!Init => HashInv
  <2> SUFFICES ASSUME H!Init PROVE HashInv
    OBVIOUS
  <2>1. hashPc = "idle" /\ hashOp = "none" /\ lengths.msg = 0 /\ lengths.output = 0
        /\ values = H!NoValues
    BY DEF H!Init
  <2>2. values = [name \in H!Names |-> values[name]]
    BY <2>1 DEF H!NoValues
  <2> QED
    BY <2>1, <2>2 DEF HashInv, CallOrder, HashesFollow, H!HashesAllOrNothing
<1>2. HashInv /\ [H!Next]_H!vars => HashInv'
  BY HashStep, CallersAssumption
<1>3. HashInv => HashesAllOrNothing
  BY DEF HashInv, HashesAllOrNothing
<1> QED
  BY <1>1, <1>2, <1>3, PTL DEF H!Spec

-----------------------------------------------------------------------------
(* Loops.                                                                   *)

\* The states a loop goes through from x on; where its condition is false, the
\* step leaves a state as it is.
Loops(f, S, body, x) == f \in [Nat -> S] /\ f[0] = x /\ \A n \in Nat : f[n + 1] = body[f[n]]

LEMMA LoopExists ==
  ASSUME NEW S, NEW body \in [S -> S], NEW x \in S
  PROVE  \E f : Loops(f, S, body, x)
<1> DEFINE steps == [n \in Nat |-> body]
<1>1. steps \in [Nat -> [S -> S]]
  OBVIOUS
<1>2. \A n \in Nat : n + 1 \in Nat /\ steps[n + 1] = body
  OBVIOUS
<1> HIDE DEF steps
<1>3. PICK f : Follows(f, S, x, steps)
  BY <1>1, Recursion, Zenon
<1> QED
  BY <1>2, <1>3 DEF Follows, Loops

\* A loop that is entered once goes on as the loop from there.
LEMMA LoopGoesOn ==
  ASSUME NEW S, NEW body \in [S -> S], NEW x \in S, NEW f, NEW g,
         Loops(f, S, body, x), Loops(g, S, body, body[x])
  PROVE  \A n \in Nat : f[n + 1] = g[n]
<1> DEFINE T == {n \in Nat : f[n + 1] = g[n]}
<1>1. 0 \in T
  BY DEF Loops
<1>2. ASSUME NEW n \in Nat, n \in T
      PROVE  n + 1 \in T
  BY <1>2 DEF Loops
<1> HIDE DEF T
<1>3. \A n \in Nat : n \in T
  BY <1>1, <1>2, NumbersByInduction
<1> QED
  BY <1>3 DEF T

\* A loop that stays somewhere stays there.
LEMMA LoopStays ==
  ASSUME NEW S, NEW body \in [S -> S], NEW x \in S, NEW f, Loops(f, S, body, x),
         NEW n \in Nat, body[f[n]] = f[n], NEW m \in Nat, n <= m
  PROVE  f[m] = f[n]
<1> DEFINE T == {k \in Nat : f[n + k] = f[n]}
<1>1. 0 \in T
  OBVIOUS
<1>2. ASSUME NEW k \in Nat, k \in T
      PROVE  k + 1 \in T
  <2>1. n + k \in Nat /\ n + (k + 1) = (n + k) + 1 /\ f[n + k] = f[n]
    BY <1>2
  <2>2. f[(n + k) + 1] = body[f[n + k]]
    BY <2>1 DEF Loops
  <2> QED
    BY <2>1, <2>2
<1> HIDE DEF T
<1>3. \A k \in Nat : k \in T
  BY <1>1, <1>2, NumbersByInduction
<1>4. m - n \in Nat /\ n + (m - n) = m
  OBVIOUS
<1>5. f[n + (m - n)] = f[n]
  BY <1>3, <1>4 DEF T
<1> QED
  BY <1>4, <1>5, Zenon

\* A loop that gets shorter with every step has ended after so many steps.
LEMMA LoopEnds ==
  ASSUME NEW S, NEW body \in [S -> S], NEW x \in S, NEW f, Loops(f, S, body, x),
         NEW size \in [S -> Nat], \A y \in S : body[y] = y \/ size[body[y]] < size[y],
         NEW n \in Nat, size[x] <= n
  PROVE  body[f[n]] = f[n]
<1> DEFINE T == {k \in Nat : body[f[k]] = f[k] \/ size[f[k]] + k <= size[x]}
<1>0. \A k \in Nat : f[k] \in S /\ f[k + 1] = body[f[k]] /\ size[f[k]] \in Nat /\ k + 1 \in Nat
  BY DEF Loops
<1>1. 0 \in T
  BY <1>0 DEF Loops
<1>2. ASSUME NEW k \in Nat, k \in T
      PROVE  k + 1 \in T
  <2>1. CASE body[f[k]] = f[k]
    <3>1. f[k + 1] = f[k] /\ k + 1 \in Nat
      BY <1>0, <2>1
    <3>2. body[f[k + 1]] = f[k + 1]
      BY <2>1, <3>1, Zenon
    <3> QED
      BY <3>1, <3>2
  <2>2. CASE body[f[k]] # f[k]
    <3>1. size[f[k]] + k <= size[x]
      BY <1>2, <2>2
    <3>2. size[f[k + 1]] < size[f[k]]
      BY <1>0, <2>2
    <3>3. size[f[k + 1]] \in Nat /\ size[f[k]] \in Nat /\ size[x] \in Nat
      BY <1>0
    <3>4. size[f[k + 1]] + (k + 1) <= size[x]
      BY <3>1, <3>2, <3>3
    <3> QED
      BY <3>4
  <2> QED
    BY <2>1, <2>2
<1> HIDE DEF T
<1>3. n \in T
  BY <1>1, <1>2, NumbersByInduction
<1>4. body[f[n]] = f[n] \/ size[f[n]] + n <= size[x]
  BY <1>3 DEF T
<1>5. CASE body[f[n]] # f[n]
  <2>1. size[f[n]] \in Nat /\ size[x] \in Nat
    BY <1>0
  <2>2. size[f[n]] = 0
    BY <1>4, <1>5, <2>1
  <2>3. body[f[n]] \in S /\ f[n] \in S
    BY <1>0
  <2>4. size[body[f[n]]] < size[f[n]] /\ size[body[f[n]]] \in Nat
    BY <1>5, <2>3
  <2> QED
    BY <2>2, <2>4
<1> QED
  BY <1>5

-----------------------------------------------------------------------------
(* The bytes of the sponge and its state.                                   *)

SpongeStates(B) == [0 .. Width - 1 -> B]

\* What is absorbed and what the padding adds are bytes, bytes have an
\* exclusive-or, and the permutation takes states to states.
HasBytes(B) ==
  /\ ZeroByte \in B /\ Suffix \in B /\ LastBit \in B
  /\ \A a \in B, b \in B : Xor(a, b) \in B
  /\ \A s \in SpongeStates(B) : Permute(s) \in SpongeStates(B)
  /\ SpongeInputs \subseteq Seq(B)

LEMMA SpongeSizes ==
  Rate \in Nat \ {0} /\ Width \in Nat /\ Rate < Width /\ SpongeLengths \subseteq Nat
BY SpongeAssumption DEF Sponge!RateFits

LEMMA XorType ==
  ASSUME NEW B, HasBytes(B), NEW s \in SpongeStates(B), NEW pos \in Nat, NEW in \in Seq(B)
  PROVE  /\ Sponge!XorInto(s, pos, in) \in SpongeStates(B)
         /\ \A i \in 0 .. Width - 1 :
              Sponge!XorInto(s, pos, in)[i] =
                IF i \in pos .. pos + Len(in) - 1 THEN Xor(s[i], in[i - pos + 1]) ELSE s[i]
<1>1. DOMAIN s = 0 .. Width - 1 /\ \A i \in 0 .. Width - 1 : s[i] \in B
  BY DEF SpongeStates
<1>2. \A i \in pos .. pos + Len(in) - 1 : in[i - pos + 1] \in B
  OBVIOUS
<1>3. \A a \in B, b \in B : Xor(a, b) \in B
  BY DEF HasBytes
<1>4. \A i \in 0 .. Width - 1 :
        (IF i \in pos .. (pos + Len(in) - 1) THEN Xor(s[i], in[i - pos + 1]) ELSE s[i]) \in B
  BY <1>1, <1>2, <1>3
<1>5. Sponge!XorInto(s, pos, in) =
        [i \in 0 .. Width - 1 |->
          IF i \in pos .. (pos + Len(in) - 1) THEN Xor(s[i], in[i - pos + 1]) ELSE s[i]]
  BY <1>1, Zenon DEF Sponge!XorInto
<1> QED
  BY <1>4, <1>5 DEF SpongeStates

LEMMA SameStates ==
  ASSUME NEW B, NEW s \in SpongeStates(B), NEW t \in SpongeStates(B),
         \A i \in 0 .. Width - 1 : s[i] = t[i]
  PROVE  s = t
<1>1. s = [i \in 0 .. Width - 1 |-> s[i]] /\ t = [i \in 0 .. Width - 1 |-> t[i]]
  BY DEF SpongeStates
<1>2. [i \in 0 .. Width - 1 |-> s[i]] = [i \in 0 .. Width - 1 |-> t[i]]
  BY Zenon
<1> QED
  BY <1>1, <1>2, Zenon

\* Absorbing a and then c where a ended is absorbing both.
LEMMA XorJoins ==
  ASSUME NEW B, HasBytes(B), NEW s \in SpongeStates(B), NEW pos \in Nat,
         NEW a \in Seq(B), NEW c \in Seq(B)
  PROVE  Sponge!XorInto(Sponge!XorInto(s, pos, a), pos + Len(a), c)
           = Sponge!XorInto(s, pos, a \o c)
<1> DEFINE n == Len(a)
           both == a \o c
           once == Sponge!XorInto(s, pos, a)
           twice == Sponge!XorInto(once, pos + n, c)
           joined == Sponge!XorInto(s, pos, both)
<1>1. /\ both \in Seq(B) /\ Len(both) = n + Len(c)
      /\ \A k \in 1 .. n : both[k] = a[k]
      /\ \A k \in 1 .. Len(c) : both[n + k] = c[k]
  BY Concatenated
<1>2. n \in Nat /\ Len(c) \in Nat /\ pos + n \in Nat
  OBVIOUS
<1> HIDE DEF n, both
<1>3. /\ once \in SpongeStates(B)
      /\ \A i \in 0 .. Width - 1 :
           once[i] = IF i \in pos .. pos + n - 1 THEN Xor(s[i], a[i - pos + 1]) ELSE s[i]
  BY XorType DEF n
<1> HIDE DEF once
<1>4. /\ twice \in SpongeStates(B)
      /\ \A i \in 0 .. Width - 1 :
           twice[i] = IF i \in pos + n .. pos + n + Len(c) - 1
                      THEN Xor(once[i], c[i - (pos + n) + 1]) ELSE once[i]
  <2> DEFINE p == pos + n
  <2>1. p \in Nat /\ once \in SpongeStates(B)
    BY <1>2, <1>3
  <2> HIDE DEF p
  <2>2. /\ Sponge!XorInto(once, p, c) \in SpongeStates(B)
        /\ \A i \in 0 .. Width - 1 :
             Sponge!XorInto(once, p, c)[i] =
               IF i \in p .. p + Len(c) - 1 THEN Xor(once[i], c[i - p + 1]) ELSE once[i]
    BY <2>1, XorType
  <2> QED
    BY <2>2, Zenon DEF p
<1>5. /\ joined \in SpongeStates(B)
      /\ \A i \in 0 .. Width - 1 :
           joined[i] = IF i \in pos .. pos + Len(both) - 1 THEN Xor(s[i], both[i - pos + 1]) ELSE s[i]
  <2>1. both \in Seq(B)
    BY <1>1, Zenon
  <2>2. /\ Sponge!XorInto(s, pos, both) \in SpongeStates(B)
        /\ \A i \in 0 .. Width - 1 :
             Sponge!XorInto(s, pos, both)[i] =
               IF i \in pos .. pos + Len(both) - 1 THEN Xor(s[i], both[i - pos + 1]) ELSE s[i]
    BY <2>1, XorType
  <2> QED
    BY <2>2, Zenon
<1> HIDE DEF twice, joined
<1>6. ASSUME NEW i \in 0 .. Width - 1
      PROVE  twice[i] = joined[i]
  <2>1. CASE i \in pos .. pos + n - 1
    <3>1. i - pos + 1 \in 1 .. n /\ i \notin pos + n .. pos + n + Len(c) - 1
          /\ i \in pos .. pos + Len(both) - 1
      BY <1>1, <1>2, <2>1
    <3> QED
      BY <1>1, <1>3, <1>4, <1>5, <2>1, <3>1, Zenon
  <2>2. CASE i \in pos + n .. pos + n + Len(c) - 1
    <3>1. /\ i - (pos + n) + 1 \in 1 .. Len(c) /\ n + (i - (pos + n) + 1) = i - pos + 1
          /\ i \notin pos .. pos + n - 1 /\ i \in pos .. pos + Len(both) - 1
      BY <1>1, <1>2, <2>2
    <3>2. both[i - pos + 1] = c[i - (pos + n) + 1]
      <4>1. both[n + (i - (pos + n) + 1)] = c[i - (pos + n) + 1]
        BY <1>1, <3>1, Zenon
      <4> QED
        BY <3>1, <4>1, Zenon
    <3>3. once[i] = s[i]
      BY <1>3, <3>1, Zenon
    <3> QED
      BY <1>4, <1>5, <2>2, <3>1, <3>2, <3>3, Zenon
  <2>3. CASE i \notin pos .. pos + n - 1 /\ i \notin pos + n .. pos + n + Len(c) - 1
    <3>1. i \notin pos .. pos + Len(both) - 1
      BY <1>1, <1>2, <2>3
    <3> QED
      BY <1>3, <1>4, <1>5, <2>3, <3>1, Zenon
  <2> QED
    BY <2>1, <2>2, <2>3
<1>7. twice = joined
  BY <1>4, <1>5, <1>6, SameStates
<1> QED
  BY <1>7, Zenon DEF twice, joined, once, n, both

LEMMA PermuteType ==
  ASSUME NEW B, HasBytes(B), NEW s \in SpongeStates(B)
  PROVE  Permute(s) \in SpongeStates(B)
BY Zenon DEF HasBytes

LEMMA BlankType ==
  ASSUME NEW B, HasBytes(B)
  PROVE  Sponge!Blank \in SpongeStates(B)
BY DEF HasBytes, Sponge!Blank, SpongeStates

-----------------------------------------------------------------------------
(* keccak_absorb.                                                           *)

SpongeAt(B) == [s : SpongeStates(B), pos : 0 .. Rate - 1]
AbsorbStates(B) == [s : SpongeStates(B), pos : 0 .. Rate - 1, in : Seq(B)]
AbsorbBody(at) ==
  IF at.pos + Len(at.in) < Rate THEN at
  ELSE [s |-> Permute(Sponge!XorInto(at.s, at.pos, SubSeq(at.in, 1, Rate - at.pos))),
        pos |-> 0, in |-> SubSeq(at.in, Rate - at.pos + 1, Len(at.in))]
AbsorbStep(B) == [at \in AbsorbStates(B) |-> AbsorbBody(at)]

\* The first bytes of a string that fill a block, and the rest.
LEMMA FirstBlock ==
  ASSUME NEW B, NEW in \in Seq(B), NEW pos \in 0 .. Rate - 1, pos + Len(in) >= Rate
  PROVE  /\ SubSeq(in, 1, Rate - pos) \in Seq(B) /\ Len(SubSeq(in, 1, Rate - pos)) = Rate - pos
         /\ SubSeq(in, Rate - pos + 1, Len(in)) \in Seq(B)
         /\ Len(SubSeq(in, Rate - pos + 1, Len(in))) = Len(in) - (Rate - pos)
         /\ \A k \in 1 .. Rate - pos : SubSeq(in, 1, Rate - pos)[k] = in[k]
         /\ \A k \in 1 .. Len(in) - (Rate - pos) :
              SubSeq(in, Rate - pos + 1, Len(in))[k] = in[Rate - pos + k]
<1> DEFINE room == Rate - pos
           n == Len(in)
<1>1. room \in 0 .. n /\ n \in Nat /\ room \in Nat /\ room \in 0 .. Len(in) /\ n \in room .. Len(in)
  BY SpongeSizes
<1> HIDE DEF room, n
<1>2. /\ SubSeq(in, 0 + 1, room) \in Seq(B) /\ Len(SubSeq(in, 0 + 1, room)) = room - 0
      /\ \A k \in 1 .. room - 0 : SubSeq(in, 0 + 1, room)[k] = in[0 + k]
  BY <1>1, Sub
<1>3. /\ SubSeq(in, room + 1, n) \in Seq(B) /\ Len(SubSeq(in, room + 1, n)) = n - room
      /\ \A k \in 1 .. n - room : SubSeq(in, room + 1, n)[k] = in[room + k]
  BY <1>1, Sub
<1>4. 0 + 1 = 1 /\ room - 0 = room /\ \A k \in 1 .. room : 0 + k = k
  BY <1>1
<1>5. /\ SubSeq(in, 1, room) \in Seq(B) /\ Len(SubSeq(in, 1, room)) = room
      /\ \A k \in 1 .. room : SubSeq(in, 1, room)[k] = in[k]
  BY <1>2, <1>4, Zenon
<1> QED
  BY <1>3, <1>5, Zenon DEF room, n

LEMMA AbsorbStepType ==
  ASSUME NEW B, HasBytes(B)
  PROVE  /\ AbsorbStep(B) \in [AbsorbStates(B) -> AbsorbStates(B)]
         /\ \A at \in AbsorbStates(B) :
              /\ AbsorbStep(B)[at] = AbsorbBody(at)
              /\ AbsorbBody(at) = at \/ Len(AbsorbBody(at).in) < Len(at.in)
              /\ AbsorbBody(at) = at <=> at.pos + Len(at.in) < Rate
<1>1. ASSUME NEW at \in AbsorbStates(B)
      PROVE  /\ AbsorbBody(at) \in AbsorbStates(B)
             /\ AbsorbBody(at) = at \/ Len(AbsorbBody(at).in) < Len(at.in)
             /\ AbsorbBody(at) = at <=> at.pos + Len(at.in) < Rate
  <2>1. at.s \in SpongeStates(B) /\ at.pos \in 0 .. Rate - 1 /\ at.in \in Seq(B) /\ at.pos \in Nat
    BY SpongeSizes DEF AbsorbStates
  <2>2. CASE at.pos + Len(at.in) < Rate
    BY <2>2 DEF AbsorbBody
  <2>3. CASE at.pos + Len(at.in) >= Rate
    <3> DEFINE block == SubSeq(at.in, 1, Rate - at.pos)
               rest == SubSeq(at.in, Rate - at.pos + 1, Len(at.in))
               s == Permute(Sponge!XorInto(at.s, at.pos, block))
    <3>1. block \in Seq(B) /\ rest \in Seq(B) /\ Len(rest) = Len(at.in) - (Rate - at.pos)
      BY <2>1, <2>3, FirstBlock
    <3>2. Len(rest) < Len(at.in)
      BY <2>1, <3>1, SpongeSizes
    <3> HIDE DEF block, rest
    <3>3. Sponge!XorInto(at.s, at.pos, block) \in SpongeStates(B)
      BY <2>1, <3>1, XorType
    <3>4. s \in SpongeStates(B)
      BY <3>3, PermuteType
    <3>5. ~ (at.pos + Len(at.in) < Rate)
      BY <2>1, <2>3, SpongeSizes
    <3>6. AbsorbBody(at) = [s |-> s, pos |-> 0, in |-> rest]
      BY <3>5, Zenon DEF AbsorbBody, block, rest
    <3> HIDE DEF s
    <3>7. AbsorbBody(at) \in AbsorbStates(B) /\ AbsorbBody(at).in = rest
      BY <3>1, <3>4, <3>6, SpongeSizes DEF AbsorbStates
    <3>8. AbsorbBody(at) # at
      BY <3>2, <3>7
    <3> QED
      BY <3>2, <3>5, <3>7, <3>8
  <2> QED
    BY <2>1, <2>2, <2>3, SpongeSizes
<1> HIDE DEF AbsorbBody
<1> QED
  BY <1>1 DEF AbsorbStep

LEMMA AbsorbRuns ==
  ASSUME NEW B, HasBytes(B), NEW st \in SpongeAt(B), NEW in \in Seq(B)
  PROVE  \E f : /\ Loops(f, AbsorbStates(B), AbsorbStep(B), [s |-> st.s, pos |-> st.pos, in |-> in])
                /\ Sponge!keccak_absorb(st, in) =
                     [s |-> Sponge!XorInto(f[Len(in)].s, f[Len(in)].pos, f[Len(in)].in),
                      pos |-> f[Len(in)].pos + Len(f[Len(in)].in)]
<1> DEFINE x == [s |-> st.s, pos |-> st.pos, in |-> in]
           Runs(g) == g = [k \in Nat |-> IF k = 0 THEN [s |-> st.s, pos |-> st.pos, in |-> in]
                                         ELSE AbsorbBody(g[k - 1])]
           h == CHOOSE g : Runs(g)
<1>1. x \in AbsorbStates(B)
  BY DEF SpongeAt, AbsorbStates
<1>2. Sponge!keccak_absorb(st, in) =
        [s |-> Sponge!XorInto(h[Len(in)].s, h[Len(in)].pos, h[Len(in)].in),
         pos |-> h[Len(in)].pos + Len(h[Len(in)].in)]
  BY Zenon DEF Sponge!keccak_absorb, AbsorbBody
<1>3. PICK g : Loops(g, AbsorbStates(B), AbsorbStep(B), x)
  <2> HIDE DEF x
  <2> QED
    BY <1>1, AbsorbStepType, LoopExists
<1>4. /\ \A k \in Nat : g[k] \in AbsorbStates(B) /\ g[k + 1] = AbsorbBody(g[k]) /\ k + 1 \in Nat
      /\ g[0] = x
  <2>1. g[0] = x /\ \A k \in Nat : g[k] \in AbsorbStates(B) /\ g[k + 1] = AbsorbStep(B)[g[k]]
    BY <1>3 DEF Loops
  <2>2. \A at \in AbsorbStates(B) : AbsorbStep(B)[at] = AbsorbBody(at)
    BY AbsorbStepType
  <2>3. \A k \in Nat : k + 1 \in Nat
    OBVIOUS
  <2> QED
    BY <2>1, <2>2, <2>3, Zenon
<1>5. Runs(g)
  <2>1. ASSUME NEW k \in Nat
        PROVE  g[k] = IF k = 0 THEN x ELSE AbsorbBody(g[k - 1])
    <3>1. k # 0 => k - 1 \in Nat /\ (k - 1) + 1 = k
      OBVIOUS
    <3> QED
      BY <1>4, <3>1, Zenon
  <2>2. g = [k \in Nat |-> g[k]]
    BY <1>3 DEF Loops
  <2>3. [k \in Nat |-> g[k]] = [k \in Nat |-> IF k = 0 THEN x ELSE AbsorbBody(g[k - 1])]
    BY <2>1, Zenon
  <2> QED
    BY <2>2, <2>3, Zenon
<1>6. Runs(h)
  <2> HIDE DEF Runs
  <2> QED
    BY <1>5
<1> HIDE DEF h
<1>7. \A k \in Nat : h[k] = g[k]
  <2> DEFINE T == {k \in Nat : h[k] = g[k]}
  <2>0. \A k \in Nat : h[k] = IF k = 0 THEN x ELSE AbsorbBody(h[k - 1])
    <3> DEFINE e == [k \in Nat |-> IF k = 0 THEN x ELSE AbsorbBody(h[k - 1])]
    <3>1. \A k \in Nat : e[k] = IF k = 0 THEN x ELSE AbsorbBody(h[k - 1])
      BY Zenon
    <3>2. h = e
      BY <1>6, Zenon
    <3> QED
      BY <3>1, <3>2, Zenon
  <2> HIDE DEF Runs, x
  <2>1. 0 \in T
    BY <1>4, <2>0
  <2>2. ASSUME NEW k \in Nat, k \in T
        PROVE  k + 1 \in T
    <3>1. k + 1 \in Nat /\ k + 1 # 0 /\ (k + 1) - 1 = k /\ h[k] = g[k]
      BY <2>2
    <3>2. h[k + 1] = AbsorbBody(h[k])
      BY <2>0, <3>1, Zenon
    <3>3. h[k + 1] = g[k + 1]
      BY <1>4, <3>1, <3>2, Zenon
    <3> QED
      BY <3>1, <3>3
  <2> HIDE DEF T
  <2>3. \A k \in Nat : k \in T
    BY <2>1, <2>2, NumbersByInduction
  <2> QED
    BY <2>3 DEF T
<1>8. Len(in) \in Nat
  OBVIOUS
<1> HIDE DEF Runs
<1>9. h[Len(in)] = g[Len(in)]
  BY <1>7, <1>8, Zenon
<1> QED
  BY <1>2, <1>3, <1>9, Zenon DEF x

\* After as many rounds as there are bytes, less than a block is left.
LEMMA AbsorbSettles ==
  ASSUME NEW B, HasBytes(B), NEW x \in AbsorbStates(B), NEW f,
         Loops(f, AbsorbStates(B), AbsorbStep(B), x), NEW n \in Nat, Len(x.in) <= n
  PROVE  /\ f[n] = f[Len(x.in)] /\ f[n] \in AbsorbStates(B)
         /\ f[n].pos + Len(f[n].in) < Rate
<1> DEFINE S == AbsorbStates(B)
           body == AbsorbStep(B)
           size == [at \in S |-> Len(at.in)]
           m == Len(x.in)
<1>1. body \in [S -> S] /\ \A at \in S : body[at] = AbsorbBody(at)
  BY AbsorbStepType
<1>2. size \in [S -> Nat] /\ \A at \in S : size[at] = Len(at.in)
  BY DEF AbsorbStates
<1>3. \A at \in S : body[at] = at \/ size[body[at]] < size[at]
  <2>1. ASSUME NEW at \in S
        PROVE  body[at] = at \/ size[body[at]] < size[at]
    <3>1. AbsorbBody(at) = at \/ Len(AbsorbBody(at).in) < Len(at.in)
      BY AbsorbStepType
    <3>2. body[at] \in S
      BY <1>1
    <3> HIDE DEF S, body, size
    <3> QED
      BY <1>1, <1>2, <3>1, <3>2
  <2> QED
    BY <2>1, Zenon
<1>4. m \in Nat /\ size[x] <= m /\ size[x] <= n /\ m <= n
  BY <1>2 DEF AbsorbStates
<1>5. f \in [Nat -> S]
  BY DEF Loops
<1> HIDE DEF S, body, size, m
<1>6. Loops(f, S, body, x) /\ x \in S
  BY Zenon DEF S, body
<1>7. body[f[m]] = f[m]
  <2>1. body \in [S -> S] /\ size \in [S -> Nat] /\ m \in Nat /\ size[x] <= m
    BY <1>1, <1>2, <1>4, Zenon
  <2> QED
    BY <1>3, <1>6, <2>1, LoopEnds
<1>8. body \in [S -> S] /\ m \in Nat /\ n \in Nat /\ m <= n
  BY <1>1, <1>4, Zenon
<1>9. f[n] = f[m]
  BY <1>6, <1>7, <1>8, LoopStays
<1>10. f[n] = f[m] /\ f[m] \in S
  BY <1>4, <1>5, <1>9
<1>11. AbsorbBody(f[m]) = f[m]
  BY <1>1, <1>7, <1>10
<1>12. f[m].pos + Len(f[m].in) < Rate
  BY <1>10, <1>11, AbsorbStepType DEF S
<1> QED
  BY <1>10, <1>12, Zenon DEF S, m

LEMMA AbsorbType ==
  ASSUME NEW B, HasBytes(B), NEW st \in SpongeAt(B), NEW in \in Seq(B)
  PROVE  Sponge!keccak_absorb(st, in) \in SpongeAt(B)
<1> DEFINE x == [s |-> st.s, pos |-> st.pos, in |-> in]
<1>1. x \in AbsorbStates(B) /\ x.in = in /\ Len(in) \in Nat
  BY DEF SpongeAt, AbsorbStates
<1> HIDE DEF x
<1>2. PICK f : /\ Loops(f, AbsorbStates(B), AbsorbStep(B), x)
               /\ Sponge!keccak_absorb(st, in) =
                    [s |-> Sponge!XorInto(f[Len(in)].s, f[Len(in)].pos, f[Len(in)].in),
                     pos |-> f[Len(in)].pos + Len(f[Len(in)].in)]
  BY AbsorbRuns DEF x
<1>3. PICK end : end = f[Len(in)]
  OBVIOUS
<1>4. end \in AbsorbStates(B) /\ end.pos + Len(end.in) < Rate
  BY <1>1, <1>2, <1>3, AbsorbSettles
<1>5. end.s \in SpongeStates(B) /\ end.pos \in Nat /\ end.in \in Seq(B) /\ Len(end.in) \in Nat
  BY <1>4, SpongeSizes DEF AbsorbStates
<1>6. Sponge!XorInto(end.s, end.pos, end.in) \in SpongeStates(B)
  BY <1>5, XorType
<1>7. end.pos + Len(end.in) \in 0 .. Rate - 1
  BY <1>4, <1>5, SpongeSizes
<1> QED
  BY <1>2, <1>3, <1>6, <1>7 DEF SpongeAt

\* What does not fill a block is added to it.
LEMMA AbsorbPart ==
  ASSUME NEW B, HasBytes(B), NEW st \in SpongeAt(B), NEW in \in Seq(B), st.pos + Len(in) < Rate
  PROVE  Sponge!keccak_absorb(st, in) =
           [s |-> Sponge!XorInto(st.s, st.pos, in), pos |-> st.pos + Len(in)]
<1> DEFINE x == [s |-> st.s, pos |-> st.pos, in |-> in]
<1>1. x \in AbsorbStates(B) /\ x.in = in /\ x.pos = st.pos /\ x.s = st.s /\ Len(in) \in Nat
  BY DEF SpongeAt, AbsorbStates
<1> HIDE DEF x
<1>2. PICK f : /\ Loops(f, AbsorbStates(B), AbsorbStep(B), x)
               /\ Sponge!keccak_absorb(st, in) =
                    [s |-> Sponge!XorInto(f[Len(in)].s, f[Len(in)].pos, f[Len(in)].in),
                     pos |-> f[Len(in)].pos + Len(f[Len(in)].in)]
  BY AbsorbRuns DEF x
<1>3. AbsorbStep(B) \in [AbsorbStates(B) -> AbsorbStates(B)] /\ AbsorbStep(B)[x] = x
  <2>1. x.pos + Len(x.in) < Rate
    BY <1>1
  <2> QED
    BY <1>1, <2>1, AbsorbStepType
<1>4. f[0] = x
  BY <1>2 DEF Loops
<1>5. f[Len(in)] = f[0]
  <2> DEFINE S == AbsorbStates(B)
             body == AbsorbStep(B)
             n == Len(in)
  <2>1. /\ n \in Nat /\ 0 <= n /\ body[f[0]] = f[0] /\ body \in [S -> S] /\ x \in S
        /\ Loops(f, S, body, x)
    BY <1>1, <1>2, <1>3, <1>4
  <2> HIDE DEF S, body, n
  <2>2. f[n] = f[0]
    BY <2>1, LoopStays
  <2> QED
    BY <2>2, Zenon DEF n
<1>6. f[Len(in)] = x
  BY <1>4, <1>5, Zenon
<1> QED
  BY <1>1, <1>2, <1>6, Zenon

\* What fills a block is added to it up to there, and absorbing goes on behind
\* the permutation.
LEMMA AbsorbBlock ==
  ASSUME NEW B, HasBytes(B), NEW st \in SpongeAt(B), NEW in \in Seq(B), st.pos + Len(in) >= Rate
  PROVE  LET next == [s |-> Permute(Sponge!XorInto(st.s, st.pos, SubSeq(in, 1, Rate - st.pos))),
                      pos |-> 0]
             rest == SubSeq(in, Rate - st.pos + 1, Len(in))
         IN /\ next \in SpongeAt(B) /\ rest \in Seq(B) /\ Len(rest) < Len(in)
            /\ Sponge!keccak_absorb(st, in) = Sponge!keccak_absorb(next, rest)
<1> DEFINE x == [s |-> st.s, pos |-> st.pos, in |-> in]
           room == Rate - st.pos
           s == Permute(Sponge!XorInto(st.s, st.pos, SubSeq(in, 1, room)))
           next == [s |-> s, pos |-> 0]
           rest == SubSeq(in, room + 1, Len(in))
           y == [s |-> next.s, pos |-> next.pos, in |-> rest]
           S == AbsorbStates(B)
           body == AbsorbStep(B)
<1>1. x \in S /\ x.in = in /\ x.pos = st.pos /\ x.s = st.s /\ Len(in) \in Nat
  BY DEF SpongeAt, AbsorbStates
<1>2. body \in [S -> S] /\ body[x] = AbsorbBody(x)
  BY <1>1, AbsorbStepType
<1>3. ~ (x.pos + Len(x.in) < Rate)
  BY <1>1, SpongeSizes DEF AbsorbStates
<1>4. AbsorbBody(x) = [s |-> s, pos |-> 0, in |-> rest]
  BY <1>1, <1>3, Zenon DEF AbsorbBody
<1>5. next.s = s /\ next.pos = 0
  OBVIOUS
<1>6. body[x] = y
  BY <1>2, <1>4, <1>5, Zenon
<1>7. y \in S
  BY <1>1, <1>2, <1>6
<1>8. s \in SpongeStates(B) /\ rest \in Seq(B)
  <2> HIDE DEF s, rest, next
  <2> QED
    BY <1>5, <1>7 DEF AbsorbStates
<1>9. next \in SpongeAt(B)
  <2> HIDE DEF s
  <2> QED
    BY <1>8, SpongeSizes DEF SpongeAt
<1>10. Len(rest) < Len(in)
  <2>1. AbsorbBody(x) # x
    BY <1>1, <1>3, AbsorbStepType
  <2>2. Len(AbsorbBody(x).in) < Len(x.in)
    BY <1>1, <2>1, AbsorbStepType
  <2>3. AbsorbBody(x).in = rest
    BY <1>4
  <2> QED
    BY <1>1, <2>2, <2>3, Zenon
<1> HIDE DEF x, s, room, next, rest, y, S, body
<1>11. PICK f : /\ Loops(f, S, body, x)
                /\ Sponge!keccak_absorb(st, in) =
                     [s |-> Sponge!XorInto(f[Len(in)].s, f[Len(in)].pos, f[Len(in)].in),
                      pos |-> f[Len(in)].pos + Len(f[Len(in)].in)]
  BY AbsorbRuns DEF x, S, body
<1>12. PICK g : /\ Loops(g, S, body, y)
                /\ Sponge!keccak_absorb(next, rest) =
                     [s |-> Sponge!XorInto(g[Len(rest)].s, g[Len(rest)].pos, g[Len(rest)].in),
                      pos |-> g[Len(rest)].pos + Len(g[Len(rest)].in)]
  BY <1>8, <1>9, AbsorbRuns DEF y, S, body
<1>13. Len(in) - 1 \in Nat /\ Len(rest) <= Len(in) - 1 /\ (Len(in) - 1) + 1 = Len(in)
  BY <1>1, <1>8, <1>10
<1>14. f[(Len(in) - 1) + 1] = g[Len(in) - 1]
  <2>1. Loops(g, S, body, body[x])
    BY <1>6, <1>12, Zenon
  <2> QED
    BY <1>1, <1>2, <1>11, <1>13, <2>1, LoopGoesOn
<1>15. y.in = rest
  BY DEF y
<1>16. g[Len(in) - 1] = g[Len(rest)]
  <2>1. PICK n \in Nat : n = Len(in) - 1
    BY <1>13
  <2>2. Len(y.in) <= n
    BY <1>13, <1>15, <2>1
  <2>3. y \in AbsorbStates(B) /\ Loops(g, AbsorbStates(B), AbsorbStep(B), y)
    BY <1>7, <1>12 DEF S, body
  <2>4. g[n] = g[Len(y.in)]
    BY <2>2, <2>3, AbsorbSettles
  <2> QED
    BY <1>15, <2>1, <2>4, Zenon
<1>17. f[Len(in)] = g[Len(rest)]
  BY <1>13, <1>14, <1>16, Zenon
<1>18. Sponge!keccak_absorb(st, in) = Sponge!keccak_absorb(next, rest)
  BY <1>11, <1>12, <1>17, Zenon
<1> QED
  BY <1>8, <1>9, <1>10, <1>18, Zenon DEF next, rest, s, room

\* The first bytes of a string and the rest, where they end in its first part.
LEMMA CutsFirst ==
  ASSUME NEW B, NEW a \in Seq(B), NEW c \in Seq(B), NEW k \in 0 .. Len(a)
  PROVE  /\ SubSeq(a \o c, 1, k) = SubSeq(a, 1, k)
         /\ SubSeq(a \o c, k + 1, Len(a \o c)) = SubSeq(a, k + 1, Len(a)) \o c
<1> DEFINE both == a \o c
           n == Len(a)
           front == SubSeq(a, 1, k)
           back == SubSeq(a, k + 1, n)
<1>1. /\ both \in Seq(B) /\ Len(both) = n + Len(c)
      /\ \A i \in 1 .. n : both[i] = a[i]
      /\ \A i \in 1 .. Len(c) : both[n + i] = c[i]
  BY Concatenated
<1>2. n \in Nat /\ Len(c) \in Nat /\ k \in Nat /\ k <= n /\ Len(both) \in Nat /\ 0 + 1 = 1
  BY <1>1
<1> HIDE DEF both
<1>3. front \in Seq(B) /\ Len(front) = k /\ \A i \in 1 .. k : front[i] = a[i]
  OBVIOUS
<1>4. back \in Seq(B) /\ Len(back) = n - k /\ \A i \in 1 .. n - k : back[i] = a[k + i]
  OBVIOUS
<1>5. /\ SubSeq(both, 1, k) \in Seq(B) /\ Len(SubSeq(both, 1, k)) = k
      /\ \A i \in 1 .. k : SubSeq(both, 1, k)[i] = both[i]
  BY <1>1, <1>2
<1>6. /\ SubSeq(both, k + 1, Len(both)) \in Seq(B)
      /\ Len(SubSeq(both, k + 1, Len(both))) = Len(both) - k
      /\ \A i \in 1 .. Len(both) - k : SubSeq(both, k + 1, Len(both))[i] = both[k + i]
  BY <1>1, <1>2
<1> HIDE DEF front, back, n
<1>7. SubSeq(both, 1, k) = front
  <2> DEFINE l == SubSeq(both, 1, k)
  <2>1. l \in Seq(B) /\ Len(l) = k /\ \A i \in 1 .. k : l[i] = both[i]
    BY <1>5
  <2> HIDE DEF l
  <2>2. \A i \in 1 .. k : l[i] = front[i]
    <3>1. \A i \in 1 .. k : i \in 1 .. n
      BY <1>2
    <3> QED
      BY <1>1, <1>3, <2>1, <3>1, Zenon
  <2>3. l = front
    BY <1>3, <2>1, <2>2, SameElements
  <2> QED
    BY <2>3 DEF l
<1>8. SubSeq(both, k + 1, Len(both)) = back \o c
  <2> DEFINE l == SubSeq(both, k + 1, Len(both))
             r == back \o c
  <2>1. l \in Seq(B) /\ Len(l) = Len(both) - k /\ \A i \in 1 .. Len(both) - k : l[i] = both[k + i]
    BY <1>6
  <2>2. /\ r \in Seq(B) /\ Len(r) = (n - k) + Len(c)
        /\ \A i \in 1 .. n - k : r[i] = back[i]
        /\ \A i \in 1 .. Len(c) : r[(n - k) + i] = c[i]
    <3>1. back \in Seq(B)
      BY <1>4, Zenon
    <3>2. /\ r \in Seq(B) /\ Len(r) = Len(back) + Len(c)
          /\ \A i \in 1 .. Len(back) : r[i] = back[i]
          /\ \A i \in 1 .. Len(c) : r[Len(back) + i] = c[i]
      BY <3>1, Concatenated
    <3> HIDE DEF r
    <3> QED
      BY <1>4, <3>2, Zenon
  <2> HIDE DEF l, r
  <2>3. Len(l) = Len(r)
    BY <1>1, <1>2, <2>1, <2>2
  <2>4. ASSUME NEW i \in 1 .. Len(l)
        PROVE  l[i] = r[i]
    <3>1. l[i] = both[k + i]
      BY <2>1
    <3>2. CASE i \in 1 .. n - k
      <4>1. k + i \in 1 .. n
        BY <1>2, <3>2
      <4> QED
        BY <1>1, <1>4, <2>2, <3>1, <3>2, <4>1
    <3>3. CASE i \notin 1 .. n - k
      <4> DEFINE j == i - (n - k)
      <4>1. j \in 1 .. Len(c) /\ (n - k) + j = i /\ n + j = k + i
        BY <1>1, <1>2, <2>1, <3>3
      <4> HIDE DEF j
      <4>2. both[n + j] = c[j] /\ r[(n - k) + j] = c[j]
        BY <1>1, <2>2, <4>1
      <4> QED
        BY <3>1, <4>1, <4>2
    <3> QED
      BY <3>2, <3>3
  <2>5. l = r
    BY <2>1, <2>2, <2>3, <2>4, SameElements
  <2> QED
    BY <2>5 DEF l, r
<1> QED
  BY <1>7, <1>8, Zenon DEF both, front, back, n

\* The same where they end in its second part, after m bytes.
LEMMA CutsSecond ==
  ASSUME NEW B, NEW a \in Seq(B), NEW c \in Seq(B), NEW k \in 0 .. Len(c),
         NEW m \in Nat, m = Len(a) + k
  PROVE  /\ SubSeq(a \o c, 1, m) = a \o SubSeq(c, 1, k)
         /\ SubSeq(a \o c, m + 1, Len(a \o c)) = SubSeq(c, k + 1, Len(c))
<1> DEFINE both == a \o c
           n == Len(a)
           front == SubSeq(c, 1, k)
           back == SubSeq(c, k + 1, Len(c))
<1>1. /\ both \in Seq(B) /\ Len(both) = n + Len(c)
      /\ \A i \in 1 .. n : both[i] = a[i]
      /\ \A i \in 1 .. Len(c) : both[n + i] = c[i]
  BY Concatenated
<1>2. /\ n \in Nat /\ Len(c) \in Nat /\ k \in Nat /\ k <= Len(c) /\ Len(both) \in Nat
      /\ m = n + k /\ m <= Len(both)
  BY <1>1
<1> HIDE DEF both
<1>3. front \in Seq(B) /\ Len(front) = k /\ \A i \in 1 .. k : front[i] = c[i]
  OBVIOUS
<1>4. back \in Seq(B) /\ Len(back) = Len(c) - k /\ \A i \in 1 .. Len(c) - k : back[i] = c[k + i]
  OBVIOUS
<1>5. /\ SubSeq(both, 1, m) \in Seq(B) /\ Len(SubSeq(both, 1, m)) = m
      /\ \A i \in 1 .. m : SubSeq(both, 1, m)[i] = both[i]
  BY <1>1, <1>2
<1>6. /\ SubSeq(both, m + 1, Len(both)) \in Seq(B)
      /\ Len(SubSeq(both, m + 1, Len(both))) = Len(both) - m
      /\ \A i \in 1 .. Len(both) - m : SubSeq(both, m + 1, Len(both))[i] = both[m + i]
  BY <1>1, <1>2
<1> HIDE DEF front, back, n
<1>7. SubSeq(both, 1, m) = a \o front
  <2> DEFINE l == SubSeq(both, 1, m)
             r == a \o front
  <2>1. l \in Seq(B) /\ Len(l) = m /\ \A i \in 1 .. m : l[i] = both[i]
    BY <1>5
  <2>2. /\ r \in Seq(B) /\ Len(r) = n + k
        /\ \A i \in 1 .. n : r[i] = a[i]
        /\ \A i \in 1 .. k : r[n + i] = front[i]
    <3>1. front \in Seq(B)
      BY <1>3, Zenon
    <3>2. /\ r \in Seq(B) /\ Len(r) = Len(a) + Len(front)
          /\ \A i \in 1 .. Len(a) : r[i] = a[i]
          /\ \A i \in 1 .. Len(front) : r[Len(a) + i] = front[i]
      BY <3>1, Concatenated
    <3> HIDE DEF r
    <3> QED
      BY <1>3, <3>2, Zenon DEF n
  <2> HIDE DEF l, r
  <2>3. ASSUME NEW i \in 1 .. Len(l)
        PROVE  l[i] = r[i]
    <3>1. l[i] = both[i] /\ i \in 1 .. m
      BY <2>1
    <3>2. CASE i \in 1 .. n
      BY <1>1, <2>2, <3>1, <3>2
    <3>3. CASE i \notin 1 .. n
      <4> DEFINE j == i - n
      <4>1. j \in 1 .. k /\ n + j = i /\ j \in 1 .. Len(c)
        BY <1>2, <3>1, <3>3
      <4> HIDE DEF j
      <4>2. both[n + j] = c[j] /\ r[n + j] = front[j] /\ front[j] = c[j]
        BY <1>1, <1>3, <2>2, <4>1
      <4> QED
        BY <3>1, <4>1, <4>2
    <3> QED
      BY <3>2, <3>3
  <2>4. l = r
    BY <1>2, <2>1, <2>2, <2>3, SameElements
  <2> QED
    BY <2>4 DEF l, r
<1>8. SubSeq(both, m + 1, Len(both)) = back
  <2> DEFINE l == SubSeq(both, m + 1, Len(both))
  <2>1. l \in Seq(B) /\ Len(l) = Len(both) - m /\ \A i \in 1 .. Len(both) - m : l[i] = both[m + i]
    BY <1>6
  <2> HIDE DEF l
  <2>2. ASSUME NEW i \in 1 .. Len(l)
        PROVE  l[i] = back[i]
    <3>1. k + i \in 1 .. Len(c) /\ n + (k + i) = m + i /\ i \in 1 .. Len(c) - k
          /\ i \in 1 .. Len(both) - m
      <4>1. i \in 1 .. Len(both) - m /\ Len(both) = n + Len(c)
        BY <1>1, <2>1
      <4> QED
        BY <1>2, <4>1
    <3>2. both[n + (k + i)] = c[k + i]
      BY <1>1, <3>1, Zenon
    <3>3. l[i] = both[m + i] /\ back[i] = c[k + i]
      BY <1>4, <2>1, <3>1, Zenon
    <3> QED
      BY <3>1, <3>2, <3>3
  <2>3. Len(l) = Len(back)
    BY <1>1, <1>2, <1>4, <2>1
  <2>4. l = back
    BY <1>4, <2>1, <2>2, <2>3, SameElements
  <2> QED
    BY <2>4 DEF l
<1> QED
  BY <1>7, <1>8, Zenon DEF both, front, back, n

\* Where the first of two strings ends within a block, they are absorbed like
\* their concatenation.
LEMMA PartJoins ==
  ASSUME NEW B, HasBytes(B), NEW st \in SpongeAt(B), NEW a \in Seq(B), NEW c \in Seq(B),
         st.pos + Len(a) < Rate
  PROVE  Sponge!keccak_absorb(st, a \o c) = Sponge!keccak_absorb(Sponge!keccak_absorb(st, a), c)
<1> DEFINE mid == Sponge!keccak_absorb(st, a)
           both == a \o c
           n == Len(a)
           p == st.pos
<1>1. /\ both \in Seq(B) /\ Len(both) = n + Len(c) /\ n \in Nat /\ Len(c) \in Nat
      /\ p \in 0 .. Rate - 1 /\ p \in Nat /\ st.s \in SpongeStates(B)
  <2>1. both \in Seq(B) /\ Len(both) = n + Len(c)
    BY Concatenated
  <2> QED
    BY <2>1, SpongeSizes DEF SpongeAt
<1>2. mid = [s |-> Sponge!XorInto(st.s, p, a), pos |-> p + n]
  BY AbsorbPart
<1>3. mid \in SpongeAt(B)
  BY AbsorbType
<1>4. mid.pos = p + n /\ mid.s = Sponge!XorInto(st.s, p, a) /\ p + n \in 0 .. Rate - 1
      /\ p + n \in Nat /\ p + n < Rate
  BY <1>1, <1>2, SpongeSizes
<1> HIDE DEF mid
<1>5. CASE p + Len(both) < Rate
  <2>1. Sponge!keccak_absorb(st, both) = [s |-> Sponge!XorInto(st.s, p, both), pos |-> p + Len(both)]
    BY <1>1, <1>5, AbsorbPart
  <2>2. mid.pos + Len(c) < Rate
    BY <1>1, <1>4, <1>5
  <2>3. Sponge!keccak_absorb(mid, c) =
          [s |-> Sponge!XorInto(mid.s, mid.pos, c), pos |-> mid.pos + Len(c)]
    BY <1>3, <2>2, AbsorbPart
  <2>4. Sponge!XorInto(Sponge!XorInto(st.s, p, a), p + n, c) = Sponge!XorInto(st.s, p, both)
    BY <1>1, XorJoins
  <2>5. mid.pos + Len(c) = p + Len(both)
    BY <1>1, <1>4
  <2>6. Sponge!XorInto(mid.s, mid.pos, c) = Sponge!XorInto(st.s, p, both)
    BY <1>4, <2>4, Zenon
  <2> QED
    BY <2>1, <2>3, <2>5, <2>6, Zenon DEF mid
<1>6. CASE p + Len(both) >= Rate
  <2> DEFINE room == Rate - p
             k == Rate - mid.pos
             block == SubSeq(both, 1, room)
             rest == SubSeq(both, room + 1, Len(both))
             part == SubSeq(c, 1, k)
             tail == SubSeq(c, k + 1, Len(c))
  <2>1. room \in Nat /\ k \in 0 .. Len(c) /\ room = n + k /\ mid.pos + Len(c) >= Rate
    BY <1>1, <1>4, <1>6, SpongeSizes
  <2>2. block = a \o part /\ rest = tail
    BY <2>1, CutsSecond
  <2>3. Sponge!keccak_absorb(st, both) =
          Sponge!keccak_absorb([s |-> Permute(Sponge!XorInto(st.s, p, block)), pos |-> 0], rest)
    BY <1>1, <1>6, AbsorbBlock
  <2>4. Sponge!keccak_absorb(mid, c) =
          Sponge!keccak_absorb([s |-> Permute(Sponge!XorInto(mid.s, mid.pos, part)), pos |-> 0], tail)
    BY <1>3, <2>1, AbsorbBlock
  <2>5. part \in Seq(B)
    BY <1>3, <2>1, FirstBlock DEF SpongeAt
  <2> HIDE DEF part, block, rest, tail
  <2>6. Sponge!XorInto(Sponge!XorInto(st.s, p, a), p + n, part) = Sponge!XorInto(st.s, p, a \o part)
    <3> HIDE DEF p, both
    <3> QED
      BY <1>1, <2>5, XorJoins DEF n
  <2>7. Sponge!XorInto(mid.s, mid.pos, part) = Sponge!XorInto(st.s, p, block)
    BY <1>4, <2>2, <2>6, Zenon
  <2> QED
    BY <2>2, <2>3, <2>4, <2>7, Zenon DEF mid
<1> QED
  BY <1>1, <1>5, <1>6, SpongeSizes

\* Absorbing two strings, one after the other, is absorbing their concatenation.
LEMMA AbsorbJoins ==
  ASSUME NEW B, HasBytes(B), NEW st \in SpongeAt(B), NEW a \in Seq(B), NEW c \in Seq(B)
  PROVE  Sponge!keccak_absorb(st, a \o c) = Sponge!keccak_absorb(Sponge!keccak_absorb(st, a), c)
<1> DEFINE Joins(t, b) == Sponge!keccak_absorb(t, b \o c)
                            = Sponge!keccak_absorb(Sponge!keccak_absorb(t, b), c)
           T == {n \in Nat : \A t \in SpongeAt(B) : \A b \in Seq(B) : Len(b) <= n => Joins(t, b)}
<1>1. ASSUME NEW t \in SpongeAt(B), NEW b \in Seq(B), t.pos + Len(b) < Rate
      PROVE  Joins(t, b)
  BY <1>1, PartJoins
<1>2. ASSUME NEW t \in SpongeAt(B), NEW b \in Seq(B), t.pos + Len(b) >= Rate
      PROVE  \E next \in SpongeAt(B), rest \in Seq(B) :
               Len(rest) < Len(b) /\ (Joins(next, rest) => Joins(t, b))
  <2> DEFINE room == Rate - t.pos
             both == b \o c
             next == [s |-> Permute(Sponge!XorInto(t.s, t.pos, SubSeq(b, 1, room))), pos |-> 0]
             rest == SubSeq(b, room + 1, Len(b))
  <2>1. t.pos \in 0 .. Rate - 1 /\ room \in 0 .. Len(b)
    BY <1>2, SpongeSizes DEF SpongeAt
  <2>2. /\ next \in SpongeAt(B) /\ rest \in Seq(B) /\ Len(rest) < Len(b)
        /\ Sponge!keccak_absorb(t, b) = Sponge!keccak_absorb(next, rest)
    BY <1>2, AbsorbBlock
  <2>3. both \in Seq(B) /\ t.pos + Len(both) >= Rate
    <3>1. both \in Seq(B) /\ Len(both) = Len(b) + Len(c)
      BY Concatenated
    <3> HIDE DEF both
    <3>2. Len(b) \in Nat /\ Len(c) \in Nat
      OBVIOUS
    <3> QED
      BY <1>2, <2>1, <3>1, <3>2, SpongeSizes
  <2>4. SubSeq(both, 1, room) = SubSeq(b, 1, room) /\ SubSeq(both, room + 1, Len(both)) = rest \o c
    BY <2>1, CutsFirst
  <2> HIDE DEF both
  <2>5. Sponge!keccak_absorb(t, both) =
          Sponge!keccak_absorb([s |-> Permute(Sponge!XorInto(t.s, t.pos, SubSeq(both, 1, room))), pos |-> 0],
                               SubSeq(both, room + 1, Len(both)))
    BY <2>3, AbsorbBlock
  <2>6. Sponge!keccak_absorb(t, both) = Sponge!keccak_absorb(next, rest \o c)
    BY <2>4, <2>5, Zenon
  <2> HIDE DEF next, rest
  <2>7. Joins(next, rest) => Joins(t, b)
    BY <2>2, <2>6, Zenon DEF both
  <2> QED
    BY <2>2, <2>7
<1> HIDE DEF Joins
<1>3. 0 \in T
  <2>1. ASSUME NEW t \in SpongeAt(B), NEW b \in Seq(B), Len(b) <= 0
        PROVE  Joins(t, b)
    <3>1. t.pos + Len(b) < Rate
      BY <2>1, SpongeSizes DEF SpongeAt
    <3> QED
      BY <1>1, <3>1
  <2> QED
    BY <2>1
<1>4. ASSUME NEW n \in Nat, n \in T
      PROVE  n + 1 \in T
  <2>1. ASSUME NEW t \in SpongeAt(B), NEW b \in Seq(B), Len(b) <= n + 1
        PROVE  Joins(t, b)
    <3>1. CASE t.pos + Len(b) < Rate
      BY <1>1, <3>1
    <3>2. CASE t.pos + Len(b) >= Rate
      <4>1. PICK next \in SpongeAt(B), rest \in Seq(B) :
               Len(rest) < Len(b) /\ (Joins(next, rest) => Joins(t, b))
        BY <1>2, <3>2
      <4>2. Len(rest) <= n
        BY <2>1, <4>1
      <4>3. Joins(next, rest)
        BY <1>4, <4>2
      <4> QED
        BY <4>1, <4>3
    <3>3. t.pos \in Nat /\ Len(b) \in Nat
      BY SpongeSizes DEF SpongeAt
    <3> QED
      BY <3>1, <3>2, <3>3, SpongeSizes
  <2> QED
    BY <2>1
<1> HIDE DEF T
<1>5. Len(a) \in Nat
  OBVIOUS
<1>6. Len(a) \in T
  BY <1>3, <1>4, <1>5, NumbersByInduction
<1>7. Joins(st, a)
  BY <1>5, <1>6 DEF T
<1> QED
  BY <1>7 DEF Joins

\* Functions of the numbers that begin alike and go on alike.
LEMMA SameLoops ==
  ASSUME NEW g, NEW h, g[0] = h[0], \A k \in Nat : h[k] = g[k] => h[k + 1] = g[k + 1]
  PROVE  \A k \in Nat : h[k] = g[k]
<1> DEFINE T == {k \in Nat : h[k] = g[k]}
<1>1. 0 \in T /\ \A k \in Nat : k \in T => k + 1 \in T
  OBVIOUS
<1> HIDE DEF T
<1>2. \A k \in Nat : k \in T
  BY <1>1, NumbersByInduction
<1> QED
  BY <1>2 DEF T

-----------------------------------------------------------------------------
(* keccak_absorb_once.                                                      *)

Start == [s |-> Sponge!Blank, pos |-> 0]
OnceBody(at) ==
  IF Len(at.in) < Rate THEN at
  ELSE [s |-> Permute(Sponge!XorInto(at.s, 0, SubSeq(at.in, 1, Rate))),
        in |-> SubSeq(at.in, Rate + 1, Len(at.in))]

LEMMA StartType ==
  ASSUME NEW B, HasBytes(B) PROVE Start \in SpongeAt(B)
BY BlankType, SpongeSizes DEF Start, SpongeAt

\* Absorbing all at once is absorbing, and the padding.
LEMMA OnceAbsorbs ==
  ASSUME NEW B, HasBytes(B), NEW in \in Seq(B)
  PROVE  Sponge!keccak_absorb_once(in) =
           Sponge!Padded(Sponge!keccak_absorb(Start, in).s, Sponge!keccak_absorb(Start, in).pos)
<1> DEFINE x == [s |-> Start.s, pos |-> Start.pos, in |-> in]
           y == [s |-> Sponge!Blank, in |-> in]
           Runs(g) == g = [k \in Nat |-> IF k = 0 THEN [s |-> Sponge!Blank, in |-> in]
                                         ELSE OnceBody(g[k - 1])]
           h == CHOOSE g : Runs(g)
<1>1. x \in AbsorbStates(B) /\ x.s = Sponge!Blank /\ x.pos = 0 /\ x.in = in
  BY StartType DEF SpongeAt, AbsorbStates, Start
<1>2. Sponge!keccak_absorb_once(in) =
        Sponge!Padded(Sponge!XorInto(h[Len(in)].s, 0, h[Len(in)].in), Len(h[Len(in)].in))
  BY Zenon DEF Sponge!keccak_absorb_once, OnceBody
<1>3. PICK f : /\ Loops(f, AbsorbStates(B), AbsorbStep(B), x)
               /\ Sponge!keccak_absorb(Start, in) =
                    [s |-> Sponge!XorInto(f[Len(in)].s, f[Len(in)].pos, f[Len(in)].in),
                     pos |-> f[Len(in)].pos + Len(f[Len(in)].in)]
  BY StartType, AbsorbRuns
<1> HIDE DEF x
<1>4. /\ \A k \in Nat : f[k] \in AbsorbStates(B) /\ f[k + 1] = AbsorbBody(f[k]) /\ k + 1 \in Nat
      /\ f[0] = x
  <2>1. f[0] = x /\ \A k \in Nat : f[k] \in AbsorbStates(B) /\ f[k + 1] = AbsorbStep(B)[f[k]]
    BY <1>3 DEF Loops
  <2>2. \A at \in AbsorbStates(B) : AbsorbStep(B)[at] = AbsorbBody(at)
    BY AbsorbStepType
  <2>3. \A k \in Nat : k + 1 \in Nat
    OBVIOUS
  <2> QED
    BY <2>1, <2>2, <2>3, Zenon
<1> DEFINE g == [k \in Nat |-> [s |-> f[k].s, in |-> f[k].in]]
<1>5. ASSUME NEW at \in AbsorbStates(B), at.pos = 0
      PROVE  /\ AbsorbBody(at).pos = 0
             /\ OnceBody([s |-> at.s, in |-> at.in]) = [s |-> AbsorbBody(at).s, in |-> AbsorbBody(at).in]
  <2>1. Len(at.in) \in Nat /\ at.pos + Len(at.in) = Len(at.in) /\ Rate - at.pos = Rate
    BY <1>5, SpongeSizes DEF AbsorbStates
  <2> DEFINE z == [s |-> at.s, in |-> at.in]
             t == Permute(Sponge!XorInto(at.s, 0, SubSeq(at.in, 1, Rate)))
             rest == SubSeq(at.in, Rate + 1, Len(at.in))
  <2>2. z.s = at.s /\ z.in = at.in
    OBVIOUS
  <2> HIDE DEF z
  <2>3. CASE Len(at.in) < Rate
    <3>1. AbsorbBody(at) = at
      BY <2>1, <2>3, Zenon DEF AbsorbBody
    <3>2. OnceBody(z) = z
      BY <2>2, <2>3, Zenon DEF OnceBody
    <3> QED
      BY <1>5, <3>1, <3>2, Zenon DEF z
  <2>4. CASE ~(Len(at.in) < Rate)
    <3>1. AbsorbBody(at) = [s |-> t, pos |-> 0, in |-> rest]
      BY <1>5, <2>1, <2>4, Zenon DEF AbsorbBody
    <3>2. OnceBody(z) = [s |-> t, in |-> rest]
      BY <2>2, <2>4, Zenon DEF OnceBody
    <3> HIDE DEF t, rest
    <3>3. AbsorbBody(at).pos = 0 /\ AbsorbBody(at).s = t /\ AbsorbBody(at).in = rest
      BY <3>1
    <3> QED
      BY <3>2, <3>3, Zenon DEF z
  <2> QED
    BY <2>3, <2>4
<1>6. \A k \in Nat : f[k].pos = 0
  <2> DEFINE T == {k \in Nat : f[k].pos = 0}
  <2>1. 0 \in T
    BY <1>1, <1>4
  <2>2. ASSUME NEW k \in Nat, k \in T
        PROVE  k + 1 \in T
    BY <1>4, <1>5, <2>2
  <2> HIDE DEF T
  <2>3. \A k \in Nat : k \in T
    BY <2>1, <2>2, NumbersByInduction
  <2> QED
    BY <2>3 DEF T
<1>7. /\ g[0] = y
      /\ \A k \in Nat : g[k + 1] = OnceBody(g[k]) /\ k + 1 \in Nat
  <2>1. g[0] = y
    BY <1>1, <1>4
  <2>2. ASSUME NEW k \in Nat
        PROVE  g[k + 1] = OnceBody(g[k])
    <3>1. f[k] \in AbsorbStates(B) /\ f[k].pos = 0 /\ f[k + 1] = AbsorbBody(f[k]) /\ k + 1 \in Nat
      BY <1>4, <1>6
    <3>2. OnceBody([s |-> f[k].s, in |-> f[k].in])
            = [s |-> AbsorbBody(f[k]).s, in |-> AbsorbBody(f[k]).in]
      BY <1>5, <3>1
    <3>3. g[k] = [s |-> f[k].s, in |-> f[k].in] /\ g[k + 1] = [s |-> f[k + 1].s, in |-> f[k + 1].in]
      BY <3>1
    <3> HIDE DEF g
    <3> QED
      BY <3>1, <3>2, <3>3, Zenon
  <2> QED
    BY <1>4, <2>1, <2>2
<1>8. g = [k \in Nat |-> g[k]]
  OBVIOUS
<1>9. Len(in) \in Nat /\ g[Len(in)].s = f[Len(in)].s /\ g[Len(in)].in = f[Len(in)].in
  OBVIOUS
<1> HIDE DEF g, y
<1>10. Runs(g)
  <2>1. ASSUME NEW k \in Nat
        PROVE  g[k] = IF k = 0 THEN y ELSE OnceBody(g[k - 1])
    <3>1. k # 0 => k - 1 \in Nat /\ (k - 1) + 1 = k
      OBVIOUS
    <3> QED
      BY <1>7, <3>1, Zenon
  <2>2. [k \in Nat |-> g[k]] = [k \in Nat |-> IF k = 0 THEN y ELSE OnceBody(g[k - 1])]
    BY <2>1, Zenon
  <2> QED
    BY <1>8, <2>2, Zenon DEF y
<1>11. Runs(h)
  <2> HIDE DEF Runs
  <2> QED
    BY <1>10
<1> HIDE DEF h
<1>12. \A k \in Nat : h[k] = IF k = 0 THEN y ELSE OnceBody(h[k - 1])
  <2> DEFINE e == [k \in Nat |-> IF k = 0 THEN y ELSE OnceBody(h[k - 1])]
  <2>1. \A k \in Nat : e[k] = IF k = 0 THEN y ELSE OnceBody(h[k - 1])
    BY Zenon
  <2>2. h = e
    BY <1>11, Zenon DEF y
  <2> QED
    BY <2>1, <2>2, Zenon
<1> HIDE DEF Runs
<1>13. \A k \in Nat : h[k] = g[k]
  <2>1. h[0] = g[0]
    BY <1>7, <1>12
  <2>2. ASSUME NEW k \in Nat, h[k] = g[k]
        PROVE  h[k + 1] = g[k + 1]
    <3>1. k + 1 \in Nat /\ k + 1 # 0 /\ (k + 1) - 1 = k
      OBVIOUS
    <3>2. h[k + 1] = OnceBody(h[k])
      BY <1>12, <3>1, Zenon
    <3> QED
      BY <1>7, <2>2, <3>2, Zenon
  <2> QED
    BY <2>1, <2>2, SameLoops
<1>14. PICK end : end = f[Len(in)]
  OBVIOUS
<1>15. end \in AbsorbStates(B) /\ end.pos = 0 /\ 0 + Len(end.in) = Len(end.in)
  BY <1>4, <1>6, <1>9, <1>14 DEF AbsorbStates
<1>16. h[Len(in)].s = end.s /\ h[Len(in)].in = end.in
  BY <1>9, <1>13, <1>14
<1>17. Sponge!keccak_absorb(Start, in) = [s |-> Sponge!XorInto(end.s, 0, end.in), pos |-> Len(end.in)]
  BY <1>3, <1>14, <1>15, Zenon
<1>18. Sponge!keccak_absorb_once(in) = Sponge!Padded(Sponge!XorInto(end.s, 0, end.in), Len(end.in))
  BY <1>2, <1>16, Zenon
<1> HIDE DEF x
<1>19. PICK st : st = Sponge!keccak_absorb(Start, in)
  OBVIOUS
<1>20. st.s = Sponge!XorInto(end.s, 0, end.in) /\ st.pos = Len(end.in)
  BY <1>17, <1>19
<1> QED
  BY <1>18, <1>19, <1>20, Zenon

-----------------------------------------------------------------------------
(* The permutation, again and again.                                        *)

LEMMA Permutations ==
  ASSUME NEW B, HasBytes(B), NEW s \in SpongeStates(B)
  PROVE  /\ Sponge!Permuted(s, 0) = s
         /\ \A n \in Nat : /\ Sponge!Permuted(s, n) \in SpongeStates(B)
                           /\ Sponge!Permuted(s, n + 1) = Permute(Sponge!Permuted(s, n))
<1> DEFINE S == SpongeStates(B)
           body == [t \in S |-> Permute(t)]
           Runs(g) == g = [k \in Nat |-> IF k = 0 THEN s ELSE Permute(g[k - 1])]
           h == CHOOSE g : Runs(g)
<1>1. body \in [S -> S] /\ \A t \in S : body[t] = Permute(t)
  BY PermuteType
<1>2. \A n : Sponge!Permuted(s, n) = h[n]
  BY Zenon DEF Sponge!Permuted
<1> HIDE DEF S, body
<1>3. s \in S
  BY DEF S
<1>4. PICK g : Loops(g, S, body, s)
  BY <1>1, <1>3, LoopExists
<1>5. g[0] = s /\ \A k \in Nat : g[k] \in S /\ g[k + 1] = Permute(g[k]) /\ k + 1 \in Nat
  <2>1. g[0] = s /\ \A k \in Nat : g[k] \in S /\ g[k + 1] = body[g[k]] /\ k + 1 \in Nat
    BY <1>4 DEF Loops
  <2> QED
    BY <1>1, <2>1, Zenon
<1>6. Runs(g)
  <2>1. ASSUME NEW k \in Nat
        PROVE  g[k] = IF k = 0 THEN s ELSE Permute(g[k - 1])
    <3>1. k # 0 => k - 1 \in Nat /\ (k - 1) + 1 = k
      OBVIOUS
    <3> QED
      BY <1>5, <3>1, Zenon
  <2>2. g = [k \in Nat |-> g[k]]
    BY <1>4 DEF Loops
  <2>3. [k \in Nat |-> g[k]] = [k \in Nat |-> IF k = 0 THEN s ELSE Permute(g[k - 1])]
    BY <2>1, Zenon
  <2> QED
    BY <2>2, <2>3, Zenon
<1>7. Runs(h)
  <2> HIDE DEF Runs
  <2> QED
    BY <1>6
<1> HIDE DEF h
<1>8. \A k \in Nat : h[k] = IF k = 0 THEN s ELSE Permute(h[k - 1])
  <2> DEFINE e == [k \in Nat |-> IF k = 0 THEN s ELSE Permute(h[k - 1])]
  <2>1. \A k \in Nat : e[k] = IF k = 0 THEN s ELSE Permute(h[k - 1])
    BY Zenon
  <2>2. h = e
    BY <1>7, Zenon
  <2> QED
    BY <2>1, <2>2, Zenon
<1> HIDE DEF Runs
<1>9. \A k \in Nat : h[k] = g[k]
  <2>1. h[0] = g[0]
    BY <1>5, <1>8
  <2>2. ASSUME NEW k \in Nat, h[k] = g[k]
        PROVE  h[k + 1] = g[k + 1]
    <3>1. k + 1 \in Nat /\ k + 1 # 0 /\ (k + 1) - 1 = k
      OBVIOUS
    <3>2. h[k + 1] = Permute(h[k])
      BY <1>8, <3>1, Zenon
    <3> QED
      BY <1>5, <2>2, <3>2, Zenon
  <2> QED
    BY <2>1, <2>2, SameLoops
<1>10. ASSUME NEW n \in Nat
       PROVE  /\ Sponge!Permuted(s, n) \in S
              /\ Sponge!Permuted(s, n + 1) = Permute(Sponge!Permuted(s, n))
  <2>1. Sponge!Permuted(s, n) = g[n]
    BY <1>2, <1>9, Zenon
  <2>2. Sponge!Permuted(s, n + 1) = g[n + 1]
    BY <1>2, <1>5, <1>9, Zenon
  <2> QED
    BY <1>5, <2>1, <2>2, Zenon
<1>11. Sponge!Permuted(s, 0) = s
  <2>1. 0 \in Nat
    OBVIOUS
  <2> QED
    BY <1>2, <1>8, <2>1, Zenon
<1> QED
  BY <1>10, <1>11, Zenon DEF S

-----------------------------------------------------------------------------
(* keccak_squeeze and shake256.                                             *)

\* Byte i of what is squeezed from a final state f, and n of them behind the
\* first g; and the sponge that has given out j.
ByteOf(f, i) == Sponge!Permuted(f, (i - 1) \div Rate + 1)[(i - 1) % Rate]
BytesOf(f, g, n) == [i \in 1 .. n |-> ByteOf(f, g + i)]
SqueezedState(f, j) ==
  IF j = 0 THEN [s |-> f, pos |-> Rate]
  ELSE [s |-> Sponge!Permuted(f, (j - 1) \div Rate + 1), pos |-> ((j - 1) % Rate) + 1]

\* Byte q * Rate + r + 1 is byte r of the block that follows q permutations.
LEMMA ByteAt ==
  ASSUME NEW f, NEW q \in Nat, NEW r \in 0 .. Rate - 1, NEW i, i = (q * Rate + r) + 1
  PROVE  ByteOf(f, i) = Sponge!Permuted(f, q + 1)[r]
<1>1. Rate \in Nat \ {0} /\ r \in Nat /\ r < Rate /\ q * Rate \in Nat
  BY SpongeSizes
<1>2. (q * Rate + r) % Rate = r /\ (q * Rate + r) \div Rate = q
  BY <1>1, MultipleRemains
<1>3. i - 1 = q * Rate + r
  BY <1>1
<1> QED
  BY <1>2, <1>3, Zenon DEF ByteOf

LEMMA BytesType ==
  ASSUME NEW B, HasBytes(B), NEW f \in SpongeStates(B), NEW g \in Nat, NEW n \in Nat
  PROVE  /\ BytesOf(f, g, n) \in Seq(B) /\ Len(BytesOf(f, g, n)) = n
         /\ \A i \in 1 .. n : BytesOf(f, g, n)[i] = ByteOf(f, g + i)
<1>1. ASSUME NEW i \in 1 .. n
      PROVE  ByteOf(f, g + i) \in B
  <2> DEFINE v == (g + i) - 1
             q == v \div Rate
             r == v % Rate
  <2>1. v \in Nat
    OBVIOUS
  <2> HIDE DEF v
  <2>2. q \in Nat /\ r \in Nat /\ r < Rate
    BY <2>1, SpongeSizes, Remainders
  <2> HIDE DEF q, r
  <2>3. q + 1 \in Nat /\ r \in 0 .. Width - 1
    BY <2>2, SpongeSizes
  <2>4. Sponge!Permuted(f, q + 1) \in SpongeStates(B)
    BY <2>3, Permutations
  <2>5. Sponge!Permuted(f, q + 1)[r] \in B
    BY <2>3, <2>4 DEF SpongeStates
  <2> QED
    BY <2>5, Zenon DEF ByteOf, q, r, v
<1> DEFINE e == [i \in 1 .. n |-> ByteOf(f, g + i)]
<1>2. e = BytesOf(f, g, n)
  BY Zenon DEF BytesOf
<1>3. e \in [1 .. n -> B] /\ \A i \in 1 .. n : e[i] = ByteOf(f, g + i)
  BY <1>1
<1> HIDE DEF e
<1>4. e \in Seq(B) /\ Len(e) = n
  BY <1>3
<1> QED
  BY <1>2, <1>3, <1>4, Zenon

\* A string of those bytes goes on with the next ones.
LEMMA BytesJoin ==
  ASSUME NEW B, HasBytes(B), NEW f \in SpongeStates(B), NEW g \in Nat, NEW m \in Nat, NEW n \in Nat,
         NEW more, IsPart(more, B, BytesOf(f, g, m + n), m, n)
  PROVE  BytesOf(f, g, m) \o more = BytesOf(f, g, m + n)
<1> DEFINE front == BytesOf(f, g, m)
           total == m + n
           all == BytesOf(f, g, total)
<1>1. total \in Nat /\ 1 .. m \subseteq 1 .. total
  OBVIOUS
<1> HIDE DEF total
<1>2. front \in Seq(B) /\ Len(front) = m /\ \A i \in 1 .. m : front[i] = ByteOf(f, g + i)
  BY BytesType
<1>3. all \in Seq(B) /\ Len(all) = total /\ \A i \in 1 .. total : all[i] = ByteOf(f, g + i)
  BY <1>1, BytesType
<1> HIDE DEF front, all
<1>4. \A i \in 1 .. m : front[i] = all[i]
  BY <1>1, <1>2, <1>3, Zenon
<1>5. \A i \in 1 .. total : 0 + i = i
  BY <1>1
<1>6. \A i \in 1 .. m : 0 + i = i
  OBVIOUS
<1>7. IsPart(front, B, all, 0, m)
  BY <1>2, <1>4, <1>6, Zenon DEF IsPart
<1>8. IsPart(all, B, all, 0, total)
  BY <1>3, <1>5, Zenon DEF IsPart
<1>9. IsPart(more, B, all, m, n)
  BY Zenon DEF all, total
<1>10. front \o more = all
  <2>1. IsPart(all, B, all, 0, m + n)
    BY <1>8 DEF total
  <2> QED
    BY <1>7, <1>9, <2>1, PartsJoin
<1> QED
  BY <1>10, Zenon DEF front, all, total

\* Before bytes are copied, the sponge is at the next byte of its block.
LEMMA RefilledState ==
  ASSUME NEW B, HasBytes(B), NEW f \in SpongeStates(B), NEW j \in Nat
  PROVE  Sponge!Refilled(SqueezedState(f, j))
           = [s |-> Sponge!Permuted(f, j \div Rate + 1), pos |-> j % Rate]
<1>1. CASE j = 0
  <2>1. j \div Rate = 0 /\ j % Rate = 0
    <3>1. Rate \in Nat \ {0} /\ 0 < Rate /\ 0 \in Nat
      BY SpongeSizes
    <3>2. (0 * Rate + 0) % Rate = 0 /\ (0 * Rate + 0) \div Rate = 0
      BY <3>1, MultipleRemains
    <3>3. 0 * Rate + 0 = 0
      BY <3>1
    <3> QED
      BY <1>1, <3>2, <3>3
  <2>2. Sponge!Permuted(f, 0) = f /\ Sponge!Permuted(f, 0 + 1) = Permute(Sponge!Permuted(f, 0))
    BY Permutations
  <2> DEFINE t == [s |-> f, pos |-> Rate]
  <2>3. t.s = f /\ t.pos = Rate
    OBVIOUS
  <2> HIDE DEF t
  <2>4. SqueezedState(f, j) = t
    BY <1>1, Zenon DEF SqueezedState, t
  <2>5. Sponge!Refilled(t) = [s |-> Permute(f), pos |-> 0]
    BY <2>3, Zenon DEF Sponge!Refilled
  <2> QED
    BY <2>1, <2>2, <2>4, <2>5, Zenon
<1>2. CASE j # 0
  <2> DEFINE q == (j - 1) \div Rate
             r == (j - 1) % Rate
             s == Sponge!Permuted(f, q + 1)
             t == [s |-> s, pos |-> r + 1]
  <2>1. j - 1 \in Nat
    BY <1>2
  <2>2. q \in Nat /\ r \in Nat /\ r < Rate /\ q * Rate \in Nat /\ j - 1 = q * Rate + r
    BY <2>1, SpongeSizes, Remainders
  <2>3. t.s = s /\ t.pos = r + 1
    OBVIOUS
  <2> HIDE DEF t
  <2>4. SqueezedState(f, j) = t
    BY <1>2, Zenon DEF SqueezedState, t
  <2> HIDE DEF q, r
  <2>5. CASE r + 1 = Rate
    <3>1. (q + 1) * Rate + 0 = j
      <4>1. (q + 1) * Rate = q * Rate + Rate
        BY <2>2, SpongeSizes
      <4> QED
        BY <2>2, <2>5, <4>1, SpongeSizes
    <3>2. q + 1 \in Nat /\ 0 < Rate
      BY <2>2, SpongeSizes
    <3>3. j % Rate = 0 /\ j \div Rate = q + 1
      BY <3>1, <3>2, SpongeSizes, MultipleRemains
    <3>4. Sponge!Permuted(f, (q + 1) + 1) = Permute(s)
      BY <3>2, Permutations
    <3>5. Sponge!Refilled(t) = [s |-> Permute(s), pos |-> 0]
      BY <2>3, <2>5, Zenon DEF Sponge!Refilled
    <3> QED
      BY <2>4, <3>3, <3>4, <3>5, Zenon
  <2>6. CASE r + 1 # Rate
    <3>1. q * Rate + (r + 1) = j /\ r + 1 \in Nat /\ r + 1 < Rate
      BY <2>2, <2>6, SpongeSizes
    <3>2. (q * Rate + (r + 1)) % Rate = r + 1 /\ (q * Rate + (r + 1)) \div Rate = q
      <4> DEFINE low == r + 1
      <4>1. low \in Nat /\ low < Rate
        BY <3>1
      <4> HIDE DEF low
      <4>2. (q * Rate + low) % Rate = low /\ (q * Rate + low) \div Rate = q
        BY <2>2, <4>1, SpongeSizes, MultipleRemains
      <4> QED
        BY <4>2 DEF low
    <3>3. j % Rate = r + 1 /\ j \div Rate = q
      BY <3>1, <3>2
    <3>4. Sponge!Refilled(t) = t
      BY <2>3, <2>6, Zenon DEF Sponge!Refilled
    <3> QED
      BY <2>4, <3>3, <3>4, Zenon DEF t
  <2> QED
    BY <2>5, <2>6
<1> QED
  BY <1>1, <1>2

\* What a sponge that has given out g bytes has after m more.
SqueezedTo(f, g, m) == [st |-> SqueezedState(f, g + m), out |-> BytesOf(f, g, m)]
SqueezeBody(n, at) ==
  IF Len(at.out) = n THEN at ELSE Sponge!Copied(Sponge!Refilled(at.st), at.out, n)

\* Copying what is left of a block takes it further.
LEMMA CopyGoesOn ==
  ASSUME NEW B, HasBytes(B), NEW f \in SpongeStates(B), NEW g \in Nat, NEW n \in Nat,
         NEW m \in 0 .. n, m # n
  PROVE  \E l \in 0 .. n : m < l /\ SqueezeBody(n, SqueezedTo(f, g, m)) = SqueezedTo(f, g, l)
<1> DEFINE j == g + m
           q == j \div Rate
           r == j % Rate
           s == Sponge!Permuted(f, q + 1)
           t == [s |-> s, pos |-> r]
           out == BytesOf(f, g, m)
           left == n - m
           k == IF left < Rate - r THEN left ELSE Rate - r
           more == [i \in 1 .. k |-> s[r + i - 1]]
<1>1. j \in Nat /\ m \in Nat /\ m < n
  OBVIOUS
<1> HIDE DEF j
<1>2. q \in Nat /\ r \in Nat /\ r < Rate /\ q * Rate \in Nat /\ j = q * Rate + r
  BY <1>1, SpongeSizes, Remainders
<1>3. Sponge!Refilled(SqueezedState(f, j)) = t
  BY <1>1, RefilledState
<1> HIDE DEF q, r
<1>4. k \in Nat /\ k # 0 /\ r + k <= Rate /\ m + k <= n
  BY <1>1, <1>2, SpongeSizes
<1>5. out \in Seq(B) /\ Len(out) = m
  BY <1>1, BytesType
<1>6. q + 1 \in Nat
  BY <1>2
<1>7. s \in SpongeStates(B)
  BY <1>6, Permutations
<1>8. t.s = s /\ t.pos = r
  OBVIOUS
<1>9. Sponge!Copied(t, out, n) = [st |-> [t EXCEPT !.pos = t.pos + k], out |-> out \o more]
  <2> HIDE DEF t, s, out
  <2> QED
    BY <1>5, <1>8, Zenon DEF Sponge!Copied
<1> HIDE DEF k, s
<1>10. more \in Seq(B) /\ Len(more) = k /\ \A i \in 1 .. k : more[i] = ByteOf(f, j + i)
  <2>1. ASSUME NEW i \in 1 .. k
        PROVE  s[r + i - 1] \in B /\ s[r + i - 1] = ByteOf(f, j + i)
    <3> DEFINE p == r + i - 1
    <3>1. p \in 0 .. Rate - 1 /\ j + i = (q * Rate + p) + 1 /\ p \in 0 .. Width - 1
      BY <1>2, <1>4, SpongeSizes
    <3> HIDE DEF p
    <3>2. ByteOf(f, j + i) = Sponge!Permuted(f, q + 1)[p]
      BY <1>2, <3>1, ByteAt
    <3>3. s[p] \in B
      BY <1>7, <3>1 DEF SpongeStates
    <3> QED
      BY <3>2, <3>3, Zenon DEF p, s
  <2>2. more \in [1 .. k -> B] /\ \A i \in 1 .. k : more[i] = ByteOf(f, j + i)
    BY <2>1, Zenon
  <2> HIDE DEF more
  <2> QED
    BY <1>4, <2>2
<1> HIDE DEF more
<1>11. out \o more = BytesOf(f, g, m + k)
  <2> DEFINE total == m + k
             all == BytesOf(f, g, total)
  <2>1. total \in Nat /\ \A i \in 1 .. k : m + i \in 1 .. total /\ g + (m + i) = j + i
    BY <1>1, <1>4 DEF j
  <2> HIDE DEF total
  <2>2. \A i \in 1 .. total : all[i] = ByteOf(f, g + i)
    BY <2>1, BytesType
  <2> HIDE DEF all, out
  <2>3. \A i \in 1 .. k : more[i] = all[m + i]
    BY <1>10, <2>1, <2>2, Zenon
  <2>4. IsPart(more, B, all, m, k)
    BY <1>10, <2>3, Zenon DEF IsPart
  <2>5. m \in Nat /\ k \in Nat
    BY <1>1, <1>4
  <2>6. IsPart(more, B, BytesOf(f, g, m + k), m, k)
    BY <2>4, Zenon DEF all, total
  <2>7. BytesOf(f, g, m) \o more = BytesOf(f, g, m + k)
    BY <2>5, <2>6, BytesJoin
  <2> QED
    BY <2>7, Zenon DEF out
<1>12. [t EXCEPT !.pos = t.pos + k] = [s |-> s, pos |-> r + k]
  BY <1>8
<1>13. SqueezedState(f, g + (m + k)) = [s |-> s, pos |-> r + k]
  <2> DEFINE v == g + (m + k)
             low == (r + k) - 1
  <2>1. v # 0 /\ v - 1 = q * Rate + low /\ low \in Nat /\ low < Rate /\ low + 1 = r + k
    BY <1>1, <1>2, <1>4, SpongeSizes DEF j
  <2> HIDE DEF v, low
  <2>2. (q * Rate + low) % Rate = low /\ (q * Rate + low) \div Rate = q
    BY <1>2, <2>1, SpongeSizes, MultipleRemains
  <2>3. (v - 1) % Rate = low /\ (v - 1) \div Rate = q
    BY <2>1, <2>2, Zenon
  <2>4. SqueezedState(f, v) = [s |-> Sponge!Permuted(f, q + 1), pos |-> low + 1]
    BY <2>1, <2>3, Zenon DEF SqueezedState
  <2> QED
    BY <2>1, <2>4, Zenon DEF v, s
<1> DEFINE at == SqueezedTo(f, g, m)
<1>14. at.st = SqueezedState(f, j) /\ at.out = out
  BY DEF SqueezedTo, j
<1>15. SqueezeBody(n, at) = Sponge!Copied(t, out, n)
  <2>1. Len(at.out) # n
    BY <1>1, <1>5, <1>14
  <2> HIDE DEF at
  <2> QED
    BY <1>3, <1>14, <2>1, Zenon DEF SqueezeBody
<1>16. SqueezeBody(n, at) = SqueezedTo(f, g, m + k)
  <2> HIDE DEF t, out, at
  <2> QED
    BY <1>9, <1>11, <1>12, <1>13, <1>15, Zenon DEF SqueezedTo
<1>17. m + k \in 0 .. n /\ m < m + k
  BY <1>1, <1>4
<1> QED
  BY <1>16, <1>17, Zenon

\* Squeezing gives the next bytes, wherever the blocks end.
LEMMA Squeezes ==
  ASSUME NEW B, HasBytes(B), NEW f \in SpongeStates(B), NEW g \in Nat, NEW n \in Nat
  PROVE  Sponge!keccak_squeeze(SqueezedState(f, g), n)
           = [st |-> SqueezedState(f, g + n), out |-> BytesOf(f, g, n)]
<1> DEFINE S == {SqueezedTo(f, g, m) : m \in 0 .. n}
           body == [at \in S |-> SqueezeBody(n, at)]
           size == [at \in S |-> n - Len(at.out)]
           st == SqueezedState(f, g)
           x == [st |-> st, out |-> <<>>]
           Runs(e) == e = [k \in Nat |-> IF k = 0 THEN [st |-> st, out |-> <<>>]
                                         ELSE SqueezeBody(n, e[k - 1])]
           h == CHOOSE e : Runs(e)
<1>1. Sponge!keccak_squeeze(st, n) = h[n]
  BY Zenon DEF Sponge!keccak_squeeze, SqueezeBody
<1>2. ASSUME NEW m \in 0 .. n
      PROVE  SqueezedTo(f, g, m).out = BytesOf(f, g, m) /\ Len(SqueezedTo(f, g, m).out) = m
  <2>1. SqueezedTo(f, g, m).out = BytesOf(f, g, m)
    BY DEF SqueezedTo
  <2>2. m \in Nat
    OBVIOUS
  <2>3. Len(BytesOf(f, g, m)) = m
    BY <2>2, BytesType
  <2> QED
    BY <2>1, <2>3, Zenon
<1>3. SqueezeBody(n, SqueezedTo(f, g, n)) = SqueezedTo(f, g, n)
  <2>1. n \in 0 .. n
    OBVIOUS
  <2> QED
    BY <1>2, <2>1, Zenon DEF SqueezeBody
<1>4. ASSUME NEW m \in 0 .. n
      PROVE  \E l \in 0 .. n : /\ SqueezeBody(n, SqueezedTo(f, g, m)) = SqueezedTo(f, g, l)
                               /\ (m = n /\ l = n) \/ m < l
  <2>1. CASE m = n
    <3>1. n \in 0 .. n
      OBVIOUS
    <3> QED
      BY <1>3, <2>1, <3>1, Zenon
  <2>2. CASE m # n
    BY <2>2, CopyGoesOn
  <2> QED
    BY <2>1, <2>2
<1>5. body \in [S -> S] /\ \A at \in S : body[at] = SqueezeBody(n, at)
  BY <1>4, Zenon
<1>6. size \in [S -> Nat] /\ \A at \in S : size[at] = n - Len(at.out)
  <2>1. ASSUME NEW at \in S
        PROVE  n - Len(at.out) \in Nat
    <3>1. PICK m \in 0 .. n : at = SqueezedTo(f, g, m)
      BY <2>1
    <3>2. Len(at.out) = m
      BY <1>2, <3>1
    <3> QED
      BY <3>2
  <2> HIDE DEF S
  <2> QED
    BY <2>1
<1>7. x \in S /\ x = SqueezedTo(f, g, 0) /\ size[x] <= n
  <2>1. 0 \in 0 .. n /\ g + 0 = g
    OBVIOUS
  <2>2. BytesOf(f, g, 0) = <<>>
    <3>1. BytesOf(f, g, 0) \in Seq(B) /\ Len(BytesOf(f, g, 0)) = 0
      BY BytesType
    <3> QED
      BY <3>1
  <2>3. x = SqueezedTo(f, g, 0)
    BY <2>1, <2>2, Zenon DEF SqueezedTo
  <2>4. x \in S
    BY <2>1, <2>3, Zenon
  <2>5. x.out = <<>>
    OBVIOUS
  <2> HIDE DEF S, x, size
  <2>6. size[x] = n - Len(x.out)
    BY <1>6, <2>4, Zenon
  <2> QED
    BY <2>3, <2>4, <2>5, <2>6
<1>8. \A at \in S : body[at] = at \/ size[body[at]] < size[at]
  <2>1. ASSUME NEW at \in S
        PROVE  body[at] = at \/ size[body[at]] < size[at]
    <3>1. PICK m \in 0 .. n : at = SqueezedTo(f, g, m)
      BY <2>1
    <3>2. PICK l \in 0 .. n : /\ SqueezeBody(n, SqueezedTo(f, g, m)) = SqueezedTo(f, g, l)
                              /\ (m = n /\ l = n) \/ m < l
      BY <1>4
    <3>3. body[at] = SqueezedTo(f, g, l) /\ SqueezedTo(f, g, l) \in S
      BY <1>5, <2>1, <3>1, <3>2, Zenon
    <3>4. Len(at.out) = m /\ Len(SqueezedTo(f, g, l).out) = l
      BY <1>2, <3>1
    <3> HIDE DEF S, body, size
    <3>5. size[at] = n - m /\ size[body[at]] = n - l
      BY <1>6, <2>1, <3>3, <3>4, Zenon
    <3>6. m = l => body[at] = at
      BY <3>1, <3>3, Zenon
    <3> QED
      BY <3>2, <3>5, <3>6
  <2> QED
    BY <2>1, Zenon
<1>9. ASSUME NEW at \in S, body[at] = at
      PROVE  at = SqueezedTo(f, g, n)
  <2>1. PICK m \in 0 .. n : at = SqueezedTo(f, g, m)
    BY <1>9
  <2>2. PICK l \in 0 .. n : /\ SqueezeBody(n, SqueezedTo(f, g, m)) = SqueezedTo(f, g, l)
                            /\ (m = n /\ l = n) \/ m < l
    BY <1>4
  <2>3. SqueezedTo(f, g, m) = SqueezedTo(f, g, l)
    BY <1>5, <1>9, <2>1, <2>2, Zenon
  <2>4. m = l
    BY <1>2, <2>3, Zenon
  <2>5. m = n
    BY <2>2, <2>4
  <2> QED
    BY <2>1, <2>5, Zenon
<1> HIDE DEF S, body, size
<1>10. PICK e : Loops(e, S, body, x)
  <2> HIDE DEF x
  <2> QED
    BY <1>5, <1>7, LoopExists
<1>11. e[0] = x /\ \A k \in Nat : e[k] \in S /\ e[k + 1] = SqueezeBody(n, e[k]) /\ k + 1 \in Nat
  <2>1. e[0] = x /\ \A k \in Nat : e[k] \in S /\ e[k + 1] = body[e[k]] /\ k + 1 \in Nat
    BY <1>10 DEF Loops
  <2> QED
    BY <1>5, <2>1, Zenon
<1>12. Runs(e)
  <2>1. ASSUME NEW k \in Nat
        PROVE  e[k] = IF k = 0 THEN x ELSE SqueezeBody(n, e[k - 1])
    <3>1. k # 0 => k - 1 \in Nat /\ (k - 1) + 1 = k
      OBVIOUS
    <3> QED
      BY <1>11, <3>1, Zenon
  <2>2. e = [k \in Nat |-> e[k]]
    BY <1>10 DEF Loops
  <2>3. [k \in Nat |-> e[k]] = [k \in Nat |-> IF k = 0 THEN x ELSE SqueezeBody(n, e[k - 1])]
    BY <2>1, Zenon
  <2> QED
    BY <2>2, <2>3, Zenon
<1>13. Runs(h)
  <2> HIDE DEF Runs
  <2> QED
    BY <1>12
<1> HIDE DEF h
<1>14. \A k \in Nat : h[k] = IF k = 0 THEN x ELSE SqueezeBody(n, h[k - 1])
  <2> DEFINE d == [k \in Nat |-> IF k = 0 THEN x ELSE SqueezeBody(n, h[k - 1])]
  <2>1. \A k \in Nat : d[k] = IF k = 0 THEN x ELSE SqueezeBody(n, h[k - 1])
    BY Zenon
  <2>2. h = d
    BY <1>13, Zenon
  <2> QED
    BY <2>1, <2>2, Zenon
<1> HIDE DEF Runs, x
<1>15. \A k \in Nat : h[k] = e[k]
  <2>1. h[0] = e[0]
    BY <1>11, <1>14
  <2>2. ASSUME NEW k \in Nat, h[k] = e[k]
        PROVE  h[k + 1] = e[k + 1]
    <3>1. k + 1 \in Nat /\ k + 1 # 0 /\ (k + 1) - 1 = k
      OBVIOUS
    <3>2. h[k + 1] = SqueezeBody(n, h[k])
      BY <1>14, <3>1, Zenon
    <3> QED
      BY <1>11, <2>2, <3>2, Zenon
  <2> QED
    BY <2>1, <2>2, SameLoops
<1>16. body[e[n]] = e[n]
  <2>1. body \in [S -> S] /\ size \in [S -> Nat] /\ x \in S /\ size[x] <= n
    BY <1>5, <1>6, <1>7, Zenon
  <2> QED
    BY <1>8, <1>10, <2>1, LoopEnds
<1>17. e[n] = SqueezedTo(f, g, n)
  BY <1>9, <1>11, <1>16
<1>18. h[n] = SqueezedTo(f, g, n)
  BY <1>15, <1>17, Zenon
<1> QED
  BY <1>1, <1>18, Zenon DEF SqueezedTo, st

LEMMA PaddedType ==
  ASSUME NEW B, HasBytes(B), NEW s \in SpongeStates(B), NEW pos \in Nat
  PROVE  Sponge!Padded(s, pos) \in SpongeStates(B)
<1>1. <<Suffix>> \in Seq(B) /\ <<LastBit>> \in Seq(B)
  BY DEF HasBytes
<1>2. Rate - 1 \in Nat
  BY SpongeSizes
<1>3. Sponge!XorInto(s, pos, <<Suffix>>) \in SpongeStates(B)
  BY <1>1, XorType
<1> DEFINE t == Sponge!XorInto(s, pos, <<Suffix>>)
           last == Rate - 1
<1>4. t \in SpongeStates(B) /\ last \in Nat
  BY <1>2, <1>3
<1> HIDE DEF t, last
<1>5. Sponge!XorInto(t, last, <<LastBit>>) \in SpongeStates(B)
  BY <1>1, <1>4, XorType
<1> QED
  BY <1>5, Zenon DEF Sponge!Padded, t, last

LEMMA OnceType ==
  ASSUME NEW B, HasBytes(B), NEW in \in Seq(B)
  PROVE  Sponge!keccak_absorb_once(in) \in SpongeStates(B)
<1>1. PICK st : st = Sponge!keccak_absorb(Start, in)
  OBVIOUS
<1>2. st \in SpongeAt(B)
  BY <1>1, StartType, AbsorbType
<1>3. st.s \in SpongeStates(B) /\ st.pos \in Nat
  BY <1>2, SpongeSizes DEF SpongeAt
<1>4. Sponge!Padded(st.s, st.pos) \in SpongeStates(B)
  BY <1>3, PaddedType
<1> QED
  BY <1>1, <1>4, OnceAbsorbs, Zenon

LEMMA FirstBytes ==
  ASSUME NEW B, HasBytes(B), NEW f \in SpongeStates(B), NEW n \in Nat
  PROVE  /\ BytesOf(f, 0, n) \in Seq(B) /\ Len(BytesOf(f, 0, n)) = n
         /\ \A i \in 1 .. n : BytesOf(f, 0, n)[i] = ByteOf(f, i)
<1>1. PICK g \in Nat : g = 0
  OBVIOUS
<1>2. /\ BytesOf(f, g, n) \in Seq(B) /\ Len(BytesOf(f, g, n)) = n
      /\ \A i \in 1 .. n : BytesOf(f, g, n)[i] = ByteOf(f, g + i)
  BY BytesType
<1>3. \A i \in 1 .. n : g + i = i
  BY <1>1
<1> QED
  BY <1>1, <1>2, <1>3, Zenon

LEMMA FirstBytesJoin ==
  ASSUME NEW B, HasBytes(B), NEW f \in SpongeStates(B), NEW m \in Nat, NEW n \in Nat,
         NEW more, IsPart(more, B, BytesOf(f, 0, m + n), m, n)
  PROVE  BytesOf(f, 0, m) \o more = BytesOf(f, 0, m + n)
<1>1. PICK g \in Nat : g = 0
  OBVIOUS
<1>2. IsPart(more, B, BytesOf(f, g, m + n), m, n)
  BY <1>1, Zenon
<1>3. BytesOf(f, g, m) \o more = BytesOf(f, g, m + n)
  BY <1>2, BytesJoin
<1> QED
  BY <1>1, <1>3, Zenon

BlocksBody(at) ==
  [s |-> Permute(at.s), out |-> at.out \o [i \in 1 .. Rate |-> Permute(at.s)[i - 1]]]

\* Whole blocks are squeezed one permutation after the other.
LEMMA BlocksSqueezed ==
  ASSUME NEW B, HasBytes(B), NEW f \in SpongeStates(B), NEW n \in Nat
  PROVE  Sponge!keccak_squeezeblocks(f, n)
           = [s |-> Sponge!Permuted(f, n), out |-> BytesOf(f, 0, n * Rate)]
<1> DEFINE g == [k \in Nat |-> [s |-> Sponge!Permuted(f, k), out |-> BytesOf(f, 0, k * Rate)]]
           x == [s |-> f, out |-> <<>>]
           Runs(e) == e = [k \in Nat |-> IF k = 0 THEN [s |-> f, out |-> <<>>]
                                         ELSE BlocksBody(e[k - 1])]
           h == CHOOSE e : Runs(e)
<1>1. Sponge!keccak_squeezeblocks(f, n) = h[n]
  BY Zenon DEF Sponge!keccak_squeezeblocks, BlocksBody
<1>2. \A k \in Nat : k * Rate \in Nat /\ (k + 1) * Rate = k * Rate + Rate /\ k + 1 \in Nat
  <2>1. \A k \in Nat, d \in Nat : k * d \in Nat /\ (k + 1) * d = k * d + d /\ k + 1 \in Nat
    OBVIOUS
  <2> QED
    BY <2>1, SpongeSizes
<1>3. g[0] = x
  <2>1. 0 * Rate = 0
    BY SpongeSizes
  <2>2. BytesOf(f, 0, 0) = <<>>
    <3>1. BytesOf(f, 0, 0) \in Seq(B) /\ Len(BytesOf(f, 0, 0)) = 0
      BY BytesType
    <3> QED
      BY <3>1
  <2>3. Sponge!Permuted(f, 0) = f
    BY Permutations
  <2>4. g[0] = [s |-> Sponge!Permuted(f, 0), out |-> BytesOf(f, 0, 0 * Rate)]
    OBVIOUS
  <2> HIDE DEF g
  <2> QED
    BY <2>1, <2>2, <2>3, <2>4, Zenon
<1>4. ASSUME NEW k \in Nat
      PROVE  g[k + 1] = BlocksBody(g[k])
  <2> DEFINE t == Sponge!Permuted(f, k + 1)
             more == [i \in 1 .. Rate |-> t[i - 1]]
             m == k * Rate
             total == m + Rate
             all == BytesOf(f, 0, total)
             out == BytesOf(f, 0, m)
  <2>1. t \in SpongeStates(B) /\ t = Permute(Sponge!Permuted(f, k))
    BY <1>2, Permutations
  <2>2. m \in Nat /\ total \in Nat /\ Rate \in Nat /\ (k + 1) * Rate = total
    BY <1>2, SpongeSizes
  <2> HIDE DEF m
  <2>3. \A i \in 1 .. Rate : m + i \in 1 .. total /\ i - 1 \in 0 .. Rate - 1
                             /\ m + i = (m + (i - 1)) + 1 /\ i - 1 \in 0 .. Width - 1
    BY <2>2, SpongeSizes
  <2>4. ASSUME NEW i \in 1 .. Rate
        PROVE  t[i - 1] \in B /\ t[i - 1] = all[m + i]
    <3>1. \A j \in 1 .. total : all[j] = ByteOf(f, j)
      BY <2>2, FirstBytes
    <3>2. PICK r \in 0 .. Rate - 1 : r = i - 1
      BY <2>3
    <3>3. m + i = (k * Rate + r) + 1
      BY <2>3, <3>2 DEF m
    <3>4. ByteOf(f, m + i) = t[r]
      BY <3>3, ByteAt
    <3>5. t[i - 1] \in B
      <4> HIDE DEF t
      <4> QED
        BY <2>1, <2>3 DEF SpongeStates
    <3> HIDE DEF all, total, t
    <3> QED
      BY <2>3, <3>1, <3>2, <3>4, <3>5, Zenon
  <2> HIDE DEF t
  <2>5. more \in [1 .. Rate -> B] /\ \A i \in 1 .. Rate : more[i] = all[m + i]
    BY <2>4
  <2>6. more \in Seq(B) /\ Len(more) = Rate
    <3> HIDE DEF more
    <3> QED
      BY <2>2, <2>5
  <2> HIDE DEF more
  <2>7. IsPart(more, B, all, m, Rate)
    BY <2>5, <2>6, Zenon DEF IsPart
  <2>8. out \o more = all
    <3>1. IsPart(more, B, BytesOf(f, 0, m + Rate), m, Rate)
      BY <2>7
    <3>2. 0 \in Nat /\ m \in Nat /\ Rate \in Nat
      BY <2>2
    <3>3. BytesOf(f, 0, m) \o more = BytesOf(f, 0, m + Rate)
      BY <3>1, <3>2, FirstBytesJoin
    <3> QED
      BY <3>3
  <2>9. g[k].s = Sponge!Permuted(f, k) /\ g[k].out = out /\ g[k + 1] = [s |-> t, out |-> BytesOf(f, 0, (k + 1) * Rate)]
    BY <1>2 DEF m, t
  <2> HIDE DEF g, out, all
  <2>10. more = [i \in 1 .. Rate |-> t[i - 1]]
    BY DEF more
  <2>11. BlocksBody(g[k]) = [s |-> t, out |-> out \o more]
    BY <2>1, <2>9, <2>10, Zenon DEF BlocksBody
  <2>12. BytesOf(f, 0, (k + 1) * Rate) = all
    BY <2>2, Zenon DEF all
  <2> QED
    BY <2>8, <2>9, <2>11, <2>12, Zenon
<1>5. g[n] = [s |-> Sponge!Permuted(f, n), out |-> BytesOf(f, 0, n * Rate)] /\ g = [k \in Nat |-> g[k]]
  OBVIOUS
<1> HIDE DEF g
<1>6. Runs(g)
  <2>1. ASSUME NEW k \in Nat
        PROVE  g[k] = IF k = 0 THEN x ELSE BlocksBody(g[k - 1])
    <3>1. k # 0 => k - 1 \in Nat /\ (k - 1) + 1 = k
      OBVIOUS
    <3> QED
      BY <1>3, <1>4, <3>1, Zenon
  <2>2. [k \in Nat |-> g[k]] = [k \in Nat |-> IF k = 0 THEN x ELSE BlocksBody(g[k - 1])]
    BY <2>1, Zenon
  <2> QED
    BY <1>5, <2>2, Zenon
<1>7. Runs(h)
  <2> HIDE DEF Runs
  <2> QED
    BY <1>6
<1> HIDE DEF h
<1>8. \A k \in Nat : h[k] = IF k = 0 THEN x ELSE BlocksBody(h[k - 1])
  <2> DEFINE d == [k \in Nat |-> IF k = 0 THEN x ELSE BlocksBody(h[k - 1])]
  <2>1. \A k \in Nat : d[k] = IF k = 0 THEN x ELSE BlocksBody(h[k - 1])
    BY Zenon
  <2>2. h = d
    BY <1>7, Zenon
  <2> QED
    BY <2>1, <2>2, Zenon
<1> HIDE DEF Runs, x
<1>9. \A k \in Nat : h[k] = g[k]
  <2>1. h[0] = g[0]
    BY <1>3, <1>8
  <2>2. ASSUME NEW k \in Nat, h[k] = g[k]
        PROVE  h[k + 1] = g[k + 1]
    <3>1. k + 1 \in Nat /\ k + 1 # 0 /\ (k + 1) - 1 = k
      OBVIOUS
    <3>2. h[k + 1] = BlocksBody(h[k])
      BY <1>8, <3>1, Zenon
    <3> QED
      BY <1>4, <2>2, <3>2, Zenon
  <2> QED
    BY <2>1, <2>2, SameLoops
<1> QED
  BY <1>1, <1>5, <1>9, Zenon

\* shake256 gives the first bytes, whatever is left of them behind whole blocks.
LEMMA OnceSqueezes ==
  ASSUME NEW B, HasBytes(B), NEW in \in Seq(B), NEW n \in Nat
  PROVE  Sponge!shake256(in, n) = BytesOf(Sponge!keccak_absorb_once(in), 0, n)
<1> DEFINE q == n \div Rate
           r == n % Rate
           m == q * Rate
           f == Sponge!keccak_absorb_once(in)
           t == Sponge!Permuted(f, q)
           rest == Sponge!keccak_squeeze([s |-> t, pos |-> Rate], r).out
           out == BytesOf(f, 0, m)
<1>1. q \in Nat /\ r \in Nat /\ r < Rate /\ m \in Nat /\ n = m + r
  BY SpongeSizes, Remainders
<1>2. f \in SpongeStates(B)
  BY OnceType
<1>3. Sponge!keccak_squeezeblocks(f, q) = [s |-> t, out |-> out]
  <2> HIDE DEF q, f
  <2> QED
    BY <1>1, <1>2, BlocksSqueezed
<1>4. Sponge!shake256(in, n) = out \o rest
  <2> DEFINE blocks == Sponge!keccak_squeezeblocks(f, q)
  <2>1. blocks.s = t /\ blocks.out = out
    <3> HIDE DEF t, out, blocks
    <3>1. blocks = [s |-> t, out |-> out]
      BY <1>3, Zenon DEF blocks
    <3> QED
      BY <3>1
  <2>2. Sponge!shake256(in, n)
          = blocks.out \o Sponge!keccak_squeeze([s |-> blocks.s, pos |-> Rate], r).out
    BY Zenon DEF Sponge!shake256
  <2> HIDE DEF blocks, t, out, r
  <2> QED
    BY <2>1, <2>2, Zenon
<1> HIDE DEF f
<1>5. t \in SpongeStates(B)
  BY <1>1, <1>2, Permutations
<1>6. rest = BytesOf(t, 0, r)
  <2> HIDE DEF t, r
  <2>1. [s |-> t, pos |-> Rate] = SqueezedState(t, 0)
    BY DEF SqueezedState
  <2>2. Sponge!keccak_squeeze(SqueezedState(t, 0), r) = [st |-> SqueezedState(t, 0 + r), out |-> BytesOf(t, 0, r)]
    BY <1>1, <1>5, Squeezes
  <2> DEFINE both == [st |-> SqueezedState(t, 0 + r), out |-> BytesOf(t, 0, r)]
  <2>3. both.out = BytesOf(t, 0, r)
    OBVIOUS
  <2>4. Sponge!keccak_squeeze([s |-> t, pos |-> Rate], r) = both
    BY <2>1, <2>2, Zenon
  <2> HIDE DEF both
  <2> QED
    BY <2>3, <2>4, Zenon
<1> HIDE DEF rest
<1> DEFINE total == m + r
           all == BytesOf(f, 0, total)
<1>7. rest \in Seq(B) /\ Len(rest) = r /\ \A i \in 1 .. r : rest[i] = ByteOf(t, i)
  <2> HIDE DEF t, r
  <2>1. /\ BytesOf(t, 0, r) \in Seq(B) /\ Len(BytesOf(t, 0, r)) = r
        /\ \A i \in 1 .. r : BytesOf(t, 0, r)[i] = ByteOf(t, i)
    BY <1>1, <1>5, FirstBytes
  <2> QED
    BY <1>6, <2>1, Zenon
<1>8. ASSUME NEW i \in 1 .. r
      PROVE  rest[i] = all[m + i]
  <2>1. total \in Nat /\ m + i \in 1 .. total
    BY <1>1
  <2>2. all[m + i] = ByteOf(f, m + i)
    <3> HIDE DEF total
    <3>1. \A j \in 1 .. total : all[j] = ByteOf(f, j)
      BY <1>2, <2>1, FirstBytes
    <3> HIDE DEF all, total
    <3> QED
      BY <2>1, <3>1, Zenon
  <2> HIDE DEF q, r
  <2>3. PICK p \in 0 .. Rate - 1 : p = i - 1
    BY <1>1, SpongeSizes
  <2>4. m + i = (q * Rate + p) + 1 /\ i = (0 * Rate + p) + 1
    <3>1. 0 * Rate = 0
      BY SpongeSizes
    <3> QED
      BY <1>1, <2>3, <3>1
  <2>5. ByteOf(f, m + i) = Sponge!Permuted(f, q + 1)[p]
    BY <1>1, <2>4, ByteAt
  <2>6. ByteOf(t, i) = Sponge!Permuted(t, 0 + 1)[p]
    <3>1. PICK z \in Nat : z = 0
      OBVIOUS
    <3>2. i = (z * Rate + p) + 1
      BY <2>4, <3>1
    <3>3. ByteOf(t, i) = Sponge!Permuted(t, z + 1)[p]
      BY <3>2, ByteAt
    <3> QED
      BY <3>1, <3>3, Zenon
  <2>7. Sponge!Permuted(t, 0 + 1) = Permute(t)
    <3> HIDE DEF t
    <3>1. Sponge!Permuted(t, 0) = t /\ Sponge!Permuted(t, 0 + 1) = Permute(Sponge!Permuted(t, 0))
      BY <1>5, Permutations
    <3> QED
      BY <3>1, Zenon
  <2>8. Sponge!Permuted(f, q + 1) = Permute(t)
    BY <1>1, <1>2, Permutations
  <2> HIDE DEF t, all
  <2> QED
    BY <1>7, <2>2, <2>5, <2>6, <2>7, <2>8, Zenon
<1> HIDE DEF all
<1>9. IsPart(rest, B, all, m, r)
  BY <1>7, <1>8, Zenon DEF IsPart
<1>10. out \o rest = all
  <2> HIDE DEF m, r, q
  <2>1. IsPart(rest, B, BytesOf(f, 0, m + r), m, r)
    BY <1>9 DEF all
  <2>2. 0 \in Nat /\ m \in Nat /\ r \in Nat
    BY <1>1
  <2>3. BytesOf(f, 0, m) \o rest = BytesOf(f, 0, m + r)
    <3> HIDE DEF total
    <3> QED
      BY <1>2, <2>1, <2>2, FirstBytesJoin
  <2> QED
    BY <2>3 DEF all
<1> HIDE DEF out, m, r
<1>11. all = BytesOf(f, 0, n)
  BY <1>1, Zenon DEF all
<1> QED
  BY <1>4, <1>10, <1>11, Zenon DEF f

-----------------------------------------------------------------------------
(* The calls.                                                               *)

\* What has been given out is the beginning of the bytes of what was absorbed,
\* and the sponge is where absorbing, or squeezing, has taken it.
FinalState == Sponge!keccak_absorb_once(spongeAbsorbed)
SpongeInv(B) ==
  /\ spongeAbsorbed \in Seq(B) /\ Len(spongeGiven) \in Nat
  /\ spongeGiven = BytesOf(FinalState, 0, Len(spongeGiven))
  /\ ~spongeFinalized => /\ spongeState = Sponge!keccak_absorb(Start, spongeAbsorbed)
                         /\ spongeGiven = <<>>
  /\ spongeFinalized /\ spongeKind = "xof" =>
       spongeState = SqueezedState(FinalState, Len(spongeGiven))

LEMMA XorNothing ==
  ASSUME NEW B, HasBytes(B), NEW s \in SpongeStates(B), NEW pos \in Nat
  PROVE  Sponge!XorInto(s, pos, <<>>) = s
<1>0. <<>> \in Seq(B)
  OBVIOUS
<1>1. PICK e \in Seq(B) : e = <<>>
  BY <1>0, Zenon
<1> DEFINE t == Sponge!XorInto(s, pos, e)
<1>2. /\ t \in SpongeStates(B)
      /\ \A i \in 0 .. Width - 1 :
           t[i] = IF i \in pos .. pos + Len(e) - 1 THEN Xor(s[i], e[i - pos + 1]) ELSE s[i]
  BY XorType
<1> HIDE DEF t
<1>3. \A i \in 0 .. Width - 1 : i \notin pos .. pos + Len(e) - 1
  BY <1>1
<1>4. \A i \in 0 .. Width - 1 : t[i] = s[i]
  BY <1>2, <1>3, Zenon
<1>5. t = s
  BY <1>2, <1>4, SameStates
<1> QED
  BY <1>1, <1>5, Zenon DEF t

LEMMA NothingAbsorbed ==
  ASSUME NEW B, HasBytes(B) PROVE Sponge!keccak_absorb(Start, <<>>) = Start
<1>1. <<>> \in Seq(B) /\ Len(<<>>) = 0
  OBVIOUS
<1>2. Start \in SpongeAt(B) /\ Start.pos = 0 /\ Start.s = Sponge!Blank /\ 0 + 0 = 0
  BY StartType DEF Start
<1>3. Start.pos + Len(<<>>) < Rate
  BY <1>1, <1>2, SpongeSizes
<1>4. Sponge!keccak_absorb(Start, <<>>)
        = [s |-> Sponge!XorInto(Start.s, Start.pos, <<>>), pos |-> Start.pos + Len(<<>>)]
  BY <1>1, <1>2, <1>3, AbsorbPart
<1>5. Sponge!XorInto(Sponge!Blank, 0, <<>>) = Sponge!Blank
  BY BlankType, XorNothing
<1> QED
  BY <1>1, <1>2, <1>4, <1>5, Zenon DEF Start

LEMMA NothingGiven ==
  ASSUME NEW B, HasBytes(B), NEW in \in Seq(B)
  PROVE  BytesOf(Sponge!keccak_absorb_once(in), 0, 0) = <<>> /\ Len(<<>>) = 0
<1> DEFINE f == Sponge!keccak_absorb_once(in)
<1>1. f \in SpongeStates(B)
  BY OnceType
<1> HIDE DEF f
<1>2. BytesOf(f, 0, 0) \in Seq(B) /\ Len(BytesOf(f, 0, 0)) = 0
  BY <1>1, BytesType
<1>3. BytesOf(f, 0, 0) = <<>>
  BY <1>2
<1> QED
  BY <1>3 DEF f

\* A state that has absorbed and given nothing.
LEMMA FreshPreserves ==
  ASSUME NEW B, HasBytes(B), spongeState = Start, ~spongeFinalized,
         spongeAbsorbed = <<>>, spongeGiven = <<>>
  PROVE  SpongeInv(B)
<1>1. <<>> \in Seq(B)
  OBVIOUS
<1>2. BytesOf(Sponge!keccak_absorb_once(<<>>), 0, 0) = <<>> /\ Len(<<>>) = 0
  BY <1>1, NothingGiven
<1>3. Sponge!keccak_absorb(Start, <<>>) = Start
  BY NothingAbsorbed
<1>4. Len(spongeGiven) = 0
  BY <1>2
<1> QED
  BY <1>1, <1>2, <1>3, <1>4 DEF SpongeInv, FinalState

LEMMA AbsorbPreserves ==
  ASSUME NEW B, HasBytes(B), SpongeInv(B), NEW chunk \in SpongeInputs, Sponge!Absorb(chunk),
         ~spongeFinalized
  PROVE  SpongeInv(B)'
<1>1. chunk \in Seq(B) /\ spongeAbsorbed \in Seq(B)
  BY DEF HasBytes, SpongeInv
<1>2. /\ spongeState' = Sponge!keccak_absorb(spongeState, chunk)
      /\ spongeAbsorbed' = spongeAbsorbed \o chunk
      /\ UNCHANGED <<spongeKind, spongeFinalized, spongeGiven>>
  BY DEF Sponge!Absorb
<1>3. spongeState = Sponge!keccak_absorb(Start, spongeAbsorbed) /\ spongeGiven = <<>>
  BY DEF SpongeInv
<1>4. Sponge!keccak_absorb(Start, spongeAbsorbed \o chunk)
        = Sponge!keccak_absorb(Sponge!keccak_absorb(Start, spongeAbsorbed), chunk)
  BY <1>1, StartType, AbsorbJoins
<1>5. spongeState' = Sponge!keccak_absorb(Start, spongeAbsorbed')
  BY <1>2, <1>3, <1>4, Zenon
<1>6. spongeAbsorbed' \in Seq(B)
  BY <1>1, <1>2
<1>7. BytesOf(Sponge!keccak_absorb_once(spongeAbsorbed'), 0, 0) = <<>> /\ Len(<<>>) = 0
  BY <1>6, NothingGiven
<1>8. spongeGiven' = <<>> /\ ~spongeFinalized' /\ Len(spongeGiven') = 0 /\ 0 \in Nat
  BY <1>2, <1>3, <1>7
<1> QED
  BY <1>5, <1>6, <1>7, <1>8, Zenon DEF SpongeInv, FinalState

\* The final state, and what is at hand when a sponge is finalized.
LEMMA FinalizedState ==
  ASSUME NEW B, HasBytes(B), SpongeInv(B), ~spongeFinalized
  PROVE  /\ FinalState \in SpongeStates(B)
         /\ Sponge!keccak_finalize(spongeState) = SqueezedState(FinalState, 0)
<1>1. spongeAbsorbed \in Seq(B) /\ spongeState = Sponge!keccak_absorb(Start, spongeAbsorbed)
  BY DEF SpongeInv
<1>2. FinalState \in SpongeStates(B)
  BY <1>1, OnceType DEF FinalState
<1>3. FinalState = Sponge!Padded(spongeState.s, spongeState.pos)
  BY <1>1, OnceAbsorbs, Zenon DEF FinalState
<1>4. SqueezedState(FinalState, 0) = [s |-> FinalState, pos |-> Rate]
  BY Zenon DEF SqueezedState
<1>5. Sponge!keccak_finalize(spongeState)
        = [s |-> Sponge!Padded(spongeState.s, spongeState.pos), pos |-> Rate]
  BY Zenon DEF Sponge!keccak_finalize
<1> QED
  BY <1>2, <1>3, <1>4, <1>5, Zenon

LEMMA FinalizePreserves ==
  ASSUME NEW B, HasBytes(B), SpongeInv(B), Sponge!Finalize, ~spongeFinalized
  PROVE  SpongeInv(B)'
<1>1. /\ spongeState' = Sponge!keccak_finalize(spongeState)
      /\ spongeFinalized' = TRUE
      /\ UNCHANGED <<spongeKind, spongeAbsorbed, spongeGiven>>
  BY DEF Sponge!Finalize
<1>2. /\ spongeAbsorbed \in Seq(B) /\ Len(spongeGiven) \in Nat
      /\ spongeGiven = BytesOf(FinalState, 0, Len(spongeGiven)) /\ Len(spongeGiven) = 0
  BY NoBytes DEF SpongeInv
<1>3. spongeState' = SqueezedState(FinalState, 0)
  BY <1>1, FinalizedState
<1>4. FinalState' = FinalState
  BY <1>1 DEF FinalState
<1> QED
  BY <1>1, <1>2, <1>3, <1>4 DEF SpongeInv

LEMMA SqueezePreserves ==
  ASSUME NEW B, HasBytes(B), SpongeInv(B), NEW n \in SpongeLengths, Sponge!Squeeze(n),
         spongeFinalized
  PROVE  /\ SpongeInv(B)'
         /\ spongeGiven' = spongeGiven \o BytesOf(FinalState, Len(spongeGiven), n)
<1> DEFINE g == Len(spongeGiven)
           squeezed == Sponge!keccak_squeeze(spongeState, n)
           more == BytesOf(FinalState, g, n)
           total == g + n
           all == BytesOf(FinalState, 0, total)
<1>1. /\ spongeState' = squeezed.st /\ spongeGiven' = spongeGiven \o squeezed.out
      /\ spongeKind = "xof" /\ UNCHANGED <<spongeKind, spongeFinalized, spongeAbsorbed>>
  BY Zenon DEF Sponge!Squeeze
<1>2. /\ spongeAbsorbed \in Seq(B) /\ g \in Nat /\ n \in Nat
      /\ spongeGiven = BytesOf(FinalState, 0, g)
  BY SpongeSizes DEF SpongeInv
<1>3. FinalState \in SpongeStates(B)
  BY <1>2, OnceType DEF FinalState
<1>4. spongeState = SqueezedState(FinalState, g)
  BY <1>1 DEF SpongeInv
<1> HIDE DEF g
<1>5. squeezed = [st |-> SqueezedState(FinalState, g + n), out |-> more]
  <2>1. Sponge!keccak_squeeze(SqueezedState(FinalState, g), n)
          = [st |-> SqueezedState(FinalState, g + n), out |-> BytesOf(FinalState, g, n)]
    BY <1>2, <1>3, Squeezes
  <2> QED
    BY <1>4, <2>1, Zenon
<1>6. squeezed.st = SqueezedState(FinalState, total) /\ squeezed.out = more
  <2> HIDE DEF squeezed, more
  <2> QED
    BY <1>5
<1>7. total \in Nat /\ \A i \in 1 .. n : g + i \in 1 .. total
  BY <1>2
<1>8. more \in Seq(B) /\ Len(more) = n /\ \A i \in 1 .. n : more[i] = ByteOf(FinalState, g + i)
  BY <1>2, <1>3, BytesType
<1> HIDE DEF total
<1>9. all \in Seq(B) /\ Len(all) = total /\ \A i \in 1 .. total : all[i] = ByteOf(FinalState, i)
  BY <1>3, <1>7, FirstBytes
<1> HIDE DEF more, all, squeezed
<1>10. IsPart(more, B, all, g, n)
  <2>1. \A i \in 1 .. n : more[i] = all[g + i]
    BY <1>7, <1>8, <1>9, Zenon
  <2> QED
    BY <1>8, <2>1, Zenon DEF IsPart
<1>11. spongeGiven \o more = all
  <2>1. PICK f \in SpongeStates(B) : f = FinalState
    BY <1>3
  <2>2. IsPart(more, B, BytesOf(f, 0, g + n), g, n)
    BY <1>10, <2>1, Zenon DEF all, total
  <2>3. g \in Nat /\ n \in Nat
    BY <1>2
  <2>4. BytesOf(f, 0, g) \o more = BytesOf(f, 0, g + n)
    BY <2>2, <2>3, FirstBytesJoin
  <2> QED
    BY <1>2, <2>1, <2>4, Zenon DEF all, total
<1>12. spongeGiven' = all /\ Len(spongeGiven') = total
  BY <1>1, <1>6, <1>9, <1>11, Zenon
<1>13. FinalState' = FinalState
  BY <1>1 DEF FinalState
<1>14. SpongeInv(B)'
  <2>1. spongeGiven' = BytesOf(FinalState', 0, Len(spongeGiven'))
    BY <1>12, <1>13, Zenon DEF all
  <2>2. spongeState' = SqueezedState(FinalState', Len(spongeGiven'))
    BY <1>1, <1>6, <1>12, <1>13, Zenon
  <2>3. spongeAbsorbed' \in Seq(B) /\ Len(spongeGiven') \in Nat /\ spongeFinalized'
    BY <1>1, <1>2, <1>7, <1>12
  <2> QED
    BY <2>1, <2>2, <2>3, Zenon DEF SpongeInv
<1> QED
  BY <1>1, <1>6, <1>14, Zenon DEF more, g

LEMMA HashPreserves ==
  ASSUME NEW B, HasBytes(B), SpongeInv(B), NEW n \in SpongeLengths, Sponge!HashFinalize(n),
         ~spongeFinalized
  PROVE  SpongeInv(B)' /\ spongeGiven' = BytesOf(FinalState, 0, n)
<1> DEFINE squeezed == Sponge!keccak_squeeze(Sponge!keccak_finalize(spongeState), n)
<1>1. /\ spongeGiven' = squeezed.out /\ spongeFinalized' = TRUE
      /\ spongeKind = "hash" /\ UNCHANGED <<spongeKind, spongeAbsorbed>>
  BY Zenon DEF Sponge!HashFinalize
<1>2. spongeAbsorbed \in Seq(B) /\ n \in Nat
  BY SpongeSizes DEF SpongeInv
<1>3. /\ FinalState \in SpongeStates(B)
      /\ Sponge!keccak_finalize(spongeState) = SqueezedState(FinalState, 0)
  BY FinalizedState
<1>4. squeezed = [st |-> SqueezedState(FinalState, n), out |-> BytesOf(FinalState, 0, n)]
  <2>1. PICK g \in Nat : g = 0
    OBVIOUS
  <2>2. Sponge!keccak_squeeze(SqueezedState(FinalState, g), n)
          = [st |-> SqueezedState(FinalState, g + n), out |-> BytesOf(FinalState, g, n)]
    BY <1>2, <1>3, Squeezes
  <2>3. g + n = n
    BY <1>2, <2>1
  <2> QED
    BY <1>3, <2>1, <2>2, <2>3, Zenon
<1>5. squeezed.out = BytesOf(FinalState, 0, n)
  <2> HIDE DEF squeezed
  <2> QED
    BY <1>4
<1> HIDE DEF squeezed
<1>6. spongeGiven' = BytesOf(FinalState, 0, n)
  BY <1>1, <1>5
<1>7. Len(BytesOf(FinalState, 0, n)) = n
  BY <1>2, <1>3, FirstBytes
<1>8. FinalState' = FinalState
  BY <1>1 DEF FinalState
<1>9. Len(spongeGiven') = n
  BY <1>6, <1>7, Zenon
<1>10. spongeGiven' = BytesOf(FinalState', 0, Len(spongeGiven'))
  BY <1>6, <1>8, <1>9, Zenon
<1>11. spongeAbsorbed' \in Seq(B) /\ Len(spongeGiven') \in Nat /\ spongeFinalized' /\ spongeKind' # "xof"
  BY <1>1, <1>2, <1>9
<1> QED
  BY <1>6, <1>10, <1>11, Zenon DEF SpongeInv

\* One step of the sponge: of the calls, the ones that are not refused are
\* those of the lemmas above.
LEMMA SpongeCases ==
  ASSUME NEW B, HasBytes(B), Sponge!Next
  PROVE  \/ Sponge!Refused
         \/ ~spongeFinalized /\ \E chunk \in SpongeInputs : Sponge!Absorb(chunk)
         \/ ~spongeFinalized /\ Sponge!Finalize
         \/ spongeFinalized /\ \E n \in SpongeLengths : Sponge!Squeeze(n)
         \/ ~spongeFinalized /\ \E n \in SpongeLengths : Sponge!HashFinalize(n)
         \/ Sponge!Release
<1>1. ASSUME NEW chunk \in SpongeInputs, Sponge!Absorb(chunk)
      PROVE  Sponge!Refused \/ ~spongeFinalized
  BY <1>1, Zenon DEF Sponge!Absorb
<1>2. ASSUME Sponge!Finalize
      PROVE  Sponge!Refused \/ ~spongeFinalized
  BY <1>2, Zenon DEF Sponge!Finalize
<1>3. ASSUME NEW n \in SpongeLengths, Sponge!Squeeze(n)
      PROVE  Sponge!Refused \/ spongeFinalized
  BY <1>3, Zenon DEF Sponge!Squeeze
<1>4. ASSUME NEW n \in SpongeLengths, Sponge!HashFinalize(n)
      PROVE  Sponge!Refused \/ ~spongeFinalized
  BY <1>4, Zenon DEF Sponge!HashFinalize
<1> QED
  BY <1>1, <1>2, <1>3, <1>4, Zenon DEF Sponge!Next

LEMMA SpongeStep ==
  ASSUME NEW B, HasBytes(B), SpongeInv(B), [Sponge!Next]_(Sponge!vars)
  PROVE  SpongeInv(B)'
<1>1. CASE Sponge!Refused \/ UNCHANGED Sponge!vars
  <2>1. UNCHANGED <<spongeKind, spongeState, spongeFinalized, spongeAbsorbed, spongeGiven>>
    BY <1>1 DEF Sponge!Refused, Sponge!vars
  <2> QED
    BY <2>1 DEF SpongeInv, FinalState
<1>2. CASE Sponge!Release
  <2>1. spongeState' = Start /\ ~spongeFinalized' /\ spongeAbsorbed' = <<>> /\ spongeGiven' = <<>>
    BY <1>2 DEF Sponge!Release, Start
  <2>2. <<>> \in Seq(B)
    OBVIOUS
  <2>3. BytesOf(Sponge!keccak_absorb_once(<<>>), 0, 0) = <<>> /\ Len(<<>>) = 0
    BY <2>2, NothingGiven
  <2>4. Sponge!keccak_absorb(Start, <<>>) = Start /\ 0 \in Nat
    BY NothingAbsorbed
  <2> QED
    BY <2>1, <2>2, <2>3, <2>4, Zenon DEF SpongeInv, FinalState
<1>3. CASE ~spongeFinalized /\ \E chunk \in SpongeInputs : Sponge!Absorb(chunk)
  BY <1>3, AbsorbPreserves
<1>4. CASE ~spongeFinalized /\ Sponge!Finalize
  BY <1>4, FinalizePreserves
<1>5. CASE spongeFinalized /\ \E n \in SpongeLengths : Sponge!Squeeze(n)
  BY <1>5, SqueezePreserves
<1>6. CASE ~spongeFinalized /\ \E n \in SpongeLengths : Sponge!HashFinalize(n)
  BY <1>6, HashPreserves
<1> QED
  BY <1>1, <1>2, <1>3, <1>4, <1>5, <1>6, SpongeCases

LEMMA SpongeInvariant ==
  ASSUME NEW B, HasBytes(B)
  PROVE  Sponge!Spec => []SpongeInv(B)
<1>1. Sponge!Init => SpongeInv(B)
  <2> SUFFICES ASSUME Sponge!Init
               PROVE  SpongeInv(B)
    OBVIOUS
  <2>1. spongeState = Start /\ ~spongeFinalized /\ spongeAbsorbed = <<>> /\ spongeGiven = <<>>
    BY DEF Sponge!Init, Start
  <2> QED
    BY <2>1, FreshPreserves
<1>2. SpongeInv(B) /\ [Sponge!Next]_(Sponge!vars) => SpongeInv(B)'
  BY SpongeStep
<1> QED
  BY <1>1, <1>2, PTL DEF Sponge!Spec

\* Whatever a byte is and however the calls cut the input and the output, what
\* the incremental sponge has given out is what shake256 gives at once.
THEOREM SpongeGivesOnce ==
  ASSUME NEW B, HasBytes(B)
  PROVE  Sponge!Spec => []SpongeGivenIsOnce
<1>1. SpongeInv(B) => SpongeGivenIsOnce
  <2> SUFFICES ASSUME SpongeInv(B)
               PROVE  spongeGiven = Sponge!shake256(spongeAbsorbed, Len(spongeGiven))
    BY DEF SpongeGivenIsOnce, Sponge!GivenIsOnce
  <2>1. /\ spongeAbsorbed \in Seq(B) /\ Len(spongeGiven) \in Nat
        /\ spongeGiven = BytesOf(FinalState, 0, Len(spongeGiven))
    BY DEF SpongeInv
  <2>2. Sponge!shake256(spongeAbsorbed, Len(spongeGiven))
          = BytesOf(Sponge!keccak_absorb_once(spongeAbsorbed), 0, Len(spongeGiven))
    BY <2>1, OnceSqueezes
  <2> QED
    BY <2>1, <2>2, Zenon DEF FinalState
<1> QED
  BY <1>1, SpongeInvariant, PTL

-----------------------------------------------------------------------------
(* The textbook sponge.                                                     *)

\* Exclusive-or is associative and the zero byte changes nothing.
XorLaws(B) ==
  /\ \A a \in B, b \in B, c \in B : Xor(Xor(a, b), c) = Xor(a, Xor(b, c))
  /\ \A a \in B : Xor(a, ZeroByte) = a

LEMMA Multiples ==
  ASSUME NEW k \in Nat, NEW n \in Nat, k <= n
  PROVE  /\ k * Rate \in Nat /\ n * Rate \in Nat /\ k * Rate <= n * Rate
         /\ (k + 1) * Rate = k * Rate + Rate
<1>1. PICK d \in Nat : d = Rate /\ d # 0
  BY SpongeSizes
<1>2. PICK e \in Nat : n = k + e
  <2>1. n - k \in Nat /\ n = k + (n - k)
    OBVIOUS
  <2> QED
    BY <2>1
<1>3. k * d \in Nat /\ e * d \in Nat /\ (k + e) * d = k * d + e * d /\ (k + 1) * d = k * d + d
  OBVIOUS
<1> QED
  BY <1>1, <1>2, <1>3

\* The blocks of a padded string.
RateBlock(padded, k) == SubSeq(padded, (k - 1) * Rate + 1, k * Rate)

LEMMA BlockType ==
  ASSUME NEW B, NEW padded \in Seq(B), NEW n \in Nat, Len(padded) = n * Rate, NEW k \in 1 .. n
  PROVE  /\ RateBlock(padded, k) \in Seq(B) /\ Len(RateBlock(padded, k)) = Rate
         /\ \A i \in 1 .. Rate : RateBlock(padded, k)[i] = padded[(k - 1) * Rate + i]
<1> DEFINE m == (k - 1) * Rate
           e == k * Rate
<1>1. k - 1 \in Nat /\ k - 1 <= n /\ k \in Nat /\ k <= n /\ (k - 1) + 1 = k
  OBVIOUS
<1>2. m \in Nat /\ ((k - 1) + 1) * Rate = m + Rate
  BY <1>1, Multiples
<1>3. e \in Nat /\ e <= Len(padded)
  BY <1>1, Multiples
<1>4. e = m + Rate
  BY <1>1, <1>2
<1> HIDE DEF m, e
<1>5. m \in Nat /\ e \in m .. Len(padded) /\ e - m = Rate
  BY <1>2, <1>3, <1>4, SpongeSizes
<1>6. /\ SubSeq(padded, m + 1, e) \in Seq(B) /\ Len(SubSeq(padded, m + 1, e)) = e - m
      /\ \A i \in 1 .. e - m : SubSeq(padded, m + 1, e)[i] = padded[m + i]
  BY <1>5, Sub
<1>7. RateBlock(padded, k) = SubSeq(padded, m + 1, e)
  BY Zenon DEF RateBlock, m, e
<1> QED
  BY <1>5, <1>6, <1>7, Zenon DEF m

\* The states after the blocks of a padded string.
AfterStates(B, padded, n, a) ==
  /\ a \in [0 .. n -> SpongeStates(B)] /\ a[0] = Sponge!Blank
  /\ \A k \in 1 .. n : a[k] = Sponge!XorInto(IF k = 1 THEN Sponge!Blank ELSE Permute(a[k - 1]), 0,
                                             RateBlock(padded, k))

LEMMA AfterRuns ==
  ASSUME NEW B, HasBytes(B), NEW padded \in Seq(B), NEW n \in Nat, Len(padded) = n * Rate
  PROVE  \E a : AfterStates(B, padded, n, a) /\ Sponge!AfterBlocks(padded, n) = a[n]
<1> DEFINE S == SpongeStates(B)
           Body(k, s) == Sponge!XorInto(IF k = 1 THEN Sponge!Blank ELSE Permute(s), 0,
                                        RateBlock(padded, k))
           Runs(e) == e = [k \in 0 .. n |-> IF k = 0 THEN Sponge!Blank ELSE Body(k, e[k - 1])]
           h == CHOOSE e : Runs(e)
           steps == [k \in Nat |-> [s \in S |-> IF k \in 1 .. n THEN Body(k, s) ELSE s]]
<1>1. Sponge!AfterBlocks(padded, n) = h[n]
  BY Zenon DEF Sponge!AfterBlocks, RateBlock
<1>2. ASSUME NEW k \in 1 .. n, NEW s \in S
      PROVE  Body(k, s) \in S
  <2>1. PICK t : t = IF k = 1 THEN Sponge!Blank ELSE Permute(s)
    OBVIOUS
  <2>2. t \in SpongeStates(B)
    BY <2>1, BlankType, PermuteType
  <2>3. PICK z \in Nat : z = 0
    OBVIOUS
  <2>4. RateBlock(padded, k) \in Seq(B)
    BY BlockType
  <2>5. Sponge!XorInto(t, z, RateBlock(padded, k)) \in SpongeStates(B)
    BY <2>2, <2>4, XorType
  <2> QED
    BY <2>1, <2>3, <2>5, Zenon
<1>3. Sponge!Blank \in S
  BY BlankType
<1> HIDE DEF S, Body
<1>4. /\ steps \in [Nat -> [S -> S]]
      /\ \A k \in 1 .. n, s \in S : steps[k][s] = Body(k, s)
  <2>1. \A k \in Nat : [s \in S |-> IF k \in 1 .. n THEN Body(k, s) ELSE s] \in [S -> S]
    BY <1>2
  <2>2. \A k \in 1 .. n : k \in Nat
    OBVIOUS
  <2> QED
    BY <2>1, <2>2
<1> HIDE DEF steps
<1>5. PICK f : Follows(f, S, Sponge!Blank, steps)
  BY <1>3, <1>4, Recursion, Zenon
<1>6. ASSUME NEW k \in 0 .. n
      PROVE  f[k] \in S /\ f[k] = IF k = 0 THEN Sponge!Blank ELSE Body(k, f[k - 1])
  <2>1. f[k] \in S
    BY <1>5 DEF Follows
  <2>2. CASE k = 0
    BY <1>5, <2>1, <2>2 DEF Follows
  <2>3. CASE k # 0
    <3>1. k - 1 \in Nat /\ (k - 1) + 1 = k /\ k \in 1 .. n
      BY <2>3
    <3>2. f[k] = steps[k][f[k - 1]] /\ f[k - 1] \in S
      BY <1>5, <3>1 DEF Follows
    <3> QED
      BY <1>4, <2>1, <2>3, <3>1, <3>2, Zenon
  <2> QED
    BY <2>2, <2>3
<1> DEFINE g == [k \in 0 .. n |-> f[k]]
<1>7. g = [k \in 0 .. n |-> g[k]] /\ \A k \in 0 .. n : g[k] = f[k]
  OBVIOUS
<1> HIDE DEF g
<1>8. Runs(g)
  <2>1. ASSUME NEW k \in 0 .. n
        PROVE  g[k] = IF k = 0 THEN Sponge!Blank ELSE Body(k, g[k - 1])
    <3>1. k # 0 => k - 1 \in 0 .. n
      OBVIOUS
    <3> QED
      BY <1>6, <1>7, <3>1, Zenon
  <2>2. [k \in 0 .. n |-> g[k]]
          = [k \in 0 .. n |-> IF k = 0 THEN Sponge!Blank ELSE Body(k, g[k - 1])]
    BY <2>1, Zenon
  <2> QED
    BY <1>7, <2>2, Zenon
<1>9. Runs(h)
  <2> HIDE DEF Runs
  <2> QED
    BY <1>8
<1> HIDE DEF h
<1>10. \A k \in 0 .. n : h[k] = IF k = 0 THEN Sponge!Blank ELSE Body(k, h[k - 1])
  <2> DEFINE d == [k \in 0 .. n |-> IF k = 0 THEN Sponge!Blank ELSE Body(k, h[k - 1])]
  <2>1. \A k \in 0 .. n : d[k] = IF k = 0 THEN Sponge!Blank ELSE Body(k, h[k - 1])
    BY Zenon
  <2>2. h = d
    BY <1>9, Zenon
  <2> QED
    BY <2>1, <2>2, Zenon
<1>11. h = [k \in 0 .. n |-> h[k]]
  <2> DEFINE d == [k \in 0 .. n |-> IF k = 0 THEN Sponge!Blank ELSE Body(k, h[k - 1])]
  <2>1. h = d
    BY <1>9, Zenon
  <2>2. d = [k \in 0 .. n |-> d[k]]
    OBVIOUS
  <2> HIDE DEF d
  <2> QED
    BY <2>1, <2>2, Zenon
<1> HIDE DEF Runs
<1>12. \A k \in 0 .. n : h[k] = f[k]
  <2> DEFINE T == {k \in Nat : k <= n => h[k] = f[k]}
  <2>1. 0 \in T
    BY <1>6, <1>10
  <2>2. ASSUME NEW k \in Nat, k \in T
        PROVE  k + 1 \in T
    <3>1. ASSUME k + 1 <= n
          PROVE  h[k + 1] = f[k + 1]
      <4>1. k + 1 \in 0 .. n /\ k + 1 # 0 /\ (k + 1) - 1 = k /\ k <= n
        BY <3>1
      <4>2. h[k] = f[k]
        BY <2>2, <4>1
      <4> QED
        BY <1>6, <1>10, <4>1, <4>2, Zenon
    <3> QED
      BY <3>1
  <2> HIDE DEF T
  <2>3. \A k \in Nat : k \in T
    BY <2>1, <2>2, NumbersByInduction
  <2> QED
    BY <2>3 DEF T
<1>13. h \in [0 .. n -> S]
  BY <1>6, <1>11, <1>12
<1>14. h[0] = Sponge!Blank /\ \A k \in 1 .. n : h[k] = Body(k, h[k - 1])
  <2>1. 0 \in 0 .. n /\ \A k \in 1 .. n : k \in 0 .. n /\ k # 0
    OBVIOUS
  <2> QED
    BY <1>10, <2>1, Zenon
<1>15. AfterStates(B, padded, n, h)
  BY <1>13, <1>14, Zenon DEF AfterStates, Body, S
<1> QED
  BY <1>1, <1>15, Zenon

\* The padded string.
RateBlocks(in) == Len(in) \div Rate + 1

LEMMA TextbookType ==
  ASSUME NEW B, HasBytes(B), NEW in \in Seq(B)
  PROVE  /\ RateBlocks(in) \in Nat /\ RateBlocks(in) * Rate \in Nat
         /\ Sponge!TextbookPad(in) \in Seq(B)
         /\ Len(Sponge!TextbookPad(in)) = RateBlocks(in) * Rate
         /\ \A i \in 1 .. RateBlocks(in) * Rate :
              Sponge!TextbookPad(in)[i] =
                Xor(IF i <= Len(in) THEN in[i] ELSE IF i = Len(in) + 1 THEN Suffix ELSE ZeroByte,
                    IF i = RateBlocks(in) * Rate THEN LastBit ELSE ZeroByte)
<1> DEFINE last == RateBlocks(in) * Rate
           Byte(i) == Xor(IF i <= Len(in) THEN in[i] ELSE IF i = Len(in) + 1 THEN Suffix ELSE ZeroByte,
                          IF i = last THEN LastBit ELSE ZeroByte)
           e == [i \in 1 .. last |-> Byte(i)]
<1>1. RateBlocks(in) \in Nat
  <2>1. Len(in) \in Nat
    OBVIOUS
  <2>2. Len(in) \div Rate \in Nat
    BY <2>1, SpongeSizes, Remainders
  <2> QED
    BY <2>2 DEF RateBlocks
<1>2. last \in Nat
  BY <1>1, Multiples
<1>3. Sponge!TextbookPad(in) = e
  BY Zenon DEF Sponge!TextbookPad, RateBlocks
<1> HIDE DEF last
<1>4. \A i \in 1 .. last : Byte(i) \in B
  <2>1. \A a \in B, b \in B : Xor(a, b) \in B
    BY DEF HasBytes
  <2>2. ASSUME NEW i \in 1 .. last
        PROVE  Byte(i) \in B
    <3>1. (IF i <= Len(in) THEN in[i] ELSE IF i = Len(in) + 1 THEN Suffix ELSE ZeroByte) \in B
      BY DEF HasBytes
    <3>2. (IF i = last THEN LastBit ELSE ZeroByte) \in B
      BY DEF HasBytes
    <3> QED
      BY <2>1, <3>1, <3>2, Zenon
  <2> QED
    BY <2>2
<1>5. \A i \in 1 .. last : e[i] = Byte(i)
  OBVIOUS
<1>6. e \in [1 .. last -> B]
  <2> HIDE DEF Byte
  <2> QED
    BY <1>4
<1> HIDE DEF e
<1>7. e \in Seq(B) /\ Len(e) = last
  BY <1>2, <1>6
<1> QED
  BY <1>1, <1>2, <1>3, <1>5, <1>7, Zenon DEF last

\* What is left of a string behind its first m bytes.
LEMMA RestOf ==
  ASSUME NEW B, NEW in \in Seq(B), NEW m \in Nat, NEW k \in Nat, m + k <= Len(in)
  PROVE  LET rest == SubSeq(in, m + 1, Len(in)) IN
         /\ rest \in Seq(B) /\ Len(rest) = Len(in) - m
         /\ \A i \in 1 .. Len(in) - m : rest[i] = in[m + i]
         /\ SubSeq(rest, k + 1, Len(rest)) = SubSeq(in, (m + k) + 1, Len(in))
<1> DEFINE rest == SubSeq(in, m + 1, Len(in))
           n == Len(in)
           p == m + k
           l == SubSeq(rest, k + 1, Len(rest))
           r == SubSeq(in, p + 1, n)
<1>1. n \in Nat /\ n \in m .. Len(in) /\ p \in Nat /\ n \in p .. Len(in)
  OBVIOUS
<1> HIDE DEF n, p
<1>2. /\ SubSeq(in, m + 1, n) \in Seq(B) /\ Len(SubSeq(in, m + 1, n)) = n - m
      /\ \A i \in 1 .. n - m : SubSeq(in, m + 1, n)[i] = in[m + i]
  BY <1>1, Sub
<1>3. r \in Seq(B) /\ Len(r) = n - p /\ \A i \in 1 .. n - p : r[i] = in[p + i]
  BY <1>1, Sub
<1>4. rest \in Seq(B) /\ Len(rest) = n - m /\ \A i \in 1 .. n - m : rest[i] = in[m + i]
  BY <1>2, Zenon DEF n
<1> DEFINE size == Len(rest)
<1>5. size = n - m /\ size \in k .. Len(rest) /\ size - k = n - p
  BY <1>1, <1>4 DEF p, n
<1> HIDE DEF rest, size, r
<1>6. /\ SubSeq(rest, k + 1, size) \in Seq(B) /\ Len(SubSeq(rest, k + 1, size)) = size - k
      /\ \A i \in 1 .. size - k : SubSeq(rest, k + 1, size)[i] = rest[k + i]
  BY <1>4, <1>5, Sub
<1>7. l \in Seq(B) /\ Len(l) = n - p /\ \A i \in 1 .. n - p : l[i] = rest[k + i]
  BY <1>5, <1>6, Zenon DEF size
<1> HIDE DEF l
<1>8. ASSUME NEW i \in 1 .. n - p
      PROVE  l[i] = r[i]
  <2>1. k + i \in 1 .. n - m /\ m + (k + i) = p + i
    BY <1>1 DEF p
  <2>2. l[i] = rest[k + i] /\ rest[k + i] = in[m + (k + i)] /\ r[i] = in[p + i]
    BY <1>3, <1>4, <1>7, <2>1, Zenon
  <2> QED
    BY <2>1, <2>2
<1>9. l = r
  BY <1>3, <1>7, <1>8, SameElements
<1> QED
  BY <1>4, <1>9, Zenon DEF l, r, rest, p, n

\* The state that the next block is added to.
Between(a, k) == IF k = 0 THEN Sponge!Blank ELSE Permute(a[k])

LEMMA BetweenType ==
  ASSUME NEW B, HasBytes(B), NEW padded, NEW n \in Nat, NEW a, AfterStates(B, padded, n, a),
         NEW k \in Nat, k < n
  PROVE  /\ Between(a, k) \in SpongeStates(B)
         /\ a[k + 1] \in SpongeStates(B)
         /\ a[k + 1] = Sponge!XorInto(Between(a, k), 0, RateBlock(padded, k + 1))
<1>1. k + 1 \in 1 .. n /\ (k + 1) - 1 = k /\ k \in 0 .. n /\ k + 1 \in 0 .. n /\ (k + 1 = 1 <=> k = 0)
  OBVIOUS
<1>2. a[k] \in SpongeStates(B) /\ a[k + 1] \in SpongeStates(B)
  BY <1>1 DEF AfterStates
<1>3. Between(a, k) \in SpongeStates(B)
  BY <1>2, BlankType, PermuteType DEF Between
<1>4. a[k + 1] = Sponge!XorInto(IF k + 1 = 1 THEN Sponge!Blank ELSE Permute(a[(k + 1) - 1]), 0,
                                RateBlock(padded, k + 1))
  BY <1>1, Zenon DEF AfterStates
<1>5. (IF k + 1 = 1 THEN Sponge!Blank ELSE Permute(a[(k + 1) - 1])) = Between(a, k)
  BY <1>1, Zenon DEF Between
<1> QED
  BY <1>2, <1>3, <1>4, <1>5, Zenon

\* The blocks that the input fills are those of the padded string.
Behind(in, k) == SubSeq(in, k * Rate + 1, Len(in))

LEMMA WholeBlock ==
  ASSUME NEW B, HasBytes(B), XorLaws(B), NEW in \in Seq(B), NEW k \in Nat, k < Len(in) \div Rate,
         NEW rest, rest = Behind(in, k), NEW next, next = k + 1
  PROVE  /\ rest \in Seq(B) /\ Len(rest) >= Rate
         /\ SubSeq(rest, 1, Rate) = RateBlock(Sponge!TextbookPad(in), next)
         /\ SubSeq(rest, Rate + 1, Len(rest)) = Behind(in, next)
<1> DEFINE q == Len(in) \div Rate
           pad == Sponge!TextbookPad(in)
           n == RateBlocks(in)
           m == k * Rate
           w == q * Rate
           front == SubSeq(rest, 1, Rate)
           block == RateBlock(pad, k + 1)
<1>1. PICK d \in Nat : d = Rate /\ d # 0
  BY SpongeSizes
<1>2. q \in Nat /\ w \in Nat /\ w <= Len(in) /\ Len(in) \in Nat
  <2>1. Len(in) \in Nat
    OBVIOUS
  <2>2. /\ q \in Nat /\ Len(in) % Rate \in Nat /\ w \in Nat
        /\ Len(in) = w + (Len(in) % Rate)
    BY <2>1, SpongeSizes, Remainders
  <2> QED
    BY <2>1, <2>2
<1>3. n = q + 1
  BY DEF RateBlocks
<1> HIDE DEF n
<1>4. k < q
  OBVIOUS
<1> HIDE DEF q
<1>5. /\ m \in Nat /\ (k + 1) * Rate = m + Rate /\ (k + 1) * Rate <= w
      /\ n * Rate = w + Rate /\ n * Rate \in Nat /\ n \in Nat
  <2>1. k + 1 \in Nat /\ k + 1 <= q /\ k <= q /\ q <= q
    BY <1>2, <1>4
  <2>2. m \in Nat /\ (k + 1) * Rate = m + Rate
    BY <1>2, <2>1, Multiples
  <2>3. (q + 1) * Rate = w + Rate
    BY <1>2, Multiples
  <2>4. (k + 1) * Rate <= w
    BY <1>2, <2>1, Multiples
  <2> QED
    BY <1>1, <1>2, <1>3, <2>2, <2>3, <2>4
<1> HIDE DEF m, w
<1>6. m + Rate <= Len(in) /\ Rate \in Nat /\ 0 < Rate
  BY <1>1, <1>2, <1>5
<1>7. /\ rest \in Seq(B) /\ Len(rest) = Len(in) - m
      /\ \A i \in 1 .. Len(in) - m : rest[i] = in[m + i]
      /\ SubSeq(rest, Rate + 1, Len(rest)) = SubSeq(in, (m + Rate) + 1, Len(in))
  <2>1. rest = SubSeq(in, m + 1, Len(in))
    BY DEF m, Behind
  <2>2. PICK j \in Nat : j = m
    BY <1>5
  <2>3. d \in Nat /\ j + d <= Len(in)
    BY <1>1, <1>6, <2>2
  <2>4. LET r == SubSeq(in, j + 1, Len(in)) IN
        /\ r \in Seq(B) /\ Len(r) = Len(in) - j
        /\ \A i \in 1 .. Len(in) - j : r[i] = in[j + i]
        /\ SubSeq(r, d + 1, Len(r)) = SubSeq(in, (j + d) + 1, Len(in))
    BY <2>3, RestOf
  <2> QED
    BY <1>1, <2>1, <2>2, <2>4, Zenon
<1>8. Len(rest) >= Rate
  BY <1>2, <1>5, <1>6, <1>7
<1>9. front \in Seq(B) /\ Len(front) = Rate /\ \A i \in 1 .. Rate : front[i] = rest[i]
  <2>1. Rate \in 0 .. Len(rest) /\ rest \in Seq(B)
    BY <1>6, <1>7, <1>8
  <2> QED
    BY <2>1
<1>10. /\ pad \in Seq(B) /\ Len(pad) = n * Rate
       /\ \A i \in 1 .. n * Rate :
            pad[i] = Xor(IF i <= Len(in) THEN in[i] ELSE IF i = Len(in) + 1 THEN Suffix ELSE ZeroByte,
                         IF i = n * Rate THEN LastBit ELSE ZeroByte)
  BY TextbookType DEF n
<1> HIDE DEF pad, front
<1>11. block \in Seq(B) /\ Len(block) = Rate /\ \A i \in 1 .. Rate : block[i] = pad[m + i]
  <2> DEFINE j == k + 1
  <2>1. j \in 1 .. n /\ j - 1 = k
    BY <1>2, <1>3, <1>4
  <2> HIDE DEF j
  <2>2. /\ RateBlock(pad, j) \in Seq(B) /\ Len(RateBlock(pad, j)) = Rate
        /\ \A i \in 1 .. Rate : RateBlock(pad, j)[i] = pad[(j - 1) * Rate + i]
    BY <1>5, <1>10, <2>1, BlockType
  <2> QED
    BY <2>1, <2>2, Zenon DEF j, m
<1> HIDE DEF block
<1>12. ASSUME NEW i \in 1 .. Rate
       PROVE  front[i] = block[i]
  <2>1. /\ m + i \in 1 .. n * Rate /\ m + i <= Len(in) /\ m + i # n * Rate /\ i \in 1 .. Len(in) - m
        /\ m + i \in 1 .. Len(in)
    BY <1>2, <1>5, <1>6
  <2>2. pad[m + i] = Xor(in[m + i], ZeroByte)
    BY <1>10, <2>1, Zenon
  <2>3. in[m + i] \in B
    BY <2>1
  <2>4. pad[m + i] = in[m + i]
    BY <2>2, <2>3, Zenon DEF XorLaws
  <2> QED
    BY <1>7, <1>9, <1>11, <2>1, <2>4, Zenon
<1>13. front = block
  BY <1>9, <1>11, <1>12, SameElements
<1>14. SubSeq(rest, Rate + 1, Len(rest)) = Behind(in, next)
  BY <1>5, <1>7, Zenon DEF Behind
<1> QED
  BY <1>7, <1>8, <1>13, <1>14, Zenon DEF front, block, pad

\* Absorbing goes through the states of the textbook.
LEMMA AbsorbsBlocks ==
  ASSUME NEW B, HasBytes(B), XorLaws(B), NEW in \in Seq(B), NEW a,
         AfterStates(B, Sponge!TextbookPad(in), RateBlocks(in), a),
         NEW k \in Nat, k <= Len(in) \div Rate
  PROVE  Sponge!keccak_absorb(Start, in)
           = Sponge!keccak_absorb([s |-> Between(a, k), pos |-> 0], Behind(in, k))
<1> DEFINE q == Len(in) \div Rate
           pad == Sponge!TextbookPad(in)
           n == RateBlocks(in)
           Rest(j) == Behind(in, j)
           At(j) == [s |-> Between(a, j), pos |-> 0]
           T == {j \in Nat : j <= q => Sponge!keccak_absorb(Start, in) = Sponge!keccak_absorb(At(j), Rest(j))}
<1>1. n \in Nat /\ q \in Nat /\ n = q + 1
  <2>1. Len(in) \in Nat
    OBVIOUS
  <2>2. q \in Nat
    BY <2>1, SpongeSizes, Remainders
  <2> QED
    BY <2>2 DEF RateBlocks
<1>2. 0 \in T
  <2>1. At(0) = Start
    BY DEF Between, Start
  <2>2. Rest(0) = in
    <3>1. 0 * Rate + 1 = 1
      BY SpongeSizes
    <3>2. SubSeq(in, 1, Len(in)) = in
      OBVIOUS
    <3> QED
      BY <3>1, <3>2, Zenon DEF Behind
  <2> HIDE DEF At, Rest, q
  <2> QED
    BY <2>1, <2>2
<1>3. ASSUME NEW j \in Nat, j < q
      PROVE  Sponge!keccak_absorb(At(j), Rest(j)) = Sponge!keccak_absorb(At(j + 1), Rest(j + 1))
  <2> DEFINE st == At(j)
             rest == Rest(j)
             block == RateBlock(pad, j + 1)
  <2>1. j < n /\ j < Len(in) \div Rate /\ j + 1 # 0
    BY <1>1, <1>3
  <2>2. /\ Between(a, j) \in SpongeStates(B)
        /\ a[j + 1] = Sponge!XorInto(Between(a, j), 0, block)
    BY <1>1, <2>1, BetweenType
  <2>3. /\ rest \in Seq(B) /\ Len(rest) >= Rate
        /\ SubSeq(rest, 1, Rate) = block
        /\ SubSeq(rest, Rate + 1, Len(rest)) = Rest(j + 1)
    <3>1. PICK r : r = Behind(in, j)
      OBVIOUS
    <3>2. PICK next : next = j + 1
      OBVIOUS
    <3>3. /\ r \in Seq(B) /\ Len(r) >= Rate
          /\ SubSeq(r, 1, Rate) = RateBlock(Sponge!TextbookPad(in), next)
          /\ SubSeq(r, Rate + 1, Len(r)) = Behind(in, next)
      <4> HIDE DEF T, At, st, rest, block
      <4> QED
        BY <2>1, <3>1, <3>2, WholeBlock
    <3> QED
      BY <3>1, <3>2, <3>3, Zenon
  <2>4. st.s = Between(a, j) /\ st.pos = 0 /\ st \in SpongeAt(B)
    <3>1. 0 \in 0 .. Rate - 1
      BY SpongeSizes
    <3> QED
      BY <2>2, <3>1 DEF SpongeAt
  <2> HIDE DEF st, rest, block
  <2>5. st.pos + Len(rest) >= Rate /\ Rate - st.pos = Rate
    BY <2>3, <2>4, SpongeSizes
  <2>6. Sponge!keccak_absorb(st, rest)
          = Sponge!keccak_absorb([s |-> Permute(Sponge!XorInto(st.s, st.pos, SubSeq(rest, 1, Rate - st.pos))),
                                  pos |-> 0],
                                 SubSeq(rest, Rate - st.pos + 1, Len(rest)))
    BY <2>3, <2>4, <2>5, AbsorbBlock
  <2>7. Permute(Sponge!XorInto(st.s, st.pos, SubSeq(rest, 1, Rate - st.pos))) = Between(a, j + 1)
    BY <2>1, <2>2, <2>3, <2>4, <2>5, Zenon DEF Between
  <2>8. SubSeq(rest, Rate - st.pos + 1, Len(rest)) = Rest(j + 1)
    BY <2>3, <2>5, Zenon
  <2> HIDE DEF Rest
  <2> QED
    BY <2>6, <2>7, <2>8, Zenon DEF st, rest
<1>4. ASSUME NEW j \in Nat, j \in T
      PROVE  j + 1 \in T
  <2>1. ASSUME j + 1 <= q
        PROVE  Sponge!keccak_absorb(Start, in) = Sponge!keccak_absorb(At(j + 1), Rest(j + 1))
    <3> HIDE DEF At, Rest, q
    <3>1. j < q /\ j <= q
      BY <1>1, <2>1
    <3> QED
      BY <1>3, <1>4, <3>1
  <2> QED
    BY <2>1
<1> HIDE DEF T
<1>5. k \in T
  BY <1>2, <1>4, NumbersByInduction
<1> HIDE DEF At, Rest, q
<1>6. k <= q
  BY DEF q
<1>7. Sponge!keccak_absorb(Start, in) = Sponge!keccak_absorb(At(k), Rest(k))
  BY <1>5, <1>6 DEF T
<1> QED
  BY <1>7, Zenon DEF At, Rest

LEMMA XorOne ==
  ASSUME NEW B, HasBytes(B), NEW u \in SpongeStates(B), NEW p \in Nat, NEW b \in B
  PROVE  /\ Sponge!XorInto(u, p, <<b>>) \in SpongeStates(B)
         /\ \A i \in 0 .. Width - 1 :
              Sponge!XorInto(u, p, <<b>>)[i] = IF i = p THEN Xor(u[i], b) ELSE u[i]
<1>1. PICK one \in Seq(B) : one = <<b>> /\ Len(one) = 1 /\ one[1] = b
  <2>1. <<b>> \in Seq(B) /\ Len(<<b>>) = 1 /\ <<b>>[1] = b
    OBVIOUS
  <2> QED
    BY <2>1, Zenon
<1>2. /\ Sponge!XorInto(u, p, one) \in SpongeStates(B)
      /\ \A i \in 0 .. Width - 1 :
           Sponge!XorInto(u, p, one)[i] =
             IF i \in p .. p + Len(one) - 1 THEN Xor(u[i], one[i - p + 1]) ELSE u[i]
  BY XorType
<1>3. \A i \in 0 .. Width - 1 : (i \in p .. p + Len(one) - 1 <=> i = p) /\ (i = p => i - p + 1 = 1)
  BY <1>1
<1> QED
  BY <1>1, <1>2, <1>3, Zenon

LEMMA XorFirst ==
  ASSUME NEW B, HasBytes(B), NEW s \in SpongeStates(B), NEW in \in Seq(B)
  PROVE  /\ Sponge!XorInto(s, 0, in) \in SpongeStates(B)
         /\ \A i \in 0 .. Width - 1 :
              Sponge!XorInto(s, 0, in)[i] = IF i < Len(in) THEN Xor(s[i], in[i + 1]) ELSE s[i]
<1>1. PICK zero \in Nat : zero = 0
  OBVIOUS
<1>2. /\ Sponge!XorInto(s, zero, in) \in SpongeStates(B)
      /\ \A i \in 0 .. Width - 1 :
           Sponge!XorInto(s, zero, in)[i] =
             IF i \in zero .. zero + Len(in) - 1 THEN Xor(s[i], in[i - zero + 1]) ELSE s[i]
  BY XorType
<1>3. \A i \in 0 .. Width - 1 : (i \in zero .. zero + Len(in) - 1 <=> i < Len(in)) /\ i - zero + 1 = i + 1
  BY <1>1, SpongeSizes
<1> QED
  BY <1>1, <1>2, <1>3, Zenon

\* The suffix and the last bit.
PaddedFrom(B, s, l, t, u) ==
  /\ t \in SpongeStates(B)
  /\ \A i \in 0 .. Width - 1 : t[i] = IF i = l THEN Xor(s[i], Suffix) ELSE s[i]
  /\ u \in SpongeStates(B)
  /\ \A i \in 0 .. Width - 1 : u[i] = IF i = Rate - 1 THEN Xor(t[i], LastBit) ELSE t[i]

LEMMA PaddedBytes ==
  ASSUME NEW B, HasBytes(B), NEW s \in SpongeStates(B), NEW l \in Nat
  PROVE  \E t : PaddedFrom(B, s, l, t, Sponge!Padded(s, l))
<1> DEFINE t == Sponge!XorInto(s, l, <<Suffix>>)
           last == Rate - 1
<1>1. Suffix \in B /\ LastBit \in B
  BY DEF HasBytes
<1>2. last \in Nat
  BY SpongeSizes
<1>3. /\ t \in SpongeStates(B)
      /\ \A i \in 0 .. Width - 1 : t[i] = IF i = l THEN Xor(s[i], Suffix) ELSE s[i]
  BY <1>1, XorOne
<1> HIDE DEF t, last
<1>4. t \in SpongeStates(B)
  BY <1>3
<1>5. /\ Sponge!XorInto(t, last, <<LastBit>>) \in SpongeStates(B)
      /\ \A i \in 0 .. Width - 1 :
           Sponge!XorInto(t, last, <<LastBit>>)[i] = IF i = last THEN Xor(t[i], LastBit) ELSE t[i]
  BY <1>1, <1>2, <1>4, XorOne
<1>6. Sponge!Padded(s, l) = Sponge!XorInto(t, last, <<LastBit>>)
  BY Zenon DEF Sponge!Padded, t, last
<1>7. PICK u : u = Sponge!Padded(s, l)
  OBVIOUS
<1>8. /\ u \in SpongeStates(B)
      /\ \A i \in 0 .. Width - 1 : u[i] = IF i = Rate - 1 THEN Xor(t[i], LastBit) ELSE t[i]
  BY <1>5, <1>6, <1>7, Zenon DEF last
<1> QED
  BY <1>3, <1>7, <1>8, Zenon DEF PaddedFrom

\* The last block: what is left of the input, the suffix and the last bit.
IsLast(block, rest) ==
  /\ Len(block) = Rate
  /\ \A i \in 1 .. Rate :
       block[i] = Xor(IF i <= Len(rest) THEN rest[i]
                      ELSE IF i = Len(rest) + 1 THEN Suffix ELSE ZeroByte,
                      IF i = Rate THEN LastBit ELSE ZeroByte)

LEMMA LastBlock ==
  ASSUME NEW B, HasBytes(B), XorLaws(B), NEW s \in SpongeStates(B), NEW rest \in Seq(B),
         Len(rest) < Rate, NEW block \in Seq(B), IsLast(block, rest)
  PROVE  Sponge!Padded(Sponge!XorInto(s, 0, rest), Len(rest)) = Sponge!XorInto(s, 0, block)
<1> DEFINE l == Len(rest)
           last == Rate - 1
           t0 == Sponge!XorInto(s, 0, rest)
           t2 == Sponge!Padded(t0, l)
           t == Sponge!XorInto(s, 0, block)
           What(i) == IF i <= l THEN rest[i] ELSE IF i = l + 1 THEN Suffix ELSE ZeroByte
           Bit(i) == IF i = Rate THEN LastBit ELSE ZeroByte
<1>1. l \in Nat /\ l < Rate /\ last \in Nat /\ last + 1 = Rate /\ Rate <= Width /\ Rate \in Nat /\ Width \in Nat
  BY SpongeSizes
<1>2. /\ Suffix \in B /\ LastBit \in B /\ ZeroByte \in B
      /\ \A x \in B, y \in B : Xor(x, y) \in B
  BY DEF HasBytes
<1>3. /\ \A x \in B, y \in B, z \in B : Xor(Xor(x, y), z) = Xor(x, Xor(y, z))
      /\ \A x \in B : Xor(x, ZeroByte) = x
  BY DEF XorLaws
<1> HIDE DEF l, last
<1>6. /\ t0 \in SpongeStates(B)
      /\ \A i \in 0 .. Width - 1 : t0[i] = IF i < l THEN Xor(s[i], rest[i + 1]) ELSE s[i]
  BY XorFirst DEF l
<1>7. /\ t \in SpongeStates(B)
      /\ \A i \in 0 .. Width - 1 : t[i] = IF i < Rate THEN Xor(s[i], block[i + 1]) ELSE s[i]
  <2>1. /\ Sponge!XorInto(s, 0, block) \in SpongeStates(B)
        /\ \A i \in 0 .. Width - 1 :
             Sponge!XorInto(s, 0, block)[i] = IF i < Len(block) THEN Xor(s[i], block[i + 1]) ELSE s[i]
    BY XorFirst
  <2>2. Len(block) = Rate
    BY DEF IsLast
  <2> QED
    BY <2>1, <2>2, Zenon
<1> HIDE DEF t0, t
<1>8. PICK t1 : PaddedFrom(B, t0, l, t1, t2)
  <2>1. t0 \in SpongeStates(B) /\ l \in Nat
    BY <1>1, <1>6, Zenon
  <2> QED
    BY <2>1, PaddedBytes
<1>9. /\ t1 \in SpongeStates(B) /\ t2 \in SpongeStates(B)
      /\ \A i \in 0 .. Width - 1 : t1[i] = IF i = l THEN Xor(t0[i], Suffix) ELSE t0[i]
      /\ \A i \in 0 .. Width - 1 : t2[i] = IF i = last THEN Xor(t1[i], LastBit) ELSE t1[i]
  <2> HIDE DEF t2
  <2> QED
    BY <1>8, Zenon DEF PaddedFrom, last
<1> HIDE DEF t2
<1>10. \A i \in 0 .. Width - 1 : s[i] \in B
  BY DEF SpongeStates
<1>11. ASSUME NEW i \in 0 .. Width - 1, i < Rate
       PROVE  t2[i] = t[i]
  <2>1. i + 1 \in 1 .. Rate /\ i \in Nat
    BY <1>1, <1>11
  <2>2. block[i + 1] = Xor(What(i + 1), Bit(i + 1))
    BY <2>1, Zenon DEF l, IsLast
  <2>3. /\ i < l => i + 1 \in 1 .. l
        /\ i + 1 <= l <=> i < l
        /\ i + 1 = l + 1 <=> i = l
        /\ i + 1 = Rate <=> i = last
    BY <1>1, <2>1
  <2>4. What(i + 1) \in B /\ Bit(i + 1) \in B
    <3>1. i < l => rest[i + 1] \in B
      <4>1. \A j \in 1 .. l : rest[j] \in B
        BY DEF l
      <4> QED
        BY <2>3, <4>1
    <3> QED
      BY <1>2, <2>3, <3>1, Zenon
  <2>5. t1[i] = Xor(s[i], What(i + 1))
    <3>1. CASE i < l
      <4>1. i # l
        BY <1>1, <3>1
      <4> QED
        BY <1>6, <1>9, <2>3, <3>1, <4>1, Zenon
    <3>2. CASE i = l
      <4>1. ~(i < l)
        BY <1>1, <3>2
      <4> QED
        BY <1>6, <1>9, <2>3, <3>2, <4>1, Zenon
    <3>3. CASE ~(i < l) /\ i # l
      <4>1. t1[i] = s[i] /\ What(i + 1) = ZeroByte
        BY <1>6, <1>9, <2>3, <3>3, Zenon
      <4> QED
        BY <1>3, <1>10, <4>1, Zenon
    <3> QED
      BY <3>1, <3>2, <3>3
  <2> HIDE DEF What
  <2>6. s[i] \in B /\ Xor(s[i], What(i + 1)) \in B
    BY <1>2, <1>10, <2>4, Zenon
  <2>7. t2[i] = Xor(t1[i], Bit(i + 1))
    <3>1. CASE i = last
      BY <1>9, <2>3, <3>1, Zenon
    <3>2. CASE i # last
      BY <1>3, <1>9, <2>3, <2>5, <2>6, <3>2, Zenon
    <3> QED
      BY <3>1, <3>2
  <2> HIDE DEF Bit
  <2>8. t2[i] = Xor(s[i], Xor(What(i + 1), Bit(i + 1)))
    <3>1. PICK x, w, b : x = s[i] /\ w = What(i + 1) /\ b = Bit(i + 1)
      OBVIOUS
    <3>2. x \in B /\ w \in B /\ b \in B /\ t2[i] = Xor(Xor(x, w), b)
      BY <2>4, <2>5, <2>6, <2>7, <3>1, Zenon
    <3>3. t2[i] = Xor(x, Xor(w, b))
      BY <1>3, <3>2, Zenon
    <3> QED
      BY <3>1, <3>3, Zenon
  <2> QED
    BY <1>7, <1>11, <2>2, <2>8, Zenon
<1>12. ASSUME NEW i \in 0 .. Width - 1, ~(i < Rate)
       PROVE  t2[i] = t[i]
  <2>1. i # last /\ i # l /\ ~(i < l)
    BY <1>1, <1>12
  <2> QED
    BY <1>6, <1>7, <1>9, <1>9, <1>12, <2>1, Zenon
<1>13. t2 = t
  BY <1>7, <1>9, <1>11, <1>12, SameStates
<1> QED
  BY <1>13, Zenon DEF t2, t0, t, l

LEMMA TextbookAbsorbs ==
  ASSUME NEW B, HasBytes(B), XorLaws(B), NEW in \in Seq(B)
  PROVE  Sponge!keccak_absorb_once(in) = Sponge!AfterBlocks(Sponge!TextbookPad(in), RateBlocks(in))
<1> DEFINE q == Len(in) \div Rate
           n == RateBlocks(in)
           pad == Sponge!TextbookPad(in)
           m == q * Rate
           rest == Behind(in, q)
           l == Len(rest)
           block == RateBlock(pad, n)
<1>1. /\ Len(in) \in Nat /\ q \in Nat /\ m \in Nat /\ n \in Nat /\ n = q + 1
      /\ m <= Len(in) /\ Len(in) < m + Rate /\ n * Rate = m + Rate
  <2>1. Len(in) \in Nat
    OBVIOUS
  <2>2. /\ q \in Nat /\ Len(in) % Rate \in Nat /\ Len(in) % Rate < Rate /\ m \in Nat
        /\ Len(in) = m + (Len(in) % Rate)
    BY <2>1, SpongeSizes, Remainders
  <2>3. n = q + 1
    BY DEF RateBlocks
  <2>4. (q + 1) * Rate = m + Rate
    BY <2>2, Multiples
  <2> HIDE DEF q, m, n
  <2>5. n * Rate = m + Rate
    BY <2>3, <2>4, Zenon
  <2> QED
    BY <2>1, <2>2, <2>3, <2>5, SpongeSizes
<1>2. /\ pad \in Seq(B) /\ Len(pad) = n * Rate
      /\ \A i \in 1 .. n * Rate :
           pad[i] = Xor(IF i <= Len(in) THEN in[i] ELSE IF i = Len(in) + 1 THEN Suffix ELSE ZeroByte,
                        IF i = n * Rate THEN LastBit ELSE ZeroByte)
  BY TextbookType
<1> HIDE DEF pad, n, m, q
<1>3. PICK a : AfterStates(B, pad, n, a) /\ Sponge!AfterBlocks(pad, n) = a[n]
  BY <1>1, <1>2, AfterRuns
<1>4. rest \in Seq(B) /\ l = Len(in) - m /\ \A i \in 1 .. l : rest[i] = in[m + i]
  <2>1. PICK z \in Nat : z = 0
    OBVIOUS
  <2>2. LET r == SubSeq(in, m + 1, Len(in)) IN
        /\ r \in Seq(B) /\ Len(r) = Len(in) - m
        /\ \A i \in 1 .. Len(in) - m : r[i] = in[m + i]
        /\ SubSeq(r, z + 1, Len(r)) = SubSeq(in, (m + z) + 1, Len(in))
    <3>1. m \in Nat /\ m + z <= Len(in)
      BY <1>1, <2>1
    <3> QED
      BY <3>1, RestOf
  <2>3. rest = SubSeq(in, m + 1, Len(in))
    BY DEF Behind, m
  <2> HIDE DEF rest
  <2> QED
    BY <2>2, <2>3, Zenon
<1>5. l \in Nat /\ l < Rate /\ Len(in) = m + l
  BY <1>1, <1>4, SpongeSizes
<1>6. q < n /\ q + 1 = n
  BY <1>1
<1>7. Between(a, q) \in SpongeStates(B) /\ a[n] = Sponge!XorInto(Between(a, q), 0, block)
  <2>1. /\ Between(a, q) \in SpongeStates(B)
        /\ a[q + 1] = Sponge!XorInto(Between(a, q), 0, RateBlock(pad, q + 1))
    BY <1>1, <1>3, <1>6, BetweenType
  <2> QED
    BY <1>6, <2>1, Zenon
<1>8. Sponge!keccak_absorb(Start, in) = Sponge!keccak_absorb([s |-> Between(a, q), pos |-> 0], rest)
  <2>1. AfterStates(B, Sponge!TextbookPad(in), RateBlocks(in), a) /\ q <= Len(in) \div Rate
    BY <1>1, <1>3 DEF pad, n, q
  <2> HIDE DEF rest
  <2>2. Sponge!keccak_absorb(Start, in) = Sponge!keccak_absorb([s |-> Between(a, q), pos |-> 0], Behind(in, q))
    BY <1>1, <2>1, AbsorbsBlocks
  <2> QED
    BY <2>2 DEF rest
<1> HIDE DEF rest, l
<1> DEFINE st == [s |-> Between(a, q), pos |-> 0]
           s == Sponge!XorInto(Between(a, q), 0, rest)
<1>9. st \in SpongeAt(B) /\ st.s = Between(a, q) /\ st.pos = 0
  <2>1. 0 \in 0 .. Rate - 1
    BY SpongeSizes
  <2> QED
    BY <1>7, <2>1 DEF SpongeAt
<1>10. Sponge!keccak_absorb(st, rest) = [s |-> s, pos |-> l]
  <2> HIDE DEF st
  <2>1. st.pos + Len(rest) < Rate /\ st.pos + Len(rest) = l
    BY <1>5, <1>9 DEF l
  <2>2. Sponge!keccak_absorb(st, rest) = [s |-> Sponge!XorInto(st.s, st.pos, rest), pos |-> st.pos + Len(rest)]
    BY <1>4, <1>9, <2>1, AbsorbPart
  <2> QED
    BY <1>9, <2>1, <2>2, Zenon
<1>11. Sponge!keccak_absorb_once(in) = Sponge!Padded(s, l)
  <2>1. PICK e : e = Sponge!keccak_absorb(Start, in)
    OBVIOUS
  <2>2. e = [s |-> s, pos |-> l]
    BY <1>8, <1>10, <2>1, Zenon
  <2> HIDE DEF s
  <2>3. e.s = s /\ e.pos = l
    BY <2>2
  <2>4. Sponge!keccak_absorb_once(in) = Sponge!Padded(e.s, e.pos)
    BY <2>1, OnceAbsorbs
  <2> QED
    BY <2>3, <2>4, Zenon
<1>12. block \in Seq(B) /\ Len(block) = Rate /\ \A i \in 1 .. Rate : block[i] = pad[m + i]
  <2>1. n \in 1 .. n /\ n - 1 = q
    BY <1>1
  <2>2. /\ RateBlock(pad, n) \in Seq(B) /\ Len(RateBlock(pad, n)) = Rate
        /\ \A i \in 1 .. Rate : RateBlock(pad, n)[i] = pad[(n - 1) * Rate + i]
    BY <1>1, <1>2, <2>1, BlockType
  <2> QED
    BY <2>1, <2>2, Zenon DEF m
<1> HIDE DEF block, s, st
<1>13. IsLast(block, rest)
  <2>1. ASSUME NEW i \in 1 .. Rate
        PROVE  block[i] = Xor(IF i <= Len(rest) THEN rest[i]
                              ELSE IF i = Len(rest) + 1 THEN Suffix ELSE ZeroByte,
                              IF i = Rate THEN LastBit ELSE ZeroByte)
    <3>1. /\ m + i \in 1 .. n * Rate
          /\ m + i <= Len(in) <=> i <= l
          /\ m + i = Len(in) + 1 <=> i = l + 1
          /\ m + i = n * Rate <=> i = Rate
          /\ i <= l => i \in 1 .. l
      BY <1>1, <1>5, SpongeSizes
    <3>2. pad[m + i] = Xor(IF m + i <= Len(in) THEN in[m + i]
                           ELSE IF m + i = Len(in) + 1 THEN Suffix ELSE ZeroByte,
                           IF m + i = n * Rate THEN LastBit ELSE ZeroByte)
      BY <1>2, <3>1, Zenon
    <3>3. i <= l => rest[i] = in[m + i]
      BY <1>4, <3>1, Zenon
    <3>4. (IF m + i <= Len(in) THEN in[m + i] ELSE IF m + i = Len(in) + 1 THEN Suffix ELSE ZeroByte)
            = (IF i <= l THEN rest[i] ELSE IF i = l + 1 THEN Suffix ELSE ZeroByte)
      BY <3>1, <3>3, Zenon
    <3>5. (IF m + i = n * Rate THEN LastBit ELSE ZeroByte) = (IF i = Rate THEN LastBit ELSE ZeroByte)
      BY <3>1, Zenon
    <3> QED
      BY <1>12, <3>2, <3>4, <3>5, Zenon DEF l
  <2> QED
    BY <1>12, <2>1, Zenon DEF IsLast
<1>14. Sponge!Padded(s, l) = Sponge!XorInto(Between(a, q), 0, block)
  <2>1. Len(rest) < Rate
    BY <1>5 DEF l
  <2>2. Sponge!Padded(Sponge!XorInto(Between(a, q), 0, rest), Len(rest))
          = Sponge!XorInto(Between(a, q), 0, block)
    BY <1>4, <1>7, <1>12, <1>13, <2>1, LastBlock
  <2> QED
    BY <2>2, Zenon DEF s, l
<1> QED
  BY <1>3, <1>7, <1>11, <1>14, Zenon DEF pad, n

\* A byte of the textbook is one of those squeezed.
LEMMA TextbookBytes ==
  ASSUME NEW B, HasBytes(B), XorLaws(B), NEW in \in Seq(B)
  PROVE  \A i : Sponge!TextbookByte(in, i) = ByteOf(Sponge!keccak_absorb_once(in), i)
BY TextbookAbsorbs, Zenon DEF Sponge!TextbookByte, ByteOf, RateBlocks

-----------------------------------------------------------------------------
(* The refinement.                                                          *)

LEMMA SpongeStreamInit == Sponge!Init => Sponge!Stream!Init
BY DEF Sponge!Init, Sponge!Stream!Init, Sponge!Phase

LEMMA SpongeRefuses ==
  ASSUME Sponge!Refused
  PROVE  Sponge!Stream!Refuse
BY DEF Sponge!Refused, Sponge!Stream!Refuse, Sponge!Phase

LEMMA SpongeStreamStep ==
  ASSUME NEW B, HasBytes(B), XorLaws(B), SpongeInv(B), [Sponge!Next]_(Sponge!vars)
  PROVE  [Sponge!Stream!Next]_(Sponge!Stream!vars)
<1>1. CASE UNCHANGED Sponge!vars
  BY <1>1 DEF Sponge!vars, Sponge!Stream!vars, Sponge!Phase
<1>2. CASE Sponge!Refused
  BY <1>2, SpongeRefuses DEF Sponge!Stream!Next
<1>3. CASE Sponge!Release
  <2>1. Sponge!Stream!Release
    BY <1>3 DEF Sponge!Release, Sponge!Stream!Release, Sponge!Phase
  <2> QED
    BY <2>1 DEF Sponge!Stream!Next
<1>4. CASE ~spongeFinalized /\ \E chunk \in SpongeInputs : Sponge!Absorb(chunk)
  <2>1. PICK chunk \in SpongeInputs : Sponge!Absorb(chunk)
    BY <1>4
  <2>2. Sponge!Stream!Absorb(chunk)
    BY <1>4, <2>1 DEF Sponge!Absorb, Sponge!Stream!Absorb, Sponge!Phase
  <2> QED
    BY <2>2 DEF Sponge!Stream!Next
<1>5. CASE ~spongeFinalized /\ Sponge!Finalize
  <2>1. Sponge!Stream!Finalize
    BY <1>5 DEF Sponge!Finalize, Sponge!Stream!Finalize, Sponge!Phase
  <2> QED
    BY <2>1 DEF Sponge!Stream!Next
<1> DEFINE f == FinalState
<1>6. spongeAbsorbed \in Seq(B) /\ \A i : Sponge!TextbookByte(spongeAbsorbed, i) = ByteOf(f, i)
  <2>1. spongeAbsorbed \in Seq(B)
    BY DEF SpongeInv
  <2> QED
    BY <2>1, TextbookBytes, Zenon DEF FinalState
<1> HIDE DEF f
<1>7. CASE spongeFinalized /\ \E n \in SpongeLengths : Sponge!Squeeze(n)
  <2>1. PICK n \in SpongeLengths : Sponge!Squeeze(n)
    BY <1>7
  <2>2. spongeGiven' = spongeGiven \o BytesOf(f, Len(spongeGiven), n)
    BY <1>7, <2>1, SqueezePreserves DEF f
  <2>3. BytesOf(f, Len(spongeGiven), n)
          = [i \in 1 .. n |-> Sponge!TextbookByte(spongeAbsorbed, Len(spongeGiven) + i)]
    BY <1>6, Zenon DEF BytesOf
  <2>4. spongeKind = "xof" /\ spongeResult' = 0
        /\ UNCHANGED <<spongeKind, spongeFinalized, spongeAbsorbed>>
    BY <1>7, <2>1, Zenon DEF Sponge!Squeeze
  <2>5. Sponge!Phase = "squeezing" /\ UNCHANGED Sponge!Phase
    BY <1>7, <2>4 DEF Sponge!Phase
  <2>6. Sponge!Stream!Squeeze(n)
    BY <2>2, <2>3, <2>4, <2>5, Zenon DEF Sponge!Stream!Squeeze
  <2> QED
    BY <2>6, Zenon DEF Sponge!Stream!Next
<1>8. CASE ~spongeFinalized /\ \E n \in SpongeLengths : Sponge!HashFinalize(n)
  <2>1. PICK n \in SpongeLengths : Sponge!HashFinalize(n)
    BY <1>8
  <2>2. spongeGiven' = BytesOf(f, 0, n)
    BY <1>8, <2>1, HashPreserves DEF f
  <2>3. BytesOf(f, 0, n) = [i \in 1 .. n |-> Sponge!TextbookDigest(spongeAbsorbed, n, i)]
    <3>1. \A i \in 1 .. n : 0 + i = i
      OBVIOUS
    <3> QED
      BY <1>6, <3>1, Zenon DEF BytesOf, Sponge!TextbookDigest
  <2>4. spongeKind = "hash" /\ spongeResult' = 0 /\ spongeFinalized' = TRUE
        /\ UNCHANGED <<spongeKind, spongeAbsorbed>>
    BY <1>8, <2>1, Zenon DEF Sponge!HashFinalize
  <2>5. Sponge!Phase = "absorbing" /\ Sponge!Phase' = "closed"
    BY <1>8, <2>4 DEF Sponge!Phase
  <2>6. Sponge!Stream!Digest(n)
    BY <2>2, <2>3, <2>4, <2>5, Zenon DEF Sponge!Stream!Digest
  <2> QED
    BY <2>6, Zenon DEF Sponge!Stream!Next
<1> QED
  BY <1>1, <1>2, <1>3, <1>4, <1>5, <1>7, <1>8, SpongeCases

\* Whatever a byte is and however the calls cut the input and the output, the
\* incremental sponge gives out the bytes of the textbook sponge, which absorbs
\* the padded input block by block and is permuted once for each block it gives.
THEOREM SpongeKeepsPromise ==
  ASSUME NEW B, HasBytes(B), XorLaws(B)
  PROVE  Sponge!Spec => SpongeImplementsStream
<1>1. Sponge!Init => Sponge!Stream!Init
  BY SpongeStreamInit
<1>2. SpongeInv(B) /\ [Sponge!Next]_(Sponge!vars) => [Sponge!Stream!Next]_(Sponge!Stream!vars)
  BY SpongeStreamStep
<1> QED
  BY <1>1, <1>2, SpongeInvariant, PTL
     DEF Sponge!Spec, SpongeImplementsStream, Sponge!ImplementsStream, Sponge!Stream!Spec
=============================================================================
