--------------------------- MODULE SamplingProofs ---------------------------
(***************************************************************************)
(* trine_parse_hash returns challenges with exactly K non-base entries,    *)
(* whatever the digest and whichever squeeze fails.                        *)
(*                                                                         *)
(* The generator all seeds come from encrypts no counter twice under one   *)
(* key, and a request gets the bytes it asked for.  The first is a fact    *)
(* about the carry: a set of counters that holds the successor of each of  *)
(* its members is empty or holds them all.  The counters between two equal *)
(* ones would be such a set, and there are fewer of them than counters.    *)
(***************************************************************************)
EXTENDS TrineParseHash, CtrDrbg, NumberInduction, SequenceTheorems

-----------------------------------------------------------------------------
(* trine_parse_hash.                                                        *)

PInv ==
  /\ TypeOK /\ SelectedCounts /\ ParsedIsChallenge
  /\ ppc \in {"idle", "absorb"} => ~xofHeld
  /\ ppc # "idle" => parsedOut = Untouched /\ pResult = -1

-----------------------------------------------------------------------------
(* Positions.                                                               *)

LEMMA SelectedFinite == IsFiniteSet(Selected) /\ Cardinality(Selected) \in Nat
<1>1. IsFiniteSet(Rounds)
  BY FS_Interval, ParametersAssumption DEF Rounds
<1>2. IsFiniteSet(Selected)
  BY <1>1, FS_Subset DEF Selected
<1> QED
  BY <1>2, FS_CardinalityType

\* Filling a free position adds it to the selected ones, and only it.
LEMMA OneMoreSelected ==
  ASSUME TypeOK, raw[position] = 0, NEW sample \in 1 .. X,
         raw' = [raw EXCEPT ![position] = sample]
  PROVE  Cardinality(Selected') = Cardinality(Selected) + 1
<1>1. position \in Rounds /\ raw \in [Rounds -> 0 .. X] /\ sample # 0
  BY DEF TypeOK
<1>2. Selected' = Selected \cup {position} /\ position \notin Selected
  BY <1>1 DEF Selected
<1> QED
  BY <1>2, SelectedFinite, FS_AddElement

\* The entries of X - raw below X are those of the selected positions.
LEMMA ChallengesOfRaw ==
  ASSUME TypeOK, Cardinality(Selected) = K
  PROVE  [j \in Rounds |-> X - raw[j]] \in Challenges
<1> DEFINE ch == [j \in Rounds |-> X - raw[j]]
<1>1. raw \in [Rounds -> 0 .. X] /\ X \in Nat
  BY ParametersAssumption DEF TypeOK
<1>2. ch \in ChallengeVectors
  BY <1>1 DEF ChallengeVectors
<1>3. {j \in Rounds : ch[j] < X} = Selected
  BY <1>1 DEF Selected
<1>4. Cardinality({j \in Rounds : ch[j] < X}) = K
  BY <1>3, Zenon
<1> QED
  BY <1>2, <1>4 DEF Challenges

-----------------------------------------------------------------------------
LEMMA ParseInit == Init => PInv
<1> SUFFICES ASSUME Init PROVE PInv
  OBVIOUS
<1>1. 0 \in Rounds /\ 0 \in 0 .. K /\ 0 \in 0 .. X
  BY ParametersAssumption DEF Rounds
<1>2. raw \in [Rounds -> 0 .. X]
  BY <1>1 DEF Init, NothingSelected
<1>3. TypeOK
  BY <1>1, <1>2 DEF Init, TypeOK
<1>4. SelectedCounts /\ ParsedIsChallenge
  BY DEF Init, SelectedCounts, ParsedIsChallenge
<1> QED
  BY <1>3, <1>4 DEF Init, PInv

LEMMA ParseCall ==
  ASSUME PInv, NEW badArgument \in BOOLEAN, Call(badArgument)
  PROVE  PInv'
BY DEF PInv, TypeOK, SelectedCounts, ParsedIsChallenge, Call, Selected

LEMMA ParseAbsorb ==
  ASSUME PInv, AbsorbDigest
  PROVE  PInv'
<1>1. K \in Nat /\ X \in Nat
  BY ParametersAssumption
<1>2. raw' = NothingSelected /\ selected' = 0 /\ ppc' \in {"position", "copy"}
      /\ (ppc' = "position" => 0 < K) /\ (ppc' = "copy" => 0 = K)
      /\ UNCHANGED <<position, parsedOut, pResult>> /\ xofHeld' = TRUE
      /\ parsedOut = Untouched /\ pResult = -1
  BY <1>1 DEF AbsorbDigest, LoopFrom, PInv
<1>3. TypeOK'
  BY <1>1, <1>2 DEF PInv, TypeOK, NothingSelected
<1>4. Selected' = {}
  BY <1>2 DEF Selected, NothingSelected
<1>5. Cardinality(Selected') = 0
  BY <1>4, FS_EmptySet, Zenon
<1> QED
  BY <1>2, <1>3, <1>5 DEF PInv, SelectedCounts, ParsedIsChallenge

LEMMA ParseDrawPosition ==
  ASSUME PInv, NEW sample \in Samples(PositionBits), DrawPosition(sample)
  PROVE  PInv'
<1>1. Selected' = Selected
  BY DEF DrawPosition, Selected
<1>2. sample \in Int /\ 0 <= sample /\ R \in Nat
  BY ParametersAssumption DEF Samples
<1>3. CASE Refused(sample)
  BY <1>1, <1>3 DEF PInv, TypeOK, SelectedCounts, ParsedIsChallenge, DrawPosition
<1>4. CASE ~Refused(sample)
  <2>1. sample \in Rounds /\ raw[sample] = 0
    BY <1>2, <1>4 DEF Refused, Rounds
  <2> QED
    BY <1>1, <1>4, <2>1 DEF PInv, TypeOK, SelectedCounts, ParsedIsChallenge, DrawPosition
<1> QED
  BY <1>3, <1>4

LEMMA ParseDrawValue ==
  ASSUME PInv, NEW sample \in Samples(ValueBits), DrawValue(sample)
  PROVE  PInv'
<1>1. sample \in Int /\ 0 <= sample /\ X \in Nat /\ K \in Nat
  BY ParametersAssumption DEF Samples
<1>2. CASE Unusable(sample)
  <2>1. Selected' = Selected
    BY <1>2 DEF DrawValue, Selected
  <2> QED
    BY <1>2, <2>1 DEF PInv, TypeOK, SelectedCounts, ParsedIsChallenge, DrawValue
<1>3. CASE ~Unusable(sample)
  <2>1. /\ sample \in 1 .. X /\ raw[position] = 0 /\ selected < K /\ selected \in 0 .. K
        /\ raw' = [raw EXCEPT ![position] = sample]
        /\ selected' = selected + 1 /\ ppc' \in {"position", "copy"}
        /\ (ppc' = "position" => selected + 1 < K) /\ (ppc' = "copy" => ~(selected + 1 < K))
        /\ UNCHANGED <<position, parsedOut, pResult, xofHeld>>
        /\ parsedOut = Untouched /\ pResult = -1 /\ Cardinality(Selected) = selected
    BY <1>1, <1>3 DEF PInv, TypeOK, SelectedCounts, DrawValue, LoopFrom, Unusable
  <2>2. TypeOK'
    BY <1>1, <2>1 DEF PInv, TypeOK
  <2>3. Cardinality(Selected') = selected'
    BY <2>1, OneMoreSelected DEF PInv
  <2> QED
    BY <1>1, <2>1, <2>2, <2>3 DEF PInv, SelectedCounts, ParsedIsChallenge
<1> QED
  BY <1>2, <1>3

LEMMA ParseCopy ==
  ASSUME PInv, Copy
  PROVE  PInv'
<1>1. Cardinality(Selected) = K
  BY DEF PInv, SelectedCounts, Copy
<1>2. parsedOut' \in Challenges
  BY <1>1, ChallengesOfRaw DEF PInv, Copy
<1>3. parsedOut' \in ChallengeVectors
  BY <1>2 DEF Challenges
<1> QED
  BY <1>2, <1>3 DEF PInv, TypeOK, SelectedCounts, ParsedIsChallenge, Copy

LEMMA ParseFail ==
  ASSUME PInv, Fail
  PROVE  PInv'
<1>1. ppc' = "idle" /\ xofHeld' = FALSE /\ parsedOut' = Untouched /\ pResult' = -1
      /\ UNCHANGED <<selected, position, raw>>
  BY DEF PInv, Fail
<1>2. TypeOK'
  BY <1>1 DEF PInv, TypeOK
<1>3. SelectedCounts' /\ ParsedIsChallenge'
  BY <1>1 DEF SelectedCounts, ParsedIsChallenge
<1> QED
  BY <1>1, <1>2, <1>3 DEF PInv

LEMMA ParseStep == PInv /\ [Next]_vars => PInv'
<1> SUFFICES ASSUME PInv, [Next]_vars PROVE PInv'
  OBVIOUS
<1>1. CASE UNCHANGED vars
  BY <1>1 DEF PInv, TypeOK, SelectedCounts, ParsedIsChallenge, Selected, vars
<1>2. CASE Next
  BY <1>2, ParseCall, ParseAbsorb, ParseDrawPosition, ParseDrawValue, ParseCopy, ParseFail
     DEF Next, Draws
<1> QED
  BY <1>1, <1>2

-----------------------------------------------------------------------------
LEMMA ParseInvariant == Spec => []PInv
BY ParseInit, ParseStep, PTL DEF Spec

\* The loop counter counts the filled positions, so the K-th iteration is the
\* last and none overwrites an earlier one.
THEOREM SelectionCounts == Spec => [](TypeOK /\ SelectedCounts)
<1>1. PInv => TypeOK /\ SelectedCounts
  BY DEF PInv
<1> QED
  BY <1>1, ParseInvariant, PTL

\* trine_parse_hash returns challenges or leaves no trace, for all R, K and X.
THEOREM ParsesToChallenges == Spec => []ParsedIsChallenge
<1>1. PInv => ParsedIsChallenge
  BY DEF PInv
<1> QED
  BY <1>1, ParseInvariant, PTL

-----------------------------------------------------------------------------
(* The carry.                                                               *)

\* v with e at p and d behind it; v with d behind p.
Mixed(v, p, e, d) ==
  [j \in 1 .. BlockBytes |-> IF j < p THEN v[j] ELSE IF j = p THEN e ELSE d]
Tailed(v, p, d) == [j \in 1 .. BlockBytes |-> IF j <= p THEN v[j] ELSE d]

LEMMA Sizes ==
  /\ BlockBytes \in Nat /\ BlockBytes >= 1 /\ Base \in Nat /\ Base >= 1
  /\ MaxRequest \in Nat /\ MaxKey \in Nat
BY CounterAssumption

LEMMA IncrementedType ==
  ASSUME NEW v \in Counters
  PROVE  Incremented(v) \in Counters
BY Sizes DEF Counters, Incremented

LEMMA MixedType ==
  ASSUME NEW v \in Counters, NEW p \in 0 .. BlockBytes, NEW e \in 0 .. Base - 1,
         NEW d \in 0 .. Base - 1
  PROVE  Mixed(v, p, e, d) \in Counters /\ Tailed(v, p, d) \in Counters
BY Sizes DEF Counters, Mixed, Tailed

\* The two forms, one in terms of the other.
LEMMA MixedTailed ==
  ASSUME NEW v \in Counters, NEW p \in 1 .. BlockBytes, NEW e, NEW d, NEW f
  PROVE  /\ Tailed(v, p, d) = Mixed(v, p, v[p], d)
         /\ Tailed(Mixed(v, p, e, f), p, d) = Mixed(v, p, e, d)
         /\ Tailed(v, p - 1, d) = Mixed(v, p, d, d)
BY Sizes DEF Counters, Mixed, Tailed

LEMMA TailedAtEnd ==
  ASSUME NEW v \in Counters, NEW d
  PROVE  Tailed(v, BlockBytes, d) = v
BY Sizes DEF Counters, Tailed

\* The increment clears the digits that are full at the end and adds one to
\* the digit before them.
LEMMA Carry ==
  ASSUME NEW v \in Counters, NEW p \in 1 .. BlockBytes, NEW e \in 0 .. Base - 1, e # Base - 1
  PROVE  Incremented(Mixed(v, p, e, Base - 1)) = Mixed(v, p, e + 1, 0)
<1> DEFINE u == Mixed(v, p, e, Base - 1)
<1>1. u \in Counters
  BY MixedType, Sizes
<1>2. ASSUME NEW j \in 1 .. BlockBytes
      PROVE  Incremented(u)[j] = Mixed(v, p, e + 1, 0)[j]
  <2>1. CASE j < p
    <3>1. p \in j + 1 .. BlockBytes /\ u[p] # Base - 1 /\ u[j] = v[j]
      BY <2>1, Sizes DEF Mixed
    <3> QED
      BY <2>1, <3>1 DEF Incremented, Mixed
  <2>2. CASE j = p
    <3>1. (\A k \in j + 1 .. BlockBytes : u[k] = Base - 1) /\ u[j] = e
      BY <2>2, Sizes DEF Mixed
    <3>2. (e + 1) % Base = e + 1
      BY Sizes
    <3> QED
      BY <2>2, <3>1, <3>2 DEF Incremented, Mixed
  <2>3. CASE j > p
    <3>1. (\A k \in j + 1 .. BlockBytes : u[k] = Base - 1) /\ u[j] = Base - 1
      BY <2>3, Sizes DEF Mixed
    <3>2. (Base - 1 + 1) % Base = 0
      BY Sizes
    <3> QED
      BY <2>3, <3>1, <3>2, Sizes DEF Incremented, Mixed
  <2> QED
    BY <2>1, <2>2, <2>3, Sizes
<1>3. /\ Incremented(u) = [j \in 1 .. BlockBytes |-> Incremented(u)[j]]
      /\ Mixed(v, p, e + 1, 0) = [j \in 1 .. BlockBytes |-> Mixed(v, p, e + 1, 0)[j]]
  BY DEF Incremented, Mixed
<1> HIDE DEF u
<1>4. Incremented(u) = Mixed(v, p, e + 1, 0)
  BY <1>2, <1>3
<1> QED
  BY <1>4 DEF u

\* The counter of full digits overflows to zero.
LEMMA Overflow ==
  Incremented([j \in 1 .. BlockBytes |-> Base - 1]) = [j \in 1 .. BlockBytes |-> 0]
<1>1. (Base - 1 + 1) % Base = 0
  BY Sizes
<1> QED
  BY <1>1, Sizes DEF Incremented

-----------------------------------------------------------------------------
(* Sets of counters the increment does not leave, and sets it does not      *)
(* enter.                                                                   *)

Rises(C) == C \subseteq Counters /\ \A v \in C : Incremented(v) \in C
Falls(C) == C \subseteq Counters /\ \A v \in Counters : Incremented(v) \in C => v \in C

\* One digit counts up to the full one, if those behind it do.
LEMMA DigitRises ==
  ASSUME NEW C, Rises(C), NEW p \in 1 .. BlockBytes,
         \A v \in C : Tailed(v, p, Base - 1) \in C,
         NEW v \in C
  PROVE  Tailed(v, p - 1, Base - 1) \in C
<1>1. v \in Counters /\ v[p] \in 0 .. Base - 1
  BY DEF Rises, Counters
<1> DEFINE S == {k \in Nat : v[p] + k <= Base - 1 => Mixed(v, p, v[p] + k, Base - 1) \in C}
<1>2. 0 \in S
  <2>1. Tailed(v, p, Base - 1) = Mixed(v, p, v[p], Base - 1)
    BY <1>1, MixedTailed
  <2> QED
    BY <1>1, <2>1
<1>3. ASSUME NEW k \in Nat, k \in S
      PROVE  k + 1 \in S
  <2> DEFINE e == v[p] + k
  <2> SUFFICES ASSUME v[p] + (k + 1) <= Base - 1
               PROVE  Mixed(v, p, v[p] + (k + 1), Base - 1) \in C
    OBVIOUS
  <2>1. e \in 0 .. Base - 1 /\ e # Base - 1 /\ e + 1 \in 0 .. Base - 1 /\ e + 1 = v[p] + (k + 1)
    BY <1>1, Sizes
  <2>2. Mixed(v, p, e, Base - 1) \in C
    BY <1>3, <2>1
  <2> HIDE DEF e
  <2>3. Mixed(v, p, e + 1, 0) \in C
    <3>1. Incremented(Mixed(v, p, e, Base - 1)) = Mixed(v, p, e + 1, 0)
      BY <1>1, <2>1, Carry
    <3> QED
      BY <2>2, <3>1 DEF Rises
  <2>4. Tailed(Mixed(v, p, e + 1, 0), p, Base - 1) = Mixed(v, p, e + 1, Base - 1)
    BY <1>1, MixedTailed
  <2> QED
    BY <2>1, <2>3, <2>4
<1>4. \A k \in Nat : k \in S
  <2> HIDE DEF S
  <2> QED
    BY <1>2, <1>3, NumbersByInduction
<1>5. Mixed(v, p, Base - 1, Base - 1) \in C
  <2>1. PICK k \in Nat : v[p] + k = Base - 1
    <3>1. Base - 1 - v[p] \in Nat /\ v[p] + (Base - 1 - v[p]) = Base - 1
      BY <1>1, Sizes
    <3> QED
      BY <3>1
  <2>2. v[p] + k <= Base - 1
    BY <2>1, Sizes
  <2> QED
    BY <1>4, <2>1, <2>2
<1>6. Tailed(v, p - 1, Base - 1) = Mixed(v, p, Base - 1, Base - 1)
  BY <1>1, MixedTailed
<1> QED
  BY <1>5, <1>6

\* Backwards, one digit counts down to zero, if those behind it do.
LEMMA DigitFalls ==
  ASSUME NEW C, Falls(C), NEW p \in 1 .. BlockBytes,
         \A v \in C : Tailed(v, p, 0) \in C,
         NEW v \in C
  PROVE  Tailed(v, p - 1, 0) \in C
<1>1. v \in Counters /\ v[p] \in 0 .. Base - 1 /\ C \subseteq Counters
  BY DEF Falls, Counters
<1> DEFINE S == {k \in Nat : k <= v[p] => Mixed(v, p, v[p] - k, 0) \in C}
<1>2. 0 \in S
  <2>1. Tailed(v, p, 0) = Mixed(v, p, v[p], 0)
    BY <1>1, MixedTailed
  <2>2. v[p] - 0 = v[p]
    BY <1>1
  <2> QED
    BY <1>1, <2>1, <2>2
<1>3. ASSUME NEW k \in Nat, k \in S
      PROVE  k + 1 \in S
  <2> DEFINE e == v[p] - (k + 1)
  <2> SUFFICES ASSUME k + 1 <= v[p]
               PROVE  Mixed(v, p, e, 0) \in C
    OBVIOUS
  <2>1. e \in 0 .. Base - 1 /\ e # Base - 1 /\ e + 1 = v[p] - k /\ k <= v[p]
    BY <1>1, Sizes
  <2>2. Mixed(v, p, e + 1, 0) \in C
    BY <1>3, <2>1
  <2> HIDE DEF e
  <2>3. Mixed(v, p, e, Base - 1) \in C
    <3>1. Incremented(Mixed(v, p, e, Base - 1)) = Mixed(v, p, e + 1, 0)
      BY <1>1, <2>1, Carry
    <3>2. Mixed(v, p, e, Base - 1) \in Counters
      BY <1>1, <2>1, MixedType, Sizes
    <3> QED
      BY <2>2, <3>1, <3>2 DEF Falls
  <2>4. Tailed(Mixed(v, p, e, Base - 1), p, 0) = Mixed(v, p, e, 0)
    BY <1>1, MixedTailed
  <2> QED
    BY <2>3, <2>4
<1>4. \A k \in Nat : k \in S
  <2> HIDE DEF S
  <2> QED
    BY <1>2, <1>3, NumbersByInduction
<1>5. Mixed(v, p, 0, 0) \in C
  <2>1. v[p] \in Nat /\ v[p] - v[p] = 0
    BY <1>1, Sizes
  <2>2. v[p] \in S
    <3> HIDE DEF S
    <3> QED
      BY <1>4, <2>1
  <2> QED
    BY <2>1, <2>2
<1>6. Tailed(v, p - 1, 0) = Mixed(v, p, 0, 0)
  BY <1>1, MixedTailed
<1> QED
  BY <1>5, <1>6

\* What holds from the last digit on, digit by digit, holds of the whole counter.
LEMMA WholeCounter ==
  ASSUME NEW C, C \subseteq Counters, NEW d, NEW v \in C,
         \A p \in 1 .. BlockBytes :
           (\A u \in C : Tailed(u, p, d) \in C) => \A u \in C : Tailed(u, p - 1, d) \in C
  PROVE  [j \in 1 .. BlockBytes |-> d] \in C
<1> DEFINE S == {n \in Nat : n <= BlockBytes =>
                   \A u \in C : Tailed(u, BlockBytes - n, d) \in C}
<1>1. 0 \in S
  <2>1. BlockBytes - 0 = BlockBytes
    BY Sizes
  <2> QED
    BY <2>1, TailedAtEnd
<1>2. ASSUME NEW n \in Nat, n \in S
      PROVE  n + 1 \in S
  <2> SUFFICES ASSUME n + 1 <= BlockBytes
               PROVE  \A u \in C : Tailed(u, BlockBytes - (n + 1), d) \in C
    OBVIOUS
  <2>1. BlockBytes - n \in 1 .. BlockBytes /\ BlockBytes - (n + 1) = (BlockBytes - n) - 1
        /\ n <= BlockBytes
    BY Sizes
  <2> QED
    BY <1>2, <2>1
<1>3. BlockBytes \in S
  <2> HIDE DEF S
  <2> QED
    BY <1>1, <1>2, NumbersByInduction, Sizes
<1>4. BlockBytes - BlockBytes = 0 /\ BlockBytes <= BlockBytes
  BY Sizes
<1>5. Tailed(v, 0, d) \in C
  BY <1>3, <1>4
<1>6. Tailed(v, 0, d) = [j \in 1 .. BlockBytes |-> d]
  BY Sizes DEF Tailed
<1> QED
  BY <1>5, <1>6

\* The increment leads from every counter to every other.
LEMMA OneCycle ==
  ASSUME NEW C, Rises(C), C # {}
  PROVE  C = Counters
<1>1. C \subseteq Counters
  BY DEF Rises
<1>2. [j \in 1 .. BlockBytes |-> 0] \in C
  <2>1. [j \in 1 .. BlockBytes |-> Base - 1] \in C
    BY <1>1, DigitRises, WholeCounter
  <2> QED
    BY <2>1, Overflow DEF Rises
<1>3. Falls(Counters \ C)
  BY DEF Rises, Falls
<1>4. ASSUME Counters \ C # {}
      PROVE  [j \in 1 .. BlockBytes |-> 0] \in Counters \ C
  <2> DEFINE D == Counters \ C
  <2>1. D # {} /\ D \subseteq Counters /\ Falls(D)
    BY <1>3, <1>4
  <2> HIDE DEF D
  <2>2. [j \in 1 .. BlockBytes |-> 0] \in D
    BY <2>1, DigitFalls, WholeCounter
  <2> QED
    BY <2>2 DEF D
<1> QED
  BY <1>1, <1>2, <1>4

-----------------------------------------------------------------------------
(* The invariant of the generator.                                          *)

DrbgType ==
  /\ stage \in {"unseeded", "idle", "blocks"}
  /\ V \in Counters /\ xlen \in Nat /\ requested \in 0 .. MaxRequest
  /\ encrypted \in Seq(Counters) /\ temp \in Seq(Counters)
  /\ x \in Seq(Counters \X (1 .. BlockBytes))

\* The blocks that were for the request.
RequestBlocks == Len(encrypted) - Len(temp)

\* Each counter is the one behind the counter before it.
Chained ==
  /\ \A j \in 1 .. Len(encrypted) - 1 : encrypted[j + 1] = Incremented(encrypted[j])
  /\ encrypted # <<>> => V = encrypted[Len(encrypted)]

\* Whole blocks until the last, and only then those of the update.
Filling ==
  /\ stage # "blocks" => encrypted = <<>> /\ temp = <<>>
  /\ Len(temp) <= 3 /\ RequestBlocks \in Nat
  /\ \A j \in 1 .. Len(temp) : temp[j] = encrypted[RequestBlocks + j]
  /\ stage = "blocks" =>
       /\ Len(x) + xlen = requested
       /\ Len(x) <= RequestBlocks * BlockBytes
       /\ RequestBlocks * BlockBytes < Len(x) + BlockBytes
       /\ xlen > 0 => temp = <<>> /\ Len(x) = RequestBlocks * BlockBytes
       /\ \A j \in 1 .. Len(x) :
            x[j] = <<encrypted[((j - 1) \div BlockBytes) + 1], ((j - 1) % BlockBytes) + 1>>

DrbgInv == DrbgType /\ Chained /\ Filling

\* The byte at a place of a block.
LEMMA PlaceInBlock ==
  ASSUME NEW n \in Nat, NEW i \in 0 .. BlockBytes - 1
  PROVE  (n * BlockBytes + i) \div BlockBytes = n /\ (n * BlockBytes + i) % BlockBytes = i
BY Sizes

\* The block of a byte.
LEMMA BlockOfByte ==
  ASSUME NEW n \in Nat, NEW j \in Nat, j < n * BlockBytes
  PROVE  j \div BlockBytes \in 0 .. n - 1 /\ j % BlockBytes \in 0 .. BlockBytes - 1
BY Sizes

LEMMA FewerBlocks ==
  ASSUME NEW m \in Nat, NEW n \in Nat, n * BlockBytes < m + BlockBytes, m <= MaxRequest
  PROVE  n <= (MaxRequest \div BlockBytes) + 1
BY Sizes

\* One block more.
LEMMA Encrypted ==
  ASSUME DrbgType, Chained, Encrypt
  PROVE  /\ V' \in Counters /\ encrypted' \in Seq(Counters)
         /\ Len(encrypted') = Len(encrypted) + 1
         /\ \A j \in 1 .. Len(encrypted) : encrypted'[j] = encrypted[j]
         /\ encrypted'[Len(encrypted) + 1] = V'
         /\ Chained'
<1>1. V' = Incremented(V) /\ V' \in Counters
  BY IncrementedType DEF Encrypt, DrbgType
<1>2. encrypted \in Seq(Counters) /\ encrypted' = Append(encrypted, V')
  BY DEF Encrypt, DrbgType
<1>3. /\ encrypted' \in Seq(Counters)
      /\ Len(encrypted') = Len(encrypted) + 1
      /\ \A j \in 1 .. Len(encrypted) : encrypted'[j] = encrypted[j]
      /\ encrypted'[Len(encrypted) + 1] = V'
  BY <1>1, <1>2, AppendProperties
<1>4. Len(encrypted) \in Nat /\ (encrypted # <<>> <=> Len(encrypted) # 0)
  BY <1>2, EmptySeq
<1>5. ASSUME NEW j \in 1 .. Len(encrypted') - 1
      PROVE  encrypted'[j + 1] = Incremented(encrypted'[j])
  <2>1. CASE j = Len(encrypted)
    BY <1>1, <1>3, <1>4, <1>5, <2>1 DEF Chained
  <2>2. CASE j # Len(encrypted)
    <3>1. j \in 1 .. Len(encrypted) - 1 /\ j + 1 \in 1 .. Len(encrypted) /\ j \in 1 .. Len(encrypted)
      BY <1>3, <1>4, <1>5, <2>2
    <3> QED
      BY <1>3, <3>1 DEF Chained
  <2> QED
    BY <2>1, <2>2
<1> QED
  BY <1>1, <1>3, <1>5 DEF Chained

LEMMA DrbgStarts ==
  ASSUME DrbgInit
  PROVE  DrbgInv
<1>1. V \in Counters
  BY Sizes DEF DrbgInit, Counters
<1> QED
  BY <1>1, Sizes, EmptySeq DEF DrbgInit, DrbgInv, DrbgType, Chained, Filling, RequestBlocks

LEMMA InitKeeps ==
  ASSUME DrbgInv, randombytes_init
  PROVE  DrbgInv'
BY Sizes, EmptySeq
DEF randombytes_init, DrbgInv, DrbgType, Chained, Filling, RequestBlocks

LEMMA RequestKeeps ==
  ASSUME DrbgInv, NEW length \in 0 .. MaxRequest, randombytes(length)
  PROVE  DrbgInv'
BY Sizes, EmptySeq
DEF randombytes, DrbgInv, DrbgType, Chained, Filling, RequestBlocks

LEMMA ReplaceKeeps ==
  ASSUME DrbgInv, Replace
  PROVE  DrbgInv'
BY Sizes, EmptySeq
DEF Replace, DrbgInv, DrbgType, Chained, Filling, RequestBlocks

LEMMA UpdateKeeps ==
  ASSUME DrbgInv, UpdateBlock
  PROVE  DrbgInv'
<1>1. DrbgType /\ Chained /\ Filling /\ Encrypt
  BY DEF DrbgInv, UpdateBlock
<1>2. /\ V' \in Counters /\ encrypted' \in Seq(Counters)
      /\ Len(encrypted') = Len(encrypted) + 1
      /\ \A j \in 1 .. Len(encrypted) : encrypted'[j] = encrypted[j]
      /\ encrypted'[Len(encrypted) + 1] = V'
      /\ Chained'
  BY <1>1, Encrypted
<1>3. /\ temp' \in Seq(Counters) /\ Len(temp') = Len(temp) + 1
      /\ \A j \in 1 .. Len(temp) : temp'[j] = temp[j]
      /\ temp'[Len(temp) + 1] = V'
  <2>1. temp' = Append(temp, V') /\ temp \in Seq(Counters)
    BY <1>1 DEF UpdateBlock, DrbgType
  <2> QED
    BY <1>2, <2>1, AppendProperties
<1>4. Len(temp) \in Nat /\ Len(temp) < 3 /\ Len(encrypted) \in Nat /\ RequestBlocks \in Nat
      /\ RequestBlocks' = RequestBlocks /\ RequestBlocks = Len(encrypted) - Len(temp)
  <2>1. Len(temp) \in Nat /\ Len(encrypted) \in Nat
    BY <1>1 DEF DrbgType
  <2>2. Len(temp) < 3
    BY DEF UpdateBlock
  <2>3. RequestBlocks \in Nat
    BY <1>1 DEF Filling
  <2>4. Len(encrypted') = Len(encrypted) + 1 /\ Len(temp') = Len(temp) + 1
    BY <1>2, <1>3
  <2>5. RequestBlocks' = RequestBlocks /\ RequestBlocks = Len(encrypted) - Len(temp)
    BY <2>1, <2>4 DEF RequestBlocks
  <2> QED
    BY <2>1, <2>2, <2>3, <2>5
<1>5. stage = "blocks" /\ xlen = 0 /\ UNCHANGED <<stage, xlen, x, requested>>
  BY DEF UpdateBlock
<1>6. DrbgType'
  BY <1>1, <1>2, <1>3, <1>5 DEF DrbgType
<1>7. ASSUME NEW j \in 1 .. Len(temp')
      PROVE  temp'[j] = encrypted'[RequestBlocks' + j]
  <2>1. CASE j = Len(temp) + 1
    <3>1. RequestBlocks + j = Len(encrypted) + 1
      BY <1>4, <2>1
    <3> QED
      BY <1>2, <1>3, <1>4, <2>1, <3>1
  <2>2. CASE j # Len(temp) + 1
    <3>1. j \in 1 .. Len(temp) /\ RequestBlocks + j \in 1 .. Len(encrypted)
      BY <1>3, <1>4, <2>2
    <3>2. temp[j] = encrypted[RequestBlocks + j]
      BY <1>1, <3>1 DEF Filling
    <3> QED
      BY <1>2, <1>3, <1>4, <3>1, <3>2
  <2> QED
    BY <2>1, <2>2
<1>8. ASSUME NEW j \in 1 .. Len(x)
      PROVE  x[j] = <<encrypted'[((j - 1) \div BlockBytes) + 1], ((j - 1) % BlockBytes) + 1>>
  <2>1. Len(x) \in Nat /\ Len(x) <= RequestBlocks * BlockBytes
    BY <1>1, <1>5 DEF DrbgType, Filling
  <2>2. j - 1 \in Nat /\ j - 1 < RequestBlocks * BlockBytes
    BY <1>4, <2>1, Sizes
  <2>3. ((j - 1) \div BlockBytes) + 1 \in 1 .. Len(encrypted)
    BY <1>4, <2>2, BlockOfByte
  <2>4. x[j] = <<encrypted[((j - 1) \div BlockBytes) + 1], ((j - 1) % BlockBytes) + 1>>
    BY <1>1, <1>5 DEF Filling
  <2> QED
    BY <1>2, <2>3, <2>4
<1>9. Filling'
  BY <1>1, <1>3, <1>4, <1>5, <1>7, <1>8 DEF Filling
<1> QED
  BY <1>2, <1>6, <1>9 DEF DrbgInv

LEMMA BlockKeeps ==
  ASSUME DrbgInv, NextBlock
  PROVE  DrbgInv'
<1>1. DrbgType /\ Chained /\ Filling /\ Encrypt
  BY DEF DrbgInv, NextBlock
<1>2. /\ V' \in Counters /\ encrypted' \in Seq(Counters)
      /\ Len(encrypted') = Len(encrypted) + 1
      /\ \A j \in 1 .. Len(encrypted) : encrypted'[j] = encrypted[j]
      /\ encrypted'[Len(encrypted) + 1] = V'
      /\ Chained'
  BY <1>1, Encrypted
<1>3. stage = "blocks" /\ xlen > 0 /\ xlen \in Nat /\ UNCHANGED <<stage, temp, requested>>
  BY <1>1 DEF NextBlock, DrbgType
<1>4. Copied \in 1 .. BlockBytes /\ Copied <= xlen /\ xlen' = xlen - Copied
      /\ (xlen' > 0 => Copied = BlockBytes)
  BY <1>3, Sizes DEF NextBlock, Copied
<1>5. /\ temp = <<>> /\ Len(temp) = 0 /\ RequestBlocks = Len(encrypted) /\ RequestBlocks \in Nat
      /\ RequestBlocks' = RequestBlocks + 1
      /\ Len(x) = RequestBlocks * BlockBytes /\ Len(x) + xlen = requested
  <2>1. temp = <<>> /\ Len(temp) = 0
    BY <1>1, <1>3, EmptySeq DEF Filling, DrbgType
  <2> QED
    BY <1>1, <1>2, <1>3, <2>1 DEF Filling, RequestBlocks, DrbgType
<1>6. /\ x' \in Seq(Counters \X (1 .. BlockBytes))
      /\ Len(x') = Len(x) + Copied
      /\ \A j \in 1 .. Len(x) : x'[j] = x[j]
      /\ \A j \in Len(x) + 1 .. Len(x) + Copied : x'[j] = <<V', j - Len(x)>>
  <2> DEFINE block == [j \in 1 .. Copied |-> <<V', j>>]
  <2>1. x' = x \o block /\ x \in Seq(Counters \X (1 .. BlockBytes))
    BY <1>1 DEF NextBlock, DrbgType
  <2>2. block \in [1 .. Copied -> Counters \X (1 .. BlockBytes)]
    BY <1>2, <1>4, Sizes
  <2>3. block \in Seq(Counters \X (1 .. BlockBytes)) /\ Len(block) = Copied
    <3> HIDE DEF block
    <3>1. Copied \in Nat
      BY <1>4, Sizes
    <3> QED
      BY <2>2, <3>1
  <2>4. \A j \in 1 .. Copied : block[j] = <<V', j>>
    OBVIOUS
  <2> HIDE DEF block
  <2>5. /\ x' \in Seq(Counters \X (1 .. BlockBytes))
        /\ Len(x') = Len(x) + Len(block)
        /\ \A j \in 1 .. Len(x) + Len(block) :
             x'[j] = IF j <= Len(x) THEN x[j] ELSE block[j - Len(x)]
    BY <2>1, <2>3, ConcatProperties
  <2>6. Len(x) \in Nat
    BY <2>1
  <2>7. ASSUME NEW j \in Len(x) + 1 .. Len(x) + Copied
        PROVE  x'[j] = <<V', j - Len(x)>>
    <3>1. j \in 1 .. Len(x) + Len(block) /\ ~(j <= Len(x)) /\ j - Len(x) \in 1 .. Copied
      BY <2>3, <2>6, <1>4
    <3> QED
      BY <2>4, <2>5, <3>1
  <2>8. ASSUME NEW j \in 1 .. Len(x)
        PROVE  x'[j] = x[j]
    BY <2>3, <2>5, <2>6, <1>4, Sizes
  <2> QED
    BY <2>3, <2>5, <2>7, <2>8
<1>7. DrbgType'
  BY <1>1, <1>2, <1>3, <1>4, <1>6 DEF DrbgType
<1>8. ASSUME NEW j \in 1 .. Len(x')
      PROVE  x'[j] = <<encrypted'[((j - 1) \div BlockBytes) + 1], ((j - 1) % BlockBytes) + 1>>
  <2>1. Len(x) \in Nat
    BY <1>5, Sizes
  <2>2. CASE j <= Len(x)
    <3>1. j \in 1 .. Len(x) /\ j - 1 \in Nat /\ j - 1 < RequestBlocks * BlockBytes
      BY <1>5, <2>1, <2>2, Sizes
    <3>2. ((j - 1) \div BlockBytes) + 1 \in 1 .. Len(encrypted)
      BY <1>5, <3>1, BlockOfByte
    <3>3. x[j] = <<encrypted[((j - 1) \div BlockBytes) + 1], ((j - 1) % BlockBytes) + 1>>
      BY <1>1, <1>3, <3>1 DEF Filling
    <3> QED
      BY <1>2, <1>6, <3>1, <3>2, <3>3
  <2>3. CASE ~(j <= Len(x))
    <3>1. PICK i \in 0 .. BlockBytes - 1 : j = Len(x) + i + 1
      <4> DEFINE i == j - 1 - Len(x)
      <4>1. i \in 0 .. BlockBytes - 1 /\ j = Len(x) + i + 1
        <5>1. j \in Int /\ j <= Len(x) + Copied /\ Copied \in Int /\ Copied <= BlockBytes
          BY <1>4, <1>6, <2>1, Sizes
        <5> QED
          BY <2>1, <2>3, <5>1, Sizes
      <4> HIDE DEF i
      <4> QED
        BY <4>1
    <3>2. j - 1 = RequestBlocks * BlockBytes + i /\ j \in Len(x) + 1 .. Len(x) + Copied
          /\ j - Len(x) = i + 1
      BY <1>5, <1>4, <1>6, <2>1, <3>1, Sizes
    <3>3. (j - 1) \div BlockBytes = RequestBlocks /\ (j - 1) % BlockBytes = i
      BY <1>5, <3>2, PlaceInBlock
    <3> QED
      BY <1>2, <1>5, <1>6, <3>2, <3>3, SMTT(30)
  <2> QED
    BY <2>2, <2>3
<1>9. Filling'
  <2>1. (RequestBlocks + 1) * BlockBytes = RequestBlocks * BlockBytes + BlockBytes
    BY <1>5, Sizes
  <2>2. Len(x') + xlen' = requested' /\ Len(x') <= RequestBlocks' * BlockBytes
        /\ RequestBlocks' * BlockBytes < Len(x') + BlockBytes
        /\ (xlen' > 0 => Len(x') = RequestBlocks' * BlockBytes)
    <3>1. Len(x) \in Nat /\ RequestBlocks * BlockBytes \in Nat
      BY <1>5, Sizes
    <3> HIDE DEF RequestBlocks
    <3>2. Len(x') + xlen' = requested'
      BY <1>3, <1>4, <1>5, <1>6, <3>1
    <3>3. Len(x') = RequestBlocks * BlockBytes + Copied
      BY <1>5, <1>6
    <3>4. RequestBlocks' * BlockBytes = RequestBlocks * BlockBytes + BlockBytes
      BY <1>5, <2>1
    <3> DEFINE start == RequestBlocks * BlockBytes
    <3>5. start \in Nat /\ Len(x') = start + Copied
          /\ RequestBlocks' * BlockBytes = start + BlockBytes
      BY <3>1, <3>3, <3>4
    <3> HIDE DEF start
    <3> QED
      BY <1>4, <3>2, <3>5, Sizes
  <2> QED
    BY <1>3, <1>5, <1>8, <2>2 DEF Filling
<1> QED
  BY <1>2, <1>7, <1>9 DEF DrbgInv

LEMMA DrbgStep ==
  ASSUME DrbgInv, [DrbgNext]_drbgVars
  PROVE  DrbgInv'
<1>1. CASE UNCHANGED drbgVars
  BY <1>1 DEF drbgVars, DrbgInv, DrbgType, Chained, Filling, RequestBlocks
<1> QED
  BY <1>1, InitKeeps, RequestKeeps, BlockKeeps, UpdateKeeps, ReplaceKeeps DEF DrbgNext

LEMMA DrbgInvHolds == DrbgSpec => []DrbgInv
<1>1. DrbgInit => DrbgInv
  BY DrbgStarts
<1>2. DrbgInv /\ [DrbgNext]_drbgVars => DrbgInv'
  BY DrbgStep
<1> QED
  BY <1>1, <1>2, PTL DEF DrbgSpec

-----------------------------------------------------------------------------
(* What follows.                                                            *)

\* Between the blocks of a request and those of an update there is no more
\* than CounterAssumption counts.
LEMMA BlocksOfAKey ==
  ASSUME DrbgInv
  PROVE  Len(encrypted) \in Nat /\ Len(encrypted) <= (MaxRequest \div BlockBytes) + 4
<1>1. Len(encrypted) \in Nat /\ Len(temp) \in Nat /\ Len(x) \in Nat
  BY DEF DrbgInv, DrbgType
<1>2. CASE stage # "blocks"
  <2>1. Len(encrypted) = 0
    BY <1>2, EmptySeq DEF DrbgInv, Filling
  <2>2. MaxRequest \div BlockBytes \in Nat
    BY Sizes
  <2> QED
    BY <2>1, <2>2
<1>3. CASE stage = "blocks"
  <2>1. RequestBlocks \in Nat /\ Len(temp) <= 3 /\ Len(x) + xlen = requested
        /\ RequestBlocks * BlockBytes < Len(x) + BlockBytes
    BY <1>3 DEF DrbgInv, Filling
  <2>2. Len(x) <= MaxRequest
    BY <1>1, <2>1, Sizes DEF DrbgInv, DrbgType
  <2>3. RequestBlocks <= (MaxRequest \div BlockBytes) + 1
    BY <1>1, <2>1, <2>2, FewerBlocks
  <2>4. Len(encrypted) = RequestBlocks + Len(temp)
    BY <1>1 DEF RequestBlocks
  <2>5. MaxRequest \div BlockBytes \in Nat
    BY Sizes
  <2> HIDE DEF RequestBlocks
  <2> QED
    BY <1>1, <2>1, <2>3, <2>4, <2>5
<1> QED
  BY <1>2, <1>3

\* Two equal counters of a chain have all counters between them, and the
\* chain is too short for that.
LEMMA ChainHasNoCycle ==
  ASSUME DrbgInv
  PROVE  NoBlockTwice
<1>1. encrypted \in Seq(Counters) /\ Len(encrypted) \in Nat /\ DOMAIN encrypted = 1 .. Len(encrypted)
  BY DEF DrbgInv, DrbgType
<1>2. ASSUME NEW j \in 1 .. Len(encrypted), NEW k \in 1 .. Len(encrypted), j < k,
             encrypted[j] = encrypted[k]
      PROVE  FALSE
  <2> DEFINE Between == j .. (k - 1)
             C == {encrypted[i] : i \in Between}
  <2>1. C \subseteq Counters /\ encrypted[j] \in C
    <3>1. Between \subseteq 1 .. Len(encrypted) /\ j \in Between
      BY <1>1, <1>2
    <3> QED
      BY <1>1, <3>1
  <2>2. ASSUME NEW i \in Between
        PROVE  Incremented(encrypted[i]) \in C
    <3>1. i \in 1 .. Len(encrypted) - 1
      BY <1>1, <1>2
    <3>2. Incremented(encrypted[i]) = encrypted[i + 1]
      BY <3>1 DEF DrbgInv, Chained
    <3>3. CASE i = k - 1
      BY <1>1, <1>2, <2>1, <3>2, <3>3
    <3>4. CASE i # k - 1
      <4>1. i + 1 \in Between
        BY <1>1, <3>4
      <4> QED
        BY <3>2, <4>1
    <3> QED
      BY <3>3, <3>4
  <2>3. C = Counters
    <3>1. Rises(C) /\ C # {}
      BY <2>1, <2>2 DEF Rises
    <3> HIDE DEF C
    <3> QED
      BY <3>1, OneCycle
  <2>4. IsFiniteSet(C) /\ Cardinality(C) \in Nat /\ Cardinality(C) <= k - j
    <3>1. IsFiniteSet(Between) /\ Cardinality(Between) = k - j
      <4>1. j \in Int /\ k - 1 \in Int /\ j <= k - 1
        BY <1>1, <1>2
      <4> QED
        BY <1>1, <1>2, <4>1, FS_Interval
    <3>2. [i \in Between |-> encrypted[i]] \in Surjection(Between, C)
      BY DEF Surjection
    <3> HIDE DEF Between, C
    <3>3. IsFiniteSet(C) /\ Cardinality(C) <= Cardinality(Between)
      BY <3>1, <3>2, FS_Surjection
    <3> QED
      BY <3>1, <3>3, FS_CardinalityType
  <2>5. (MaxRequest \div BlockBytes) + 4 <= Cardinality(Counters)
    BY CounterAssumption
  <2>6. Len(encrypted) <= (MaxRequest \div BlockBytes) + 4
    BY BlocksOfAKey
  <2>7. MaxRequest \div BlockBytes \in Nat
    BY Sizes
  <2> HIDE DEF C
  <2> QED
    BY <1>1, <1>2, <2>3, <2>4, <2>5, <2>6, <2>7
<1> QED
  BY <1>1, <1>2 DEF NoBlockTwice

(* Under one key no counter is encrypted twice, however many bytes callers  *)
(* ask for and wherever the counter of randombytes.c starts: no two blocks  *)
(* of a request, and none of these and of the update behind it, are the     *)
(* same block.                                                              *)
THEOREM CountersDoNotRepeat == DrbgSpec => []NoBlockTwice
<1>1. DrbgInv => NoBlockTwice
  BY ChainHasNoCycle
<1> QED
  BY <1>1, DrbgInvHolds, PTL

(* A request gets the bytes it asked for, in the order of the blocks that   *)
(* are encrypted for it, and the update gets the blocks behind them.        *)
THEOREM RequestsAreFilled == DrbgSpec => []RequestFilled
<1>1. DrbgInv => RequestFilled
  <2> SUFFICES ASSUME DrbgInv, stage = "blocks"
               PROVE  /\ Len(x) + xlen = requested
                      /\ \A j \in DOMAIN x :
                           x[j] = <<encrypted[((j - 1) \div BlockBytes) + 1],
                                    ((j - 1) % BlockBytes) + 1>>
                      /\ temp = SubSeq(encrypted, Len(encrypted) - Len(temp) + 1, Len(encrypted))
                      /\ (Len(encrypted) - Len(temp)) * BlockBytes < Len(x) + BlockBytes
    BY DEF RequestFilled
  <2>1. /\ encrypted \in Seq(Counters) /\ temp \in Seq(Counters)
        /\ Len(encrypted) \in Nat /\ Len(temp) \in Nat /\ DOMAIN x = 1 .. Len(x)
    BY DEF DrbgInv, DrbgType
  <2>2. RequestBlocks \in Nat /\ Len(encrypted) = RequestBlocks + Len(temp)
    BY <2>1 DEF DrbgInv, Filling, RequestBlocks
  <2>3. temp = SubSeq(encrypted, Len(encrypted) - Len(temp) + 1, Len(encrypted))
    <3> DEFINE last == SubSeq(encrypted, RequestBlocks + 1, Len(encrypted))
    <3>1. \A j \in 1 .. Len(temp) : temp[j] = encrypted[RequestBlocks + j]
      BY DEF DrbgInv, Filling
    <3> HIDE DEF RequestBlocks
    <3>2. /\ last \in Seq(Counters) /\ Len(last) = Len(temp)
          /\ \A j \in 1 .. Len(temp) : last[j] = encrypted[RequestBlocks + j]
      <4>1. /\ RequestBlocks + 1 \in 1 .. Len(encrypted) + 1
            /\ Len(encrypted) \in RequestBlocks .. Len(encrypted)
        BY <2>1, <2>2
      <4>2. /\ last \in Seq(Counters)
            /\ Len(last) = IF RequestBlocks + 1 <= Len(encrypted)
                           THEN Len(encrypted) - (RequestBlocks + 1) + 1 ELSE 0
            /\ \A j \in 1 .. Len(encrypted) - (RequestBlocks + 1) + 1 :
                 last[j] = encrypted[RequestBlocks + 1 + j - 1]
        BY <2>1, <2>2, <4>1, SubSeqProperties
      <4>3. Len(last) = Len(temp)
        BY <2>1, <2>2, <4>2
      <4>4. ASSUME NEW j \in 1 .. Len(temp)
            PROVE  last[j] = encrypted[RequestBlocks + j]
        <5>1. j \in 1 .. Len(encrypted) - (RequestBlocks + 1) + 1
              /\ RequestBlocks + 1 + j - 1 = RequestBlocks + j
          BY <2>1, <2>2
        <5> QED
          BY <4>2, <5>1
      <4> QED
        BY <4>2, <4>3, <4>4
    <3> HIDE DEF last
    <3>3. last = temp
      BY <2>1, <3>1, <3>2, SeqEqual
    <3>4. Len(encrypted) - Len(temp) = RequestBlocks
      BY <2>1, <2>2
    <3> QED
      BY <3>3, <3>4 DEF last
  <2> QED
    BY <2>1, <2>3 DEF DrbgInv, Filling, RequestBlocks
<1> QED
  BY <1>1, DrbgInvHolds, PTL
=============================================================================
