--------------------------- MODULE TrineParseHash ---------------------------
(***************************************************************************)
(* trine_parse_hash: turn a digest into the challenges of a signature by   *)
(* rejection sampling.  K times, draw positions until one is in range and  *)
(* still free, then draw values until one is in range.  raw holds 0 where  *)
(* nothing was selected, so that the challenge X - raw is BaseIndex there. *)
(*                                                                         *)
(* Each squeeze may return any masked value, or fail.                      *)
(***************************************************************************)
EXTENDS TrineChallenges

CONSTANT Untouched   \* the caller's array before the call

VARIABLES
  ppc,        \* where the call is; "idle" outside a call
  selected,   \* the loop counter
  position,   \* the position found last
  raw,
  parsedOut,  \* out
  pResult,    \* what the call returned
  xofHeld     \* the call holds an XOF state

vars == <<ppc, selected, position, raw, parsedOut, pResult, xofHeld>>

bit_length[v \in Nat] == IF v < 2 THEN 1 ELSE 1 + bit_length[v \div 2]

PositionBits == bit_length[R - 1]
ValueBits    == bit_length[X]

\* The values of sample_masked_le.
Samples(bits) == 0 .. (2 ^ bits - 1)

NothingSelected == [j \in Rounds |-> 0]

Init ==
  /\ ppc = "idle" /\ selected = 0 /\ position = 0
  /\ raw = NothingSelected
  /\ parsedOut = Untouched /\ pResult = -1 /\ xofHeld = FALSE

\* A null pointer or a length that does not fit the parameters ends the call
\* at once.  The caller's array is a fresh one.
Call(badArgument) ==
  /\ ppc = "idle"
  /\ parsedOut' = Untouched
  /\ pResult' = -1
  /\ ppc' = IF badArgument THEN "idle" ELSE "absorb"
  /\ UNCHANGED <<selected, position, raw, xofHeld>>

\* The loop ends when K positions have been selected.
LoopFrom(count) == IF count < K THEN "position" ELSE "copy"

AbsorbDigest ==
  /\ ppc = "absorb"
  /\ xofHeld' = TRUE
  /\ selected' = 0 /\ raw' = NothingSelected
  /\ ppc' = LoopFrom(0)
  /\ UNCHANGED <<position, parsedOut, pResult>>

\* mutants: a position may be selected twice; only a taken one is accepted
Refused_Range(sample) == sample >= R
Refused_Free(sample) == sample >= R \/ raw[sample] = 0
Refused(sample) == sample >= R \/ raw[sample] # 0

DrawPosition(sample) ==
  /\ ppc = "position"
  /\ IF Refused(sample)
       THEN UNCHANGED <<ppc, position>>
       ELSE position' = sample /\ ppc' = "value"
  /\ UNCHANGED <<selected, raw, parsedOut, pResult, xofHeld>>

Unusable(sample) == sample = 0 \/ sample > X

DrawValue(sample) ==
  /\ ppc = "value"
  /\ IF Unusable(sample)
       THEN UNCHANGED <<ppc, selected, raw>>
       ELSE /\ raw' = [raw EXCEPT ![position] = sample]
            /\ selected' = selected + 1
            /\ ppc' = LoopFrom(selected + 1)
  /\ UNCHANGED <<position, parsedOut, pResult, xofHeld>>

Copy ==
  /\ ppc = "copy"
  /\ parsedOut' = [j \in Rounds |-> X - raw[j]]
  /\ xofHeld' = FALSE
  /\ pResult' = 0
  /\ ppc' = "idle"
  /\ UNCHANGED <<selected, position, raw>>

\* The XOF fails: it is released, and nothing is written.
\* mutant: what was parsed so far is handed out
Fail_Writes ==
  /\ ppc \in {"absorb", "position", "value"}
  /\ xofHeld' = FALSE
  /\ ppc' = "idle"
  /\ parsedOut' = [j \in Rounds |-> X - raw[j]]
  /\ UNCHANGED <<selected, position, raw, pResult>>

Fail ==
  /\ ppc \in {"absorb", "position", "value"}
  /\ xofHeld' = FALSE
  /\ ppc' = "idle"
  /\ UNCHANGED <<selected, position, raw, parsedOut, pResult>>

Draws ==
  \/ \E sample \in Samples(PositionBits) : DrawPosition(sample)
  \/ \E sample \in Samples(ValueBits) : DrawValue(sample)

Next ==
  \/ \E badArgument \in BOOLEAN : Call(badArgument)
  \/ AbsorbDigest \/ Draws \/ Copy \/ Fail

Spec == Init /\ [][Next]_vars

\* Every position and every value comes up again and again in the stream of a
\* digest.
StreamFairness ==
  /\ WF_vars(AbsorbDigest) /\ WF_vars(Copy)
  /\ \A j \in Rounds : SF_vars(DrawPosition(j))
  /\ \A v \in 1 .. X : SF_vars(DrawValue(v))

FairSpec == Spec /\ StreamFairness

-----------------------------------------------------------------------------
\* Every variable has its type.
TypeOK ==
  /\ ppc \in {"idle", "absorb", "position", "value", "copy"}
  /\ selected \in 0 .. K /\ position \in Rounds
  /\ raw \in [Rounds -> 0 .. X]
  /\ parsedOut \in ChallengeVectors \cup {Untouched}
  /\ pResult \in {0, -1} /\ xofHeld \in BOOLEAN

\* The positions selected so far.
Selected == {j \in Rounds : raw[j] # 0}

\* The loop counter counts the positions filled, and the position whose value
\* is being drawn is a free one: without this the loop could leave fewer than
\* K answers for a signature to carry, and crypto_sign would refuse its own
\* digest.
SelectedCounts ==
  /\ ppc \in {"position", "value", "copy"} => Cardinality(Selected) = selected
  /\ ppc = "value" => raw[position] = 0 /\ selected < K
  /\ ppc = "position" => selected < K
  /\ ppc = "copy" => selected = K

\* A call that returns 0 has written a challenge vector with exactly K
\* non-base entries, one that does not has written nothing, and neither keeps
\* an XOF state: this is all that crypto_sign and crypto_sign_verify rely on.
ParsedIsChallenge ==
  ppc = "idle" =>
    /\ pResult = 0 => parsedOut \in Challenges
    /\ pResult # 0 => parsedOut = Untouched
    /\ ~xofHeld

\* A call with good arguments ends, and when no squeeze fails that is with
\* challenges: a free position is left whenever one is drawn, and the masks
\* let every position and some value through.
ParsingEnds == ppc = "absorb" ~> ppc = "idle"
=============================================================================
