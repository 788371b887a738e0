----------------------------- MODULE MCSampling -----------------------------
(***************************************************************************)
(* What draws from a stream, one at a time: trine_parse_hash, the          *)
(* expansion of seeds, and the generator all seeds come from.  The bit     *)
(* counts of a challenge are evaluated for the six parameter sets too.     *)
(***************************************************************************)
EXTENDS TrineParseHash, CtrDrbg, TrineExpand

VARIABLE running

mcVars == <<running, vars, expandVars, drbgVars>>

Parsing(A) ==
  running = "parse_hash" /\ A /\ UNCHANGED <<running, expandVars, drbgVars>>
Expanding(A) ==
  running = "expand" /\ A /\ UNCHANGED <<running, vars, drbgVars>>
Generating(A) ==
  running = "randombytes" /\ A /\ UNCHANGED <<running, vars, expandVars>>

MCInit ==
  /\ running \in {"parse_hash", "expand", "randombytes"}
  /\ Init /\ ExpandInit /\ DrbgInit

MCNext == Parsing(Next) \/ Expanding(ExpandNext) \/ Generating(DrbgNext)

\* StreamFairness and ExpandFairness: fairness of a disjunction is that of
\* the disjunct whose module is running.
MCSpec ==
  /\ MCInit /\ [][MCNext]_mcVars
  /\ WF_mcVars(Parsing(AbsorbDigest) \/ Expanding(Proceeds))
  /\ WF_mcVars(Parsing(Copy) \/ Expanding(AnyElement))
  /\ \A j \in Rounds :
       SF_mcVars(\/ Parsing(DrawPosition(j))
                 \/ j < Elements /\ Expanding(UsefulElement(j + 1)))
  /\ \A v \in 1 .. X : SF_mcVars(Parsing(DrawValue(v)))

\* TRINE_r - 1 and TRINE_X of the six parameter sets, and small numbers.
Widths == {137, 270, 533, 60, 115, 231, 1, 4} \cup 0 .. 20

ASSUME \A v \in Widths :
  /\ v < 2 ^ bit_length[v]
  /\ v > 1 => 2 ^ (bit_length[v] - 1) <= v
=============================================================================
