------------------------------- MODULE MCIccs -------------------------------
(***************************************************************************)
(* What iccs/ puts around the library, one part at a time.                 *)
(*                                                                         *)
(* The adapter: every length up to LenMax, on both sides of every limit,   *)
(* with a size_t narrower than the lengths of the interface.               *)
(*                                                                         *)
(* One generator: bytes of two bits, numbers of three bytes, and enough    *)
(* requests for the count to run over.                                     *)
(*                                                                         *)
(* The known-answer program over such generators: all ten records, with    *)
(* shorter seeds and messages.                                             *)
(***************************************************************************)
EXTENDS SigAdapter, DrngCalls, KnownAnswers

LOCAL INSTANCE SequencesExt

\* Some function in the place of SM3: every input byte changes every output.
MCSum(bytes) == FoldLeft(LAMBDA acc, b : (3 * acc + 7 * b + 1) % 65521, Len(bytes), bytes)
MCSm3(bytes) == [j \in 1 .. 2 |-> ((MCSum(bytes) * (2 * j + 1)) \div 7) % 4]

MCDrngSeeds == {<<1>>, <<2, 0, 1, 3>>}
MCDrngRequests == {0, 3, 5, 12}

VARIABLE running

IccsInit ==
  /\ running \in {"adapter", "generator", "answers"}
  /\ Init /\ DrngInit /\ KatInit

IccsNext ==
  /\ UNCHANGED running
  /\ \/ running = "adapter" /\ Next /\ UNCHANGED <<drngVars, katVars>>
     \/ running = "generator" /\ DrngNext /\ UNCHANGED <<vars, katVars>>
     \/ running = "answers" /\ KatNext /\ UNCHANGED <<vars, drngVars>>

IccsSpec == IccsInit /\ [][IccsNext]_<<running, vars, drngVars, katVars>>
=============================================================================
