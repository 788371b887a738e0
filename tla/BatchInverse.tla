---------------------------- MODULE BatchInverse ----------------------------
(***************************************************************************)
(* GF_batch_inv of field.c, one element a step: the products of the        *)
(* prefixes, one inversion, and the inverses from the last to the first.   *)
(***************************************************************************)
EXTENDS FieldMatrix

CONSTANT GivenLists  \* the sequences callers pass

ASSUME GivenListsAssumption == GivenLists \subseteq Seq(Fq)

VARIABLES
  in,          \* the elements to invert
  prefix,      \* products of the prefixes computed so far
  acc,         \* the inverse of the product of what is left
  inverses,    \* out, the caller's buffer
  batchResult  \* 1 while running

batchVars == <<in, prefix, acc, inverses, batchResult>>

\* An element of a buffer nothing was written to.
Unwritten == -1

BatchInit ==
  /\ in \in GivenLists
  /\ prefix = <<>> /\ acc = 0 /\ batchResult = 1
  /\ inverses = [i \in DOMAIN in |-> Unwritten]

Multiplying == batchResult = 1 /\ acc = 0 /\ Len(prefix) < Len(in)
Dividing == batchResult = 1 /\ acc # 0

Empty == in = <<>> /\ batchResult = 1 /\ batchResult' = 0 /\ UNCHANGED <<in, prefix, acc, inverses>>

Element == in[Len(prefix) + 1]
Product == IF prefix = <<>> THEN 1 ELSE prefix[Len(prefix)]

\* mutant: a 0 is left out of the products
Multiply_Skip ==
  /\ Multiplying
  /\ prefix' = Append(prefix, IF Element = 0 THEN Product ELSE GF_mul(Product, Element))
  /\ UNCHANGED <<in, acc, inverses, batchResult>>
Multiply ==
  /\ Multiplying
  /\ IF Element = 0
     THEN batchResult' = -1 /\ UNCHANGED prefix
     ELSE prefix' = Append(prefix, GF_mul(Product, Element)) /\ UNCHANGED batchResult
  /\ UNCHANGED <<in, acc, inverses>>

\* GF_inv_checked: the product of elements that are not 0 is not 0.
Invert ==
  /\ batchResult = 1 /\ acc = 0 /\ in # <<>> /\ Len(prefix) = Len(in)
  /\ IF prefix[Len(in)] = 0 THEN batchResult' = -1 /\ UNCHANGED acc
     ELSE acc' = GF_inv(prefix[Len(in)]) /\ UNCHANGED batchResult
  /\ UNCHANGED <<in, prefix, inverses>>

\* The last element whose inverse is not known.
Left == {i \in DOMAIN in : inverses[i] = Unwritten}
Last == CHOOSE i \in Left : \A j \in Left : j <= i

NextAcc == GF_mul(acc, in[Last])

Divide ==
  /\ Dividing /\ Left # {}
  /\ IF Last > 1
     THEN /\ inverses' = [inverses EXCEPT ![Last] = GF_mul(acc, prefix[Last - 1])]
          /\ acc' = NextAcc
          /\ UNCHANGED batchResult
     ELSE /\ inverses' = [inverses EXCEPT ![1] = acc]
          /\ batchResult' = 0
          /\ UNCHANGED acc
  /\ UNCHANGED <<in, prefix>>

BatchNext == Empty \/ Multiply \/ Invert \/ Divide

BatchSpec == BatchInit /\ [][BatchNext]_batchVars

-----------------------------------------------------------------------------
(* It succeeds exactly if no element is 0, and then every element times    *)
(* its inverse is 1; a list with a 0 leaves the caller's buffer alone all  *)
(* along, wherever the 0 is.                                               *)
InvertsAllOrNothing ==
  LET zero == \E i \in DOMAIN in : in[i] = 0
  IN /\ batchResult = 0 => \A i \in DOMAIN in : GF_mul(in[i], inverses[i]) = 1
     /\ batchResult = -1 => zero
     /\ zero => batchResult # 0 /\ \A i \in DOMAIN inverses : inverses[i] = Unwritten
=============================================================================
