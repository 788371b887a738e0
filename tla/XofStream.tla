----------------------------- MODULE XofStream -----------------------------
(***************************************************************************)
(* What trine_xof_* and trine_hash_* promise, whichever primitive is built *)
(* in: the bytes a state gives out are a function of the bytes it took in. *)
(* How the calls cut the input and the output does not matter, a call that *)
(* fails gives nothing, and a state broken by a failure gives nothing more.*)
(***************************************************************************)
EXTENDS Integers, Sequences

CONSTANTS
  Inputs,              \* chunks a caller absorbs
  Lengths,             \* numbers of bytes a caller asks for
  StreamByte(_, _),    \* (input, i): byte i of the output, from 1
  DigestByte(_, _, _)  \* (input, n, i): byte i of the digest of n bytes

VARIABLES
  phase,     \* "absorbing", "squeezing", "closed" or "broken"
  absorbed,  \* the bytes taken in
  given,     \* the bytes given out
  result     \* what the last call returned

vars == <<phase, absorbed, given, result>>

Init == phase = "absorbing" /\ absorbed = <<>> /\ given = <<>> /\ result = 0

Absorb(chunk) ==
  /\ phase = "absorbing"
  /\ absorbed' = absorbed \o chunk
  /\ result' = 0
  /\ UNCHANGED <<phase, given>>

Finalize ==
  /\ phase = "absorbing"
  /\ phase' = "squeezing"
  /\ result' = 0
  /\ UNCHANGED <<absorbed, given>>

Squeeze(n) ==
  /\ phase = "squeezing"
  /\ given' = given \o [i \in 1 .. n |-> StreamByte(absorbed, Len(given) + i)]
  /\ result' = 0
  /\ UNCHANGED <<phase, absorbed>>

Digest(n) ==
  /\ phase = "absorbing"
  /\ given' = [i \in 1 .. n |-> DigestByte(absorbed, n, i)]
  /\ phase' = "closed"
  /\ result' = 0
  /\ UNCHANGED absorbed

\* Asked for no bytes, a broken state obliges.
SqueezeNothing ==
  /\ phase = "broken"
  /\ result' = 0
  /\ UNCHANGED <<phase, absorbed, given>>

Refuse ==
  /\ result' = -1
  /\ UNCHANGED <<phase, absorbed, given>>

Break ==
  /\ phase' = "broken"
  /\ result' = -1
  /\ UNCHANGED <<absorbed, given>>

Release ==
  /\ phase' = "absorbing" /\ absorbed' = <<>> /\ given' = <<>> /\ result' = 0

Next ==
  \/ \E chunk \in Inputs : Absorb(chunk)
  \/ \E n \in Lengths : Squeeze(n) \/ Digest(n)
  \/ Finalize \/ SqueezeNothing \/ Refuse \/ Break \/ Release

Spec == Init /\ [][Next]_vars
=============================================================================
