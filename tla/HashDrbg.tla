------------------------------ MODULE HashDrbg ------------------------------
(***************************************************************************)
(* What a hash generator promises, with numbers in place of bytes: a       *)
(* request gets the leading bits of the hashes of V, V + 1, ..., stored    *)
(* most significant bit first and filled up with zeros to a whole byte,    *)
(* and moves V by the hash of V, the constant C and the count.             *)
(***************************************************************************)
EXTENDS Integers, Sequences

CONSTANTS
  Seeds, Requests,   \* of the caller; a request is a number of bits
  ByteBits, HashBits,
  Modulus,           \* of V, C and the count
  Seed(_),           \* V for a seed
  Constant(_),       \* C for V
  Hash(_, _),        \* (V, i): bit i of the hash of V, from 1
  Shift(_)           \* the hash of V as a number, behind the tag 3

VARIABLES V, C, count, output, result,
          outOfMemory   \* some allocation of the last call failed

vars == <<V, C, count, output, result, outOfMemory>>

Number == 0 .. Modulus - 1

Init == V = 0 /\ C = 0 /\ count = 0 /\ output = <<>> /\ result = 0 /\ outOfMemory = FALSE

Instantiate(seed) ==
  /\ V' = Seed(seed) /\ C' = Constant(V') /\ count' = 1
  /\ output' = <<>> /\ result' = 0 /\ outOfMemory' = FALSE

\* Without memory the result may say so or not; the state is some state.
InstantiateWithoutMemory ==
  /\ V' \in Number /\ C' \in Number /\ count' \in {0, 1}
  /\ output' = <<>> /\ result' \in {0, -2} /\ outOfMemory' = TRUE

Whole(bits) == ((bits + ByteBits - 1) \div ByteBits) * ByteBits

Generate(bits) ==
  /\ output' = [k \in 1 .. Whole(bits) |->
                 IF k > bits THEN 0
                 ELSE Hash((V + (k - 1) \div HashBits) % Modulus, ((k - 1) % HashBits) + 1)]
  /\ V' = (V + Shift(V) + C + count) % Modulus
  /\ count' = (count + 1) % Modulus
  /\ result' = 0 /\ outOfMemory' = FALSE
  /\ UNCHANGED C

Next ==
  \/ \E seed \in Seeds : Instantiate(seed)
  \/ InstantiateWithoutMemory
  \/ \E bits \in Requests : Generate(bits)

Spec == Init /\ [][Next]_vars
=============================================================================
