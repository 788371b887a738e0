------------------------------ MODULE CtrDrbg ------------------------------
(***************************************************************************)
(* The generator of randombytes.c.  Its only state is the global DRBG_ctx, *)
(* from which every caller in the program draws: a key, and a counter V of *)
(* BlockBytes bytes that is encrypted block by block.  Three blocks behind *)
(* those of a request become the next key and counter.                     *)
(*                                                                         *)
(* AES is not interpreted: a block is named by the counter it comes from,  *)
(* a new key by its number, and a new counter can be any.                  *)
(***************************************************************************)
EXTENDS Integers, Sequences, FiniteSets

CONSTANTS
  BlockBytes,   \* also of V
  Base,         \* values of a byte
  MaxRequest,   \* bytes a caller asks for
  MaxKey        \* bound on the keys of a behaviour

Counters == [1 .. BlockBytes -> 0 .. Base - 1]

\* The blocks of a request and of the update behind it are no more than the
\* counter has values: 2^60 + 3 against 2^128 in the program.
ASSUME CounterAssumption ==
  /\ {BlockBytes, Base, MaxRequest, MaxKey} \subseteq Nat \ {0}
  /\ MaxRequest \div BlockBytes + 4 <= Cardinality(Counters)

VARIABLES
  stage,           \* "unseeded", "idle", "blocks" or "update"
  Key, V, reseed_counter,
  xlen,            \* what is left of the request
  x,               \* the bytes written
  temp,            \* the blocks of the update
  requested,       \* what xlen was
  encrypted        \* the counters encrypted under Key, in this order

drbgVars == <<stage, Key, V, reseed_counter, xlen, x, temp, requested, encrypted>>

\* mutant: the carry ends at the last byte
Incremented_LastByte(v) == [v EXCEPT ![BlockBytes] = (@ + 1) % Base]
Incremented(v) ==
  [j \in 1 .. BlockBytes |->
    IF \A k \in j + 1 .. BlockBytes : v[k] = Base - 1 THEN (v[j] + 1) % Base ELSE v[j]]

DrbgInit ==
  /\ stage = "unseeded"
  /\ Key = 0 /\ V = [j \in 1 .. BlockBytes |-> 0] /\ reseed_counter = 0
  /\ xlen = 0 /\ x = <<>> /\ temp = <<>> /\ requested = 0 /\ encrypted = <<>>

\* A new key and counter, from the seed material alone.
randombytes_init ==
  /\ stage \in {"unseeded", "idle"} /\ Key < MaxKey
  /\ Key' = Key + 1 /\ V' \in Counters
  /\ reseed_counter' = 1
  /\ stage' = "idle"
  /\ encrypted' = <<>>
  /\ xlen' = 0 /\ x' = <<>> /\ temp' = <<>> /\ requested' = 0

randombytes(length) ==
  /\ stage = "idle" /\ Key < MaxKey
  /\ xlen' = length /\ requested' = length /\ x' = <<>>
  /\ stage' = "blocks"
  /\ UNCHANGED <<Key, V, reseed_counter, temp, encrypted>>

\* The bytes of a block that are copied.
\* mutant: always the whole block
Copied_Whole == BlockBytes
Copied == IF xlen > BlockBytes - 1 THEN BlockBytes ELSE xlen

Encrypt ==
  /\ V' = Incremented(V)
  /\ encrypted' = Append(encrypted, V')

NextBlock ==
  /\ stage = "blocks" /\ xlen > 0
  /\ Encrypt
  /\ x' = x \o [j \in 1 .. Copied |-> <<V', j>>]
  /\ xlen' = IF xlen > BlockBytes - 1 THEN xlen - BlockBytes ELSE 0
  /\ UNCHANGED <<stage, Key, reseed_counter, temp, requested>>

UpdateBlock ==
  /\ stage = "blocks" /\ xlen = 0 /\ Len(temp) < 3
  /\ Encrypt
  /\ temp' = Append(temp, V')
  /\ UNCHANGED <<stage, Key, reseed_counter, xlen, x, requested>>

Replace ==
  /\ stage = "blocks" /\ xlen = 0 /\ Len(temp) = 3
  /\ Key' = Key + 1 /\ V' \in Counters
  /\ reseed_counter' = reseed_counter + 1
  /\ stage' = "idle"
  /\ encrypted' = <<>> /\ temp' = <<>>
  /\ UNCHANGED <<xlen, x, requested>>

DrbgNext ==
  \/ randombytes_init
  \/ \E length \in 0 .. MaxRequest : randombytes(length)
  \/ NextBlock \/ UpdateBlock \/ Replace

DrbgSpec == DrbgInit /\ [][DrbgNext]_drbgVars

-----------------------------------------------------------------------------
\* Under one key no counter is encrypted twice, from wherever it started and
\* whatever carries it took: two callers of the one generator never get the
\* same block, and none gets a block the next key is made of.
NoBlockTwice ==
  \A j, k \in DOMAIN encrypted : encrypted[j] = encrypted[k] => j = k

\* A caller gets exactly as many bytes as it asked for, of the request's own
\* blocks from their first byte on, and the update has only later blocks.
RequestFilled ==
  stage = "blocks" =>
    /\ Len(x) + xlen = requested
    /\ \A j \in DOMAIN x :
         x[j] = <<encrypted[((j - 1) \div BlockBytes) + 1], ((j - 1) % BlockBytes) + 1>>
    /\ temp = SubSeq(encrypted, Len(encrypted) - Len(temp) + 1, Len(encrypted))
    /\ (Len(encrypted) - Len(temp)) * BlockBytes < Len(x) + BlockBytes
=============================================================================
