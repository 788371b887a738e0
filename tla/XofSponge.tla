----------------------------- MODULE XofSponge -----------------------------
(***************************************************************************)
(* trine_xof_* and trine_hash_* of the SHA3 build (USE_SHA3), with the     *)
(* incremental sponge of fips202.c below them.  Nothing here can fail.     *)
(*                                                                         *)
(* The permutation is a constant; bytes have an exclusive-or with a zero.  *)
(* A while loop is the function of its states, by how often the body was   *)
(* entered; where its condition is false it stays.                         *)
(***************************************************************************)
EXTENDS Integers, Sequences

CONSTANTS
  Inputs, Lengths,      \* chunks absorbed and numbers of bytes asked for
  Rate,                 \* SHAKE256_RATE, at least 1
  Width,                \* bytes of the Keccak state, more than Rate
  Xor(_, _), Zero,      \* of bytes
  Suffix, LastBit,      \* 0x1F and 0x80
  Permute(_),           \* KeccakF1600_StatePermute
  MaxInput, MaxOutput   \* bounds: bytes absorbed and squeezed

RateFits == Rate \in Nat \ {0} /\ Width \in Nat /\ Rate < Width /\ Lengths \subseteq Nat

VARIABLES
  kind,       \* "xof" or "hash": the type of the state
  shake,      \* s and pos of the sponge
  finalized,
  absorbed, given,  \* history: the bytes taken in and given out
  result      \* what the last call returned

vars == <<kind, shake, finalized, absorbed, given, result>>

Blank == [i \in 0 .. (Width - 1) |-> Zero]

\* The bytes of in, added to s from position pos on.
XorInto(s, pos, in) ==
  [i \in DOMAIN s |-> IF i \in pos .. (pos + Len(in) - 1) THEN Xor(s[i], in[i - pos + 1])
                                                         ELSE s[i]]

keccak_absorb(st, in) ==
  LET loop[k \in Nat] ==
        IF k = 0 THEN [s |-> st.s, pos |-> st.pos, in |-> in]
        ELSE LET at   == loop[k - 1]
                 room == Rate - at.pos
             IN IF at.pos + Len(at.in) < Rate THEN at
                ELSE [s |-> Permute(XorInto(at.s, at.pos, SubSeq(at.in, 1, room))),
                      pos |-> 0, in |-> SubSeq(at.in, room + 1, Len(at.in))]
      end == loop[Len(in)]
  IN [s |-> XorInto(end.s, end.pos, end.in), pos |-> end.pos + Len(end.in)]

\* The suffix goes where the input ended, the last bit to the end of the
\* block, which may be the same byte.
Padded(s, pos) == XorInto(XorInto(s, pos, <<Suffix>>), Rate - 1, <<LastBit>>)

keccak_finalize(st) == [s |-> Padded(st.s, st.pos), pos |-> Rate]

\* The state and the output when a block, or what is left of one, is copied to
\* an output of n bytes.
Copied(t, out, n) ==
  LET left == n - Len(out)
      k == IF left < Rate - t.pos THEN left ELSE Rate - t.pos
  IN [st |-> [t EXCEPT !.pos = @ + k], out |-> out \o [i \in 1 .. k |-> t.s[t.pos + i - 1]]]

\* mutant: the rest of a block is thrown away
Refilled_Always(st) == [s |-> Permute(st.s), pos |-> 0]
Refilled(st) == IF st.pos = Rate THEN [s |-> Permute(st.s), pos |-> 0] ELSE st

keccak_squeeze(st, n) ==
  LET loop[k \in Nat] ==
        IF k = 0 THEN [st |-> st, out |-> <<>>]
        ELSE LET at == loop[k - 1]
             IN IF Len(at.out) = n THEN at ELSE Copied(Refilled(at.st), at.out, n)
  IN loop[n]

-----------------------------------------------------------------------------
(* The functions that are not incremental.                                  *)

keccak_absorb_once(in) ==
  LET loop[k \in Nat] ==
        IF k = 0 THEN [s |-> Blank, in |-> in]
        ELSE LET at == loop[k - 1]
             IN IF Len(at.in) < Rate THEN at
                ELSE [s |-> Permute(XorInto(at.s, 0, SubSeq(at.in, 1, Rate))),
                      in |-> SubSeq(at.in, Rate + 1, Len(at.in))]
      end == loop[Len(in)]
  IN Padded(XorInto(end.s, 0, end.in), Len(end.in))

keccak_squeezeblocks(s, nblocks) ==
  LET loop[k \in Nat] ==
        IF k = 0 THEN [s |-> s, out |-> <<>>]
        ELSE LET at == loop[k - 1]
                 t  == Permute(at.s)
             IN [s |-> t, out |-> at.out \o [i \in 1 .. Rate |-> t[i - 1]]]
  IN loop[nblocks]

\* mutant: the rest is squeezed from the block that was given out last
shake256_Rest(in, n) ==
  LET blocks == keccak_squeezeblocks(keccak_absorb_once(in), n \div Rate)
  IN blocks.out \o keccak_squeeze([s |-> blocks.s, pos |-> 0], n % Rate).out

shake256(in, n) ==
  LET blocks == keccak_squeezeblocks(keccak_absorb_once(in), n \div Rate)
  IN blocks.out \o keccak_squeeze([s |-> blocks.s, pos |-> Rate], n % Rate).out

-----------------------------------------------------------------------------
Init ==
  /\ kind \in {"xof", "hash"}
  /\ shake = [s |-> Blank, pos |-> 0] /\ finalized = FALSE
  /\ absorbed = <<>> /\ given = <<>> /\ result = 0

Refused == result' = -1 /\ UNCHANGED <<kind, shake, finalized, absorbed, given>>

Absorb(chunk) ==
  IF finalized THEN Refused
  ELSE /\ shake' = keccak_absorb(shake, chunk)
       /\ absorbed' = absorbed \o chunk
       /\ result' = 0
       /\ UNCHANGED <<kind, finalized, given>>

Finalize ==
  /\ kind = "xof"
  /\ IF finalized THEN Refused
     ELSE /\ shake' = keccak_finalize(shake)
          /\ finalized' = TRUE /\ result' = 0
          /\ UNCHANGED <<kind, absorbed, given>>

Squeeze(n) ==
  /\ kind = "xof"
  /\ IF ~finalized THEN Refused
     ELSE LET squeezed == keccak_squeeze(shake, n) IN
          /\ shake' = squeezed.st
          /\ given' = given \o squeezed.out
          /\ result' = 0
          /\ UNCHANGED <<kind, finalized, absorbed>>

\* trine_hash_finalize: finalize and squeeze in one call.
HashFinalize(n) ==
  /\ kind = "hash"
  /\ IF finalized THEN Refused
     ELSE LET squeezed == keccak_squeeze(keccak_finalize(shake), n) IN
          /\ shake' = squeezed.st
          /\ given' = squeezed.out
          /\ finalized' = TRUE /\ result' = 0
          /\ UNCHANGED <<kind, absorbed>>

\* release, and init again for another use.
Release ==
  /\ shake' = [s |-> Blank, pos |-> 0] /\ finalized' = FALSE
  /\ absorbed' = <<>> /\ given' = <<>> /\ result' = 0
  /\ kind' \in {"xof", "hash"}

Next ==
  \/ \E chunk \in Inputs : Len(absorbed) + Len(chunk) <= MaxInput /\ Absorb(chunk)
  \/ Finalize
  \/ \E n \in Lengths : Len(given) + n <= MaxOutput /\ (Squeeze(n) \/ HashFinalize(n))
  \/ Release

Spec == Init /\ [][Next]_vars

-----------------------------------------------------------------------------
\* The textbook sponge: pad the input to whole blocks, absorb one after the
\* other, then give out the rate of the state after each permutation.
AfterBlocks(padded, n) ==
  LET after[k \in 0 .. n] ==
        IF k = 0 THEN Blank
        ELSE XorInto(IF k = 1 THEN Blank ELSE Permute(after[k - 1]), 0,
                     SubSeq(padded, (k - 1) * Rate + 1, k * Rate))
  IN after[n]

TextbookPad(in) ==
  LET blocks == Len(in) \div Rate + 1
  IN [i \in 1 .. (blocks * Rate) |->
        Xor(IF i <= Len(in) THEN in[i] ELSE IF i = Len(in) + 1 THEN Suffix ELSE Zero,
            IF i = blocks * Rate THEN LastBit ELSE Zero)]

Permuted(s, n) ==
  LET after[k \in Nat] == IF k = 0 THEN s ELSE Permute(after[k - 1]) IN after[n]

TextbookByte(in, i) ==
  Permuted(AfterBlocks(TextbookPad(in), Len(in) \div Rate + 1), (i - 1) \div Rate + 1)
    [(i - 1) % Rate]

TextbookDigest(in, n, i) == TextbookByte(in, i)

\* However the calls cut the stream, a caller has received what shake256
\* gives for the whole input at once.
GivenIsOnce == given = shake256(absorbed, Len(given))

Phase == IF ~finalized THEN "absorbing"
         ELSE IF kind = "xof" THEN "squeezing" ELSE "closed"

Stream == INSTANCE XofStream WITH
            phase <- Phase,
            StreamByte <- TextbookByte,
            DigestByte <- TextbookDigest

\* The sponge states keep the promise of XofStream, with the bytes of the
\* textbook sponge.
ImplementsStream == Stream!Spec
=============================================================================
