---------------------------- MODULE TrineScheme ----------------------------
(***************************************************************************)
(* What key generation, signing and verification of TRINE share: the       *)
(* parameters of params.h, the symbolic algebra the three handlers         *)
(* compute with, the challenges, and the hash that derives them.           *)
(*                                                                         *)
(* Field elements are abstracted away.  A vector, a trilinear form and a   *)
(* matrix are opaque values; the only fact the protocol relies on is that  *)
(* the canonical form of a form at a point does not change when the form   *)
(* is pulled back and the point is moved by the inverse matrix, and that   *)
(* is the assumption Equivariance.  The output of an XOF is the tuple of   *)
(* what was absorbed: equal inputs give equal streams, and streams of      *)
(* different inputs are told apart.  That no two transcripts have the same *)
(* digest, and that forms of different keys or points of different streams *)
(* do not meet by chance, are the assumptions HashAssumption, OrbitsDiffer *)
(* and StreamsDiffer; what is said about acceptance rests on them.         *)
(***************************************************************************)
EXTENDS TrineChallenges, Sequences

CONSTANTS
  Messages,           \* byte strings a caller signs, <<>> among them
  SecretSeeds,        \* values of secret_seed
  RoundSeeds, Salts,  \* values randombytes hands to crypto_sign
  StrayDigests,       \* digests that no transcript hashes to
  Vectors,            \* F_q^n
  TriForms,           \* trilinear forms, canonical ones among them
  Degenerate,         \* canonical_form_vartime returned -1
  Raw,                \* memory holding no value of this call
  MaxAttempts,        \* bound: candidates looked at in one round
  Pullback(_, _, _, _),  \* triform_action_pullback(M, A, B, C)
  InverseTimes(_, _),    \* A^-1 * v
  Candidate(_, _, _),    \* (form, stream, n): n-th corank-one vector drawn
  CanonicalForm(_, _),   \* (form, vector), or Degenerate
  Hash(_),               \* digest of a transcript
  Preimage(_)            \* the transcript of a digest: no two have the same

Attempts == 0 .. MaxAttempts

-----------------------------------------------------------------------------
(* Expansion of seeds.  Purpose, index and seed are all absorbed, so one    *)
(* seed gives independent streams for each of its uses.                     *)

Expand(purpose, index, seed) == <<purpose, index, seed>>

PublicSeed(secret) == Expand("public_seed", 0, secret)
BaseForm(public)   == Expand("base_form", 0, public)
SecretMatrix(secret, role, index) == Expand(role, index, secret)

\* The XOF a round draws its candidates from.
RoundStream(salt, seed, round) == <<"round", salt, seed, round>>

NonbaseForm(secret, index) ==
  Pullback(BaseForm(PublicSeed(secret)),
           SecretMatrix(secret, "A", index),
           SecretMatrix(secret, "B", index),
           SecretMatrix(secret, "C", index))

PublicKey(secret) ==
  [seed  |-> PublicSeed(secret),
   forms |-> [i \in FormIndex |-> NonbaseForm(secret, i)],
   canonical |-> TRUE]

PublicKeys == {PublicKey(s) : s \in SecretSeeds}

-----------------------------------------------------------------------------
(* The challenge oracle.                                                    *)

\* oracle remembers the challenges each digest was parsed to.  trine_parse_hash
\* is a deterministic function of the digest; which one is left open, and is
\* chosen the first time a digest is seen.
VARIABLE oracle

ParseHash(digest, ch) ==
  /\ ch \in Challenges
  /\ digest \in DOMAIN oracle => ch = oracle[digest]
  /\ oracle' = [d \in DOMAIN oracle \cup {digest} |->
                  IF d = digest THEN ch ELSE oracle[d]]

OracleType == oracle \in [DOMAIN oracle -> Challenges]

-----------------------------------------------------------------------------
(* The transcript is the list of chunks absorbed into the hash.  A message  *)
(* of length zero is not absorbed.                                          *)

Chunks == Messages \cup TriForms
\* mutant: the message is forgotten
MessageChunk_None(msg) == <<>>
MessageChunk(msg) == IF Len(msg) # 0 THEN <<msg>> ELSE <<>>

Transcript(msg, forms) == MessageChunk(msg) \o forms

-----------------------------------------------------------------------------
ASSUME BoundAssumption == MaxAttempts \in Nat

\* The points crypto_sign can commit to under a key.
RoundPoints(secret) ==
  {Candidate(BaseForm(PublicSeed(secret)), RoundStream(salt, seed, j), n) :
     salt \in Salts, seed \in RoundSeeds, j \in Rounds, n \in Attempts}

ASSUME AlgebraAssumption ==
  /\ Degenerate \notin TriForms
  /\ \A s \in SecretSeeds :
       /\ BaseForm(PublicSeed(s)) \in TriForms
       /\ RoundPoints(s) \subseteq Vectors
       /\ \A i \in FormIndex, v \in RoundPoints(s) :
            InverseTimes(SecretMatrix(s, "A", i), v) \in Vectors
       /\ \A i \in FormIndex : NonbaseForm(s, i) \in TriForms
       /\ \A v \in Vectors :
            CanonicalForm(BaseForm(PublicSeed(s)), v) \in TriForms \cup {Degenerate}
       /\ \A i \in FormIndex, v \in Vectors :
            CanonicalForm(NonbaseForm(s, i), v) \in TriForms \cup {Degenerate}

\* The canonical form belongs to the orbit: pulling the base form back along
\* (A, B, C) and moving the point by A^-1 leaves it unchanged.
ASSUME Equivariance ==
  \A s \in SecretSeeds : \A i \in FormIndex, v \in RoundPoints(s) :
    CanonicalForm(NonbaseForm(s, i), InverseTimes(SecretMatrix(s, "A", i), v))
      = CanonicalForm(BaseForm(PublicSeed(s)), v)

-----------------------------------------------------------------------------
(* What acceptance rests on: nothing coincides that was derived apart.      *)

\* Only the empty message has length zero.
ASSUME MessageAssumption == \A m \in Messages : Len(m) = 0 => m = <<>>

\* The digest tells apart the transcripts a call can hash after its last round,
\* and a stray digest is none of theirs.
ASSUME HashAssumption ==
  \A m \in Messages, forms \in [1 .. R -> TriForms] :
    /\ Preimage(Hash(Transcript(m, forms))) = Transcript(m, forms)
    /\ Hash(Transcript(m, forms)) \notin StrayDigests

\* A form in the orbit of a key is in the orbit of no other: no point of
\* another key's forms leads to its canonical forms.
ASSUME OrbitsDiffer ==
  \A s, other \in SecretSeeds : \A p \in RoundPoints(s), v \in Vectors :
    LET form == CanonicalForm(BaseForm(PublicSeed(s)), p) IN
      form # Degenerate /\ other # s =>
        /\ CanonicalForm(BaseForm(PublicSeed(other)), v) # form
        /\ \A i \in FormIndex : CanonicalForm(NonbaseForm(other, i), v) # form

\* Under one key, the streams of two seeds or salts lead a round to different
\* canonical forms.
ASSUME StreamsDiffer ==
  \A s \in SecretSeeds, j \in Rounds :
    LET Form(t, seed, n) ==
          CanonicalForm(BaseForm(PublicSeed(s)),
                        Candidate(BaseForm(PublicSeed(s)), RoundStream(t, seed, j), n))
    IN \A t, u \in Salts, seed, other \in RoundSeeds, n, m \in Attempts :
         Form(t, seed, n) # Degenerate /\ Form(t, seed, n) = Form(u, other, m)
           => t = u /\ seed = other
=============================================================================
