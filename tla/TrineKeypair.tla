---------------------------- MODULE TrineKeypair ----------------------------
(***************************************************************************)
(* crypto_sign_keypair, one action per stage.  Every stage that calls      *)
(* something fallible (malloc, randombytes, an XOF) can leave through      *)
(* KeypairFault instead.                                                   *)
(***************************************************************************)
EXTENDS TrineScheme

VARIABLES
  kpc,       \* where crypto_sign_keypair is; "idle" outside a call
  kResult,   \* its result
  kSeed,     \* secret_seed
  kIndex,    \* i of the loop over the non-base forms
  kForms,    \* nonbase_forms
  kHeld,     \* resources the call holds
  pkOut,     \* the caller's pk buffer
  skOut      \* the caller's sk buffer

keypairVars == <<kpc, kResult, kSeed, kIndex, kForms, kHeld, pkOut, skOut>>

KeypairInit ==
  /\ kpc = "idle" /\ kResult = 0
  /\ kSeed = Raw /\ kIndex = 0 /\ kHeld = {}
  /\ kForms = [i \in FormIndex |-> Raw]
  /\ pkOut = Raw /\ skOut = Raw

\* The caller passes fresh pk and sk buffers, or a null pointer.
KeypairCall(nullPointer) ==
  /\ kpc = "idle"
  /\ kpc' = IF nullPointer THEN "cleanup" ELSE "alloc"
  /\ kResult' = -1
  /\ pkOut' = Raw /\ skOut' = Raw
  /\ UNCHANGED <<kSeed, kIndex, kForms, kHeld>>

KeypairAlloc ==
  /\ kpc = "alloc"
  /\ kHeld' = {"forms"}
  /\ kpc' = "random"
  /\ UNCHANGED <<kResult, kSeed, kIndex, kForms, pkOut, skOut>>

KeypairRandom ==
  /\ kpc = "random"
  /\ kSeed' \in SecretSeeds
  /\ kpc' = "forms"
  /\ UNCHANGED <<kResult, kIndex, kForms, kHeld, pkOut, skOut>>

\* mutant: the loop index is not passed on
NextForm_First == NonbaseForm(kSeed, 0)
NextForm == NonbaseForm(kSeed, kIndex)

\* One iteration of the loop: expand A, B and C, pull the base form back.
KeypairForm ==
  /\ kpc = "forms"
  /\ kIndex < X
  /\ kForms' = [kForms EXCEPT ![kIndex] = NextForm]
  /\ kIndex' = kIndex + 1
  /\ UNCHANGED <<kpc, kResult, kSeed, kHeld, pkOut, skOut>>

\* Encode both keys, then copy both out.
KeypairPublish ==
  /\ kpc = "forms"
  /\ kIndex = X
  /\ pkOut' = [seed |-> PublicSeed(kSeed), forms |-> kForms, canonical |-> TRUE]
  /\ skOut' = kSeed
  /\ kResult' = 0
  /\ kpc' = "cleanup"
  /\ UNCHANGED <<kSeed, kIndex, kForms, kHeld>>

\* A failing malloc leaves the others allocated; every later failure leaves
\* all of them.
KeypairFault ==
  /\ kpc \in {"alloc", "random", "forms"}
  /\ kpc = "alloc" => kHeld' \in SUBSET {"forms"}
  /\ kpc # "alloc" => kHeld' = kHeld
  /\ kpc' = "cleanup"
  /\ UNCHANGED <<kResult, kSeed, kIndex, kForms, pkOut, skOut>>

KeypairReturn ==
  /\ kpc = "cleanup"
  /\ kpc' = "idle"
  /\ kSeed' = Raw /\ kIndex' = 0
  /\ kForms' = [i \in FormIndex |-> Raw]
  /\ kHeld' = kHeld \ {"forms"}
  /\ UNCHANGED <<kResult, pkOut, skOut>>

KeypairStep ==
  \/ KeypairAlloc \/ KeypairRandom \/ KeypairForm \/ KeypairPublish
  \/ KeypairFault

KeypairTypeOK ==
  /\ kpc \in {"idle", "alloc", "random", "forms", "cleanup"}
  /\ kResult \in {0, -1} /\ kIndex \in 0 .. X /\ kHeld \subseteq {"forms"}
  /\ kSeed \in SecretSeeds \cup {Raw} /\ skOut \in SecretSeeds \cup {Raw}
  /\ kForms = [i \in FormIndex |-> kForms[i]]
=============================================================================
