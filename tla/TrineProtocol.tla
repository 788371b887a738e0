--------------------------- MODULE TrineProtocol ---------------------------
(***************************************************************************)
(* A program that uses the library: it generates keys, signs messages,     *)
(* hands signatures on, perhaps damaged or with another message or another *)
(* key, and has them verified or opened.  The library has no threads, so   *)
(* one call runs at a time; every fallible step of a call may fail.        *)
(***************************************************************************)
EXTENDS TrineKeypair, TrineSign, TrineVerify

CONSTANTS
  MaxKeypairs, MaxSigns, MaxVerifies,  \* bounds on the program's calls
  Altered(_)                           \* vectors a response may be changed to

ASSUME AlteredAssumption == \A v \in Vectors : Altered(v) \subseteq Vectors

VARIABLES
  keys,      \* the key pairs crypto_sign_keypair returned
  issued,    \* what crypto_sign returned with result 0
  calls      \* how often each function was called

callerVars == <<keys, issued, calls>>
vars == <<oracle, keypairVars, signVars, verifyVars, callerVars>>

Init ==
  /\ KeypairInit /\ SignInit /\ VerifyInit
  /\ oracle = <<>>
  /\ keys = {} /\ issued = {}
  /\ calls = [keypair |-> 0, sign |-> 0, verify |-> 0]

NoCallRuns == kpc = "idle" /\ spc = "idle" /\ vpc = "idle"

-----------------------------------------------------------------------------
(* What reaches a verifier: a signature as it was issued, or one with one   *)
(* component changed on the way.                                            *)

Redigested(sig) == {[sig EXCEPT !.digest = d] : d \in StrayDigests}
Resalted(sig)   == {[sig EXCEPT !.salt = t] : t \in Salts}
Misencoded(sig) == {[sig EXCEPT !.canonical = FALSE]}
Reanswered(sig) ==
  UNION {{[sig EXCEPT !.responses[i] = v] : v \in Altered(sig.responses[i])} : i \in 1 .. K}
Reseeded(sig) ==
  {[sig EXCEPT !.seeds[i] = t] : i \in 1 .. BaseSeedCount, t \in RoundSeeds}

DamagedSignatures(sig) ==
  Redigested(sig) \cup Resalted(sig) \cup Misencoded(sig) \cup Reanswered(sig) \cup Reseeded(sig)

Deliveries ==
  [pk : {k.pk : k \in keys} \cup {[k.pk EXCEPT !.canonical = FALSE] : k \in keys},
   msg : Messages,
   sig : UNION {{e.sig} \cup DamagedSignatures(e.sig) : e \in issued}]

-----------------------------------------------------------------------------
CallKeypair ==
  /\ NoCallRuns
  /\ calls.keypair < MaxKeypairs
  /\ calls' = [calls EXCEPT !.keypair = @ + 1]
  /\ \E nullPointer \in BOOLEAN : KeypairCall(nullPointer)
  /\ UNCHANGED <<oracle, signVars, verifyVars, keys, issued>>

CallSign ==
  /\ NoCallRuns
  /\ calls.sign < MaxSigns
  /\ calls' = [calls EXCEPT !.sign = @ + 1]
  /\ \E k \in keys, msg \in Messages, badArgument \in BOOLEAN :
       SignCall(k.sk, msg, badArgument)
  /\ UNCHANGED <<oracle, keypairVars, verifyVars, keys, issued>>

CallVerify ==
  /\ NoCallRuns
  /\ calls.verify < MaxVerifies
  /\ calls' = [calls EXCEPT !.verify = @ + 1]
  /\ \E arg \in Deliveries, open \in BOOLEAN, badArgument \in BOOLEAN :
       VerifyCall(arg, open, badArgument)
  /\ UNCHANGED <<oracle, keypairVars, signVars, keys, issued>>

KeypairRuns ==
  /\ KeypairStep
  /\ UNCHANGED <<oracle, signVars, verifyVars, callerVars>>

SignRuns ==
  /\ SignStep
  /\ UNCHANGED <<keypairVars, verifyVars, callerVars>>

VerifyRuns ==
  /\ VerifyStep
  /\ UNCHANGED <<keypairVars, signVars, callerVars>>

KeypairReturns ==
  /\ KeypairReturn
  /\ keys' = IF kResult = 0 THEN keys \cup {[pk |-> pkOut, sk |-> skOut]} ELSE keys
  /\ UNCHANGED <<oracle, signVars, verifyVars, issued, calls>>

\* The program keeps what it signed, with the rounds whose seed is revealed
\* although a candidate of theirs was passed over (history).
SignReturns ==
  /\ SignReturn
  /\ issued' = IF sResult = 0
                 THEN issued \cup {[pk |-> PublicKey(secretSeed), msg |-> sm.msg, sig |-> sm.sig,
                                    marred |-> {j \in skipped : sChallenges[j] = BaseIndex}]}
                 ELSE issued
  /\ UNCHANGED <<oracle, keypairVars, verifyVars, keys, calls>>

VerifyReturns ==
  /\ VerifyReturn
  /\ UNCHANGED <<oracle, keypairVars, signVars, callerVars>>

\* What the library does once it is called.
LibraryStep ==
  \/ KeypairRuns \/ SignRuns \/ VerifyRuns
  \/ KeypairReturns \/ SignReturns \/ VerifyReturns

Next == CallKeypair \/ CallSign \/ CallVerify \/ LibraryStep

Spec == Init /\ [][Next]_vars

-----------------------------------------------------------------------------
(* Properties.                                                              *)

\* Every variable, those of the three handlers and the program's, has its type.
TypeOK ==
  /\ OracleType /\ KeypairTypeOK /\ SignTypeOK /\ VerifyTypeOK
  /\ keys \subseteq [pk : PublicKeys, sk : SecretSeeds]

\* No answer is written or read outside its array: a round that is answered
\* by a response finds room for it, and so does one that reveals its seed
\* (responses and base_seeds of crypto_sign and of crypto_sign_verify).
AnswersInBounds ==
  /\ spc = "respond" /\ sRound < R =>
       IF sChallenges[sRound] < X THEN Len(responses) < K
                                  ELSE Len(baseSeeds) < BaseSeedCount
  /\ vpc = "rounds" /\ vRound < R =>
       IF vChallenges[vRound] < X THEN vResponse < Len(vArg.sig.responses)
                                  ELSE vSeed < Len(vArg.sig.seeds)

\* The signature being verified was issued for this key and this message.
Genuine(e, arg) == e.pk = arg.pk /\ e.msg = arg.msg /\ e.sig = arg.sig

\* The same up to what verification cannot tell apart: responses may differ
\* by a scalar, which the canonical form does not see, and the salt enters
\* through base rounds only.
AboutEntry(e, arg) ==
  /\ e.pk = arg.pk /\ e.msg = arg.msg
  /\ e.sig.digest = arg.sig.digest /\ e.sig.seeds = arg.sig.seeds
  /\ BaseSeedCount > 0 => e.sig.salt = arg.sig.salt

\* crypto_sign_verify rejects an issued signature, under its key and with its
\* message, only if a fallible call failed during the verification - provided
\* that no base round of the signature passed over a usable candidate.
Completeness ==
  vpc = "cleanup" /\ vResult # 0 /\ ~vFault =>
    \A e \in issued : Genuine(e, vArg) => e.marred # {}

\* The same without the proviso: whatever crypto_sign returned with result 0
\* verifies, as the known-answer test demands of every signature.
EverySignatureVerifies ==
  vpc = "cleanup" /\ vResult # 0 /\ ~vFault =>
    \A e \in issued : ~Genuine(e, vArg)

\* Two digests were parsed to the same challenges.
OracleCollides ==
  \E d1, d2 \in DOMAIN oracle : d1 # d2 /\ oracle[d1] = oracle[d2]

\* Unless the challenges of two digests collide, crypto_sign_verify accepts
\* only what was issued for that key and that message, with the digest, the
\* revealed seeds and the salt of the issued signature.
Authenticity ==
  vpc = "cleanup" /\ vResult = 0 /\ ~OracleCollides =>
    \E e \in issued : AboutEntry(e, vArg)

\* A call that does not return 0 leaves no trace in the caller's buffers:
\* pk and sk, sm and *smlen, m and *mlen.
FailureLeavesNoOutput ==
  /\ kpc = "idle" /\ kResult # 0 => pkOut = Raw /\ skOut = Raw
  /\ spc = "idle" /\ sResult # 0 => sm = Raw /\ smlen = 0
  /\ vpc = "idle" /\ vResult # 0 => mOut = Raw /\ mlenOut = 0

\* Whatever path a call takes, it returns having released exactly what it
\* acquired: heap arrays, the transcript hash and the XOF of a round.
NothingHeldAfterReturn ==
  /\ kpc = "idle" => kHeld = {}
  /\ spc = "idle" => sHeld = {}
  /\ vpc = "idle" => vHeld = {}

\* Each key pair handed out is consistent: every non-base form is the base
\* form of the same public seed pulled back by matrices of the secret key.
KeysMatch == \A k \in keys : k.pk = PublicKey(k.sk)

-----------------------------------------------------------------------------
(* The library implements the abstract scheme: a question is open from the  *)
(* call of the verifier to its return.                                      *)

Answer == IF vpc # "idle" THEN "open"
          ELSE IF vResult = 0 THEN "accept" ELSE "reject"

Scheme == INSTANCE SignatureScheme WITH
            Same <- Genuine,
            Alike <- AboutEntry,
            issued <- issued,
            question <- vArg,
            answer <- Answer,
            obstructed <- vFault,
            lucky <- OracleCollides

\* Signing and verification refine the abstract scheme: in every history of
\* calls an answer is right, or is excused by what happened before it.
ImplementsScheme == Scheme!Spec

-----------------------------------------------------------------------------
(* Without failing calls, every call with good arguments succeeds.          *)

FaultFreeNext ==
  Next /\ ~(KeypairFault \/ SignFault \/ VerifyFault
            \/ SignPassOverCandidate \/ VerifyPassOverCandidate)

FaultFreeSpec == Init /\ [][FaultFreeNext]_vars
                      /\ WF_vars(LibraryStep /\ FaultFreeNext)

\* crypto_sign finds a usable candidate for every round and returns 0.
SigningSucceeds == spc = "alloc" ~> spc = "idle" /\ sResult = 0

\* crypto_sign_verify returns 0 for a signature that was issued.
VerifyingSucceeds ==
  vpc = "alloc" /\ (\E e \in issued : Genuine(e, vArg))
    ~> vpc = "idle" /\ vResult = 0
=============================================================================
