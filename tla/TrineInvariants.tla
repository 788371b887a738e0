-------------------------- MODULE TrineInvariants --------------------------
(***************************************************************************)
(* The inductive invariant behind the safety properties of TrineProtocol:  *)
(* what is known at each stage of key generation, of signing and of        *)
(* verification, and what an issued signature consists of.                 *)
(***************************************************************************)
EXTENDS TrineProtocol

-----------------------------------------------------------------------------
(* A point, and the first candidate of a stream with a canonical form.      *)

BaseOf(s) == BaseForm(PublicSeed(s))

Usable(s, v) == CanonicalForm(BaseOf(s), v) # Degenerate

StreamCandidate(s, t, seed, round, n) ==
  Candidate(BaseOf(s), RoundStream(t, seed, round), n)

AllUnusable(s, t, seed, round, n) ==
  \A i \in 0 .. (n - 1) : ~Usable(s, StreamCandidate(s, t, seed, round, i))

IsCandidate(s, t, seed, round, v) ==
  \E n \in Attempts : v = StreamCandidate(s, t, seed, round, n)

IsFirstUsable(s, t, seed, round, v) ==
  \E n \in Attempts : v = StreamCandidate(s, t, seed, round, n)
                      /\ AllUnusable(s, t, seed, round, n)

\* The transcript after the message and the first n rounds.
TranscriptOf(msg, s, points, n) ==
  Transcript(msg, [i \in 1 .. n |-> CanonicalForm(BaseOf(s), points[i - 1])])

\* The first n rounds commit to usable candidates of their streams, and to the
\* first one unless the round is in "except".
Committed(s, t, seeds, points, except, n) ==
  \A j \in 0 .. (n - 1) :
    /\ points[j] \in RoundPoints(s) /\ Usable(s, points[j])
    /\ IsCandidate(s, t, seeds[j], j, points[j])
    /\ j \notin except => IsFirstUsable(s, t, seeds[j], j, points[j])

\* The answers to the first n rounds, stored densely.
Answered(s, ch, seeds, points, resp, revealed, n) ==
  /\ Len(resp) = NonbaseBefore(ch, n) /\ Len(revealed) = BaseBefore(ch, n)
  /\ \A j \in 0 .. (n - 1) :
       /\ ch[j] < X => resp[NonbaseBefore(ch, j) + 1]
                         = InverseTimes(SecretMatrix(s, "A", ch[j]), points[j])
       /\ ch[j] = X => revealed[BaseBefore(ch, j) + 1] = seeds[j]

-----------------------------------------------------------------------------
KeypairInv ==
  /\ kpc \notin {"idle", "cleanup"} => kResult = -1 /\ pkOut = Raw /\ skOut = Raw
  /\ kpc \in {"idle", "alloc", "random"} => kIndex = 0
  /\ kpc \in {"idle", "alloc"} => kHeld = {}
  /\ kpc = "forms" => kSeed \in SecretSeeds
                      /\ \A i \in 0 .. (kIndex - 1) : kForms[i] = NonbaseForm(kSeed, i)
  /\ kpc \in {"idle", "cleanup"} /\ kResult # 0 => pkOut = Raw /\ skOut = Raw
  /\ kpc = "cleanup" /\ kResult = 0 => skOut \in SecretSeeds /\ pkOut = PublicKey(skOut)

\* Stages of crypto_sign.
Published    == spc = "cleanup" /\ sResult = 0
HasChallenge == spc = "respond" \/ Published
Committing   == spc \in {"commit", "digest", "parse"}
HasSeeds     == spc \in {"hash", "message"} \/ Committing \/ HasChallenge
HasSalt      == spc = "seeds" \/ HasSeeds
HasKey       == spc \in {"alloc", "expand", "salt"} \/ HasSalt

SignResources ==
  /\ spc \in {"idle", "alloc"} => sHeld = {}
  /\ spc # "commit" => "round xof" \notin sHeld
  /\ sActive <=> "transcript" \in sHeld

SignOutputs ==
  /\ spc \notin {"idle", "cleanup"} => sResult = -1
  /\ sResult = -1 => sm = Raw /\ smlen = 0

SignInputs ==
  /\ HasKey => secretSeed \in SecretSeeds /\ sMsg \in Messages
  /\ HasSalt => salt \in Salts
  /\ HasSeeds => roundSeeds \in [Rounds -> RoundSeeds]

SignStart ==
  spc \notin {"cleanup", "commit", "digest", "parse", "respond"} =>
    /\ sRound = 0 /\ sAttempt = 0 /\ skipped = {}
    /\ responses = <<>> /\ baseSeeds = <<>> /\ inverseReady = {}

\* The commitment phase.
SignCommitting ==
  Committing =>
    /\ spc = "commit" => sRound < R
    /\ spc # "commit" => sRound = R
    /\ sAttempt = 0 \/ spc = "commit"
    /\ skipped \subseteq 0 .. sRound
    /\ spc = "commit" /\ sRound \notin skipped =>
         AllUnusable(secretSeed, salt, roundSeeds[sRound], sRound, sAttempt)
    /\ Committed(secretSeed, salt, roundSeeds, aAll, skipped, sRound)
    /\ sTranscript = TranscriptOf(sMsg, secretSeed, aAll, sRound)
    /\ spc = "parse" => sDigest = Hash(sTranscript)
    /\ responses = <<>> /\ baseSeeds = <<>> /\ inverseReady = {}

\* The response phase, and a finished signature.
SignResponding ==
  HasChallenge =>
    /\ Committed(secretSeed, salt, roundSeeds, aAll, skipped, R)
    /\ sDigest = Hash(TranscriptOf(sMsg, secretSeed, aAll, R))
    /\ sDigest \in DOMAIN oracle /\ sChallenges = oracle[sDigest]
    /\ sChallenges \in ChallengeVectors /\ ChallengesValid(sChallenges)
    /\ \A c \in inverseReady : inverseCache[c] = SecretMatrix(secretSeed, "A", c)
    /\ Answered(secretSeed, sChallenges, roundSeeds, aAll, responses, baseSeeds, sRound)

SignPublished ==
  Published =>
    /\ sRound = R
    /\ sm = [sig |-> [responses |-> responses, seeds |-> baseSeeds,
                      digest |-> sDigest, salt |-> salt, canonical |-> TRUE],
             msg |-> sMsg]

SignInv ==
  /\ SignResources /\ SignOutputs /\ SignInputs /\ SignStart
  /\ SignCommitting /\ SignResponding /\ SignPublished

-----------------------------------------------------------------------------
(* An issued entry opens a transcript of its message: s, seeds and points   *)
(* are what crypto_sign worked with.                                        *)

OpenedBy(e, s, seeds, points) ==
  /\ e.pk = PublicKey(s)
  /\ e.sig.digest = Hash(TranscriptOf(e.msg, s, points, R))
  /\ Committed(s, e.sig.salt, seeds, points,
               {j \in Rounds : oracle[e.sig.digest][j] < X} \cup e.marred, R)
  /\ Answered(s, oracle[e.sig.digest], seeds, points, e.sig.responses, e.sig.seeds, R)

IssuedEntry(e) ==
  /\ IsArgument([pk |-> e.pk, msg |-> e.msg, sig |-> e.sig])
  /\ e.sig.canonical
  /\ e.sig.digest \in DOMAIN oracle
  /\ ChallengesValid(oracle[e.sig.digest])
  /\ \E s \in SecretSeeds : \E seeds \in [Rounds -> RoundSeeds],
                               points \in [Rounds -> RoundPoints(s)] :
       OpenedBy(e, s, seeds, points)

IssuedInv == \A e \in issued : IssuedEntry(e)

-----------------------------------------------------------------------------
VerifyResources ==
  /\ vpc \in {"idle", "alloc"} => vHeld = {}
  /\ vpc # "rounds" \/ vAttempt = 0 => "round xof" \notin vHeld
  /\ vActive <=> "transcript" \in vHeld

VerifyOutputs ==
  /\ vpc \notin {"idle", "cleanup"} => vResult = -1
  /\ vResult = -1 => mOut = Raw /\ mlenOut = 0

VerifyChallenges ==
  /\ vpc \in {"idle", "alloc", "decode", "parse", "hash", "message"} =>
       vRound = 0 /\ vAttempt = 0 /\ vResponse = 0 /\ vSeed = 0
  /\ vpc \in {"hash", "message", "rounds"} =>
       /\ vArg.sig.digest \in DOMAIN oracle
       /\ vChallenges = oracle[vArg.sig.digest]
       /\ vChallenges \in ChallengeVectors /\ ChallengesValid(vChallenges)

VerifyIndices ==
  vpc = "rounds" =>
    /\ vResponse = NonbaseBefore(vChallenges, vRound)
    /\ vSeed = BaseBefore(vChallenges, vRound)
    /\ vRound = R \/ vChallenges[vRound] # BaseIndex => vAttempt = 0

\* The rounds verified so far repeat what the signer did.
RetracedBy(s, seeds, points) ==
  /\ vTranscript = TranscriptOf(vArg.msg, s, points, vRound)
  /\ vRound < R /\ vChallenges[vRound] = BaseIndex =>
       AllUnusable(s, vArg.sig.salt, seeds[vRound], vRound, vAttempt)

\* The verification of a soundly issued signature retraces the signer's steps.
VerifyRetraces ==
  vpc = "rounds" /\ ~vFault =>
    \A e \in issued : Genuine(e, vArg) /\ e.marred = {} =>
      \A s \in SecretSeeds : \A seeds \in [Rounds -> RoundSeeds],
                                points \in [Rounds -> RoundPoints(s)] :
        OpenedBy(e, s, seeds, points) => RetracedBy(s, seeds, points)

VerifyInv ==
  /\ VerifyResources /\ VerifyOutputs /\ VerifyChallenges
  /\ VerifyIndices /\ VerifyRetraces

-----------------------------------------------------------------------------
(* What an accepted signature has been checked for, whoever made it.        *)

Accepted == vpc = "cleanup" /\ vResult = 0

\* The digest of the signature was issued, or belongs to no transcript.
VerifyDigest ==
  vpc # "idle" => vArg.sig.digest \in StrayDigests \cup {e.sig.digest : e \in issued}

\* Past the decoders the key is encoded canonically.
VerifyDecoded ==
  vpc \in {"parse", "hash", "message", "rounds"} \/ Accepted => vArg.pk.canonical

\* The forms absorbed after the message.
AbsorbedForms ==
  [i \in 1 .. vRound |-> vTranscript[Len(MessageChunk(vArg.msg)) + i]]

\* What round j absorbs: the canonical form its response leads to, or that of
\* a candidate of the stream its seed starts.
ResponseLeadsTo(j, form) ==
  form = CanonicalForm(vArg.pk.forms[vChallenges[j]],
                       vArg.sig.responses[NonbaseBefore(vChallenges, j) + 1])

SeedLeadsTo(j, form) ==
  \E n \in Attempts :
    form = CanonicalForm(VerifyBase,
             Candidate(VerifyBase,
                       RoundStream(vArg.sig.salt,
                                   vArg.sig.seeds[BaseBefore(vChallenges, j) + 1], j), n))

AnswerLeadsTo(j, form) ==
  /\ form \in TriForms
  /\ vChallenges[j] < X => ResponseLeadsTo(j, form)
  /\ vChallenges[j] = X => SeedLeadsTo(j, form)

\* The transcript is made of the message and of what the answers lead to, and
\* every seed counted so far was used by a base round.
VerifyAbsorbed ==
  vpc = "rounds" \/ Accepted =>
    /\ vTranscript = Transcript(vArg.msg, AbsorbedForms)
    /\ \A j \in 0 .. (vRound - 1) : AnswerLeadsTo(j, AbsorbedForms[j + 1])
    /\ \A i \in 1 .. vSeed : \E j \in 0 .. (vRound - 1) :
         vChallenges[j] = X /\ i = BaseBefore(vChallenges, j) + 1

\* All rounds were absorbed, and the digest found has the challenges of the
\* digest given.
VerifyAccepted ==
  Accepted =>
    /\ vRound = R /\ vSeed = BaseSeedCount
    /\ vChallenges \in ChallengeVectors /\ vChallenges = oracle[vArg.sig.digest]
    /\ {vArg.sig.digest, Hash(vTranscript)} \subseteq DOMAIN oracle
    /\ oracle[Hash(vTranscript)] = vChallenges

AuthInv == VerifyDigest /\ VerifyDecoded /\ VerifyAbsorbed /\ VerifyAccepted

-----------------------------------------------------------------------------
\* The library is called one function at a time.
OneCallRuns ==
  \/ kpc = "idle" /\ spc = "idle"
  \/ kpc = "idle" /\ vpc = "idle"
  \/ spc = "idle" /\ vpc = "idle"

\* What is known of the call in progress.
CallInv ==
  /\ OneCallRuns
  /\ TypeOK /\ KeypairInv /\ KeysMatch /\ SignInv /\ IssuedInv /\ VerifyInv /\ Completeness

\* The inductive invariant: it holds whatever the values of the constants, and
\* every safety property follows from it.
IInv == CallInv /\ AuthInv
=============================================================================
