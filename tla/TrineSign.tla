----------------------------- MODULE TrineSign -----------------------------
(***************************************************************************)
(* crypto_sign: commit to R rounds, hash them with the message into        *)
(* challenges, and answer each challenge by a response vector or by the    *)
(* seed of the round.  SignFault is the exit every fallible call takes.    *)
(***************************************************************************)
EXTENDS TrineScheme

CONSTANT SigBytes   \* TRINE_SIG_BYTES

VARIABLES
  spc,           \* where crypto_sign is; "idle" outside a call
  sResult,       \* result
  sMsg,          \* m
  secretSeed,    \* secret_seed
  salt,
  roundSeeds,    \* round_seeds
  sRound,        \* round
  sAttempt,      \* candidates already rejected in this round
  aAll,          \* a_all: the point of each round
  sTranscript,   \* chunks absorbed so far
  sActive,       \* transcript_active
  sDigest,       \* digest
  sChallenges,   \* challenges
  inverseCache,  \* a_inverse_cache
  inverseReady,  \* indices whose a_inverse_ready flag is set
  responses,     \* responses, its length being response_index
  baseSeeds,     \* base_seeds, its length being base_seed_index
  sHeld,         \* resources the call holds
  sm,            \* the caller's sm buffer
  smlen,         \* the caller's *smlen
  skipped        \* history: rounds where a usable candidate was passed over

\* Groups of variables that most steps leave alone.
signInput   == <<sMsg, secretSeed>>
signRandom  == <<salt, roundSeeds>>
signRounds  == <<sRound, sAttempt, aAll, skipped>>
signHash    == <<sTranscript, sActive, sDigest, sChallenges>>
signAnswers == <<inverseCache, inverseReady, responses, baseSeeds>>
signOutput  == <<sResult, sm, smlen>>
signVars    == <<spc, sHeld, signInput, signRandom, signRounds, signHash,
                 signAnswers, signOutput>>

\* The heap arrays: those holding secrets, which are cleared, and the rest.
SignBuffers == {"secret arrays", "scratch arrays"}

\* The values the locals have outside a call.
NoInverses == [c \in FormIndex |-> Raw]
NoPoints == [j \in Rounds |-> Raw]

SignInit ==
  /\ spc = "idle" /\ sResult = 0 /\ sMsg = <<>>
  /\ secretSeed = Raw /\ salt = Raw /\ roundSeeds = Raw
  /\ sRound = 0 /\ sAttempt = 0
  /\ aAll = NoPoints
  /\ sTranscript = <<>> /\ sActive = FALSE
  /\ sDigest = Raw /\ sChallenges = Raw
  /\ inverseCache = NoInverses /\ inverseReady = {}
  /\ responses = <<>> /\ baseSeeds = <<>>
  /\ skipped = {}
  /\ sHeld = {}
  /\ sm = Raw /\ smlen = 0

\* The base form signing works on.
SignBase == BaseForm(PublicSeed(secretSeed))

\* The caller passes a fresh sm buffer.  Null pointers and a length that
\* would overflow are refused before anything is touched but *smlen.
SignCall(sk, msg, badArgument) ==
  /\ spc = "idle"
  /\ spc' = IF badArgument THEN "cleanup" ELSE "alloc"
  /\ sResult' = -1
  /\ sMsg' = msg
  /\ secretSeed' = IF badArgument THEN Raw ELSE sk
  /\ sm' = Raw /\ smlen' = 0
  /\ UNCHANGED <<sHeld, signRandom, signRounds, signHash, signAnswers>>

SignAlloc ==
  /\ spc = "alloc"
  /\ sHeld' = SignBuffers
  /\ spc' = "expand"
  /\ UNCHANGED <<signInput, signRandom, signRounds, signHash, signAnswers,
                 signOutput>>

\* trine_expand_public_seed and trine_expand_base_form; SignBase is the result.
SignExpand ==
  /\ spc = "expand"
  /\ spc' = "salt"
  /\ UNCHANGED <<sHeld, signInput, signRandom, signRounds, signHash,
                 signAnswers, signOutput>>

SignSalt ==
  /\ spc = "salt"
  /\ salt' \in Salts
  /\ spc' = "seeds"
  /\ UNCHANGED <<roundSeeds, sHeld, signInput, signRounds, signHash,
                 signAnswers, signOutput>>

SignSeeds ==
  /\ spc = "seeds"
  /\ roundSeeds' \in [Rounds -> RoundSeeds]
  /\ spc' = "hash"
  /\ UNCHANGED <<salt, sHeld, signInput, signRounds, signHash, signAnswers,
                 signOutput>>

SignHashInit ==
  /\ spc = "hash"
  /\ sHeld' = sHeld \cup {"transcript"}
  /\ sActive' = TRUE
  /\ spc' = "message"
  /\ UNCHANGED <<sTranscript, sDigest, sChallenges, signInput, signRandom,
                 signRounds, signAnswers, signOutput>>

SignMessage ==
  /\ spc = "message"
  /\ sTranscript' = MessageChunk(sMsg)
  /\ spc' = "commit"
  /\ UNCHANGED <<sActive, sDigest, sChallenges, sHeld, signInput, signRandom,
                 signRounds, signAnswers, signOutput>>

-----------------------------------------------------------------------------
(* trine_derive_round_commitment_vartime: take the first candidate of the   *)
(* round's stream that has a canonical form.                                *)

RoundCandidate ==
  Candidate(SignBase, RoundStream(salt, roundSeeds[sRound], sRound), sAttempt)

SignRejectCandidate ==
  /\ spc = "commit" /\ sAttempt < MaxAttempts
  /\ CanonicalForm(SignBase, RoundCandidate) = Degenerate
  /\ sAttempt' = sAttempt + 1
  /\ sHeld' = sHeld \cup {"round xof"}
  /\ UNCHANGED <<spc, sRound, aAll, skipped, signInput, signRandom, signHash,
                 signAnswers, signOutput>>

\* The malloc inside canonical_diagonal_normalize_vartime fails; the loop
\* cannot tell this from a degenerate candidate and draws the next one.
SignPassOverCandidate ==
  /\ spc = "commit" /\ sAttempt < MaxAttempts
  /\ CanonicalForm(SignBase, RoundCandidate) # Degenerate
  /\ sAttempt' = sAttempt + 1
  /\ skipped' = skipped \cup {sRound}
  /\ sHeld' = sHeld \cup {"round xof"}
  /\ UNCHANGED <<spc, sRound, aAll, signInput, signRandom, signHash,
                 signAnswers, signOutput>>

SignCommit ==
  /\ spc = "commit"
  /\ CanonicalForm(SignBase, RoundCandidate) # Degenerate
  /\ aAll' = [aAll EXCEPT ![sRound] = RoundCandidate]
  /\ sTranscript' = Append(sTranscript, CanonicalForm(SignBase, RoundCandidate))
  /\ sHeld' = sHeld \ {"round xof"}
  /\ sAttempt' = 0
  /\ sRound' = sRound + 1
  /\ spc' = IF sRound + 1 = R THEN "digest" ELSE "commit"
  /\ UNCHANGED <<sActive, sDigest, sChallenges, skipped, signInput, signRandom,
                 signAnswers, signOutput>>

-----------------------------------------------------------------------------
SignDigest ==
  /\ spc = "digest"
  /\ sDigest' = Hash(sTranscript)
  /\ spc' = "parse"
  /\ UNCHANGED <<sTranscript, sActive, sChallenges, sHeld, signInput,
                 signRandom, signRounds, signAnswers, signOutput>>

SignParse ==
  /\ spc = "parse"
  /\ \E ch \in Challenges :
       /\ ParseHash(sDigest, ch)
       /\ sChallenges' = ch
       /\ spc' = IF ChallengesValid(ch) THEN "respond" ELSE "cleanup"
  /\ sRound' = 0
  /\ UNCHANGED <<sAttempt, aAll, sTranscript, sActive, sDigest, sHeld, skipped,
                 signInput, signRandom, signAnswers, signOutput>>

\* mutant: the matrix of the round is cached, not that of the challenge
CacheWith_Round(c) ==
  IF c \in inverseReady THEN inverseCache
  ELSE [inverseCache EXCEPT ![c] = SecretMatrix(secretSeed, "A", sRound)]

CacheWith(c) ==
  IF c \in inverseReady THEN inverseCache
  ELSE [inverseCache EXCEPT ![c] = SecretMatrix(secretSeed, "A", c)]

\* Expand the inverse of A_c unless it is cached, and move the point by it.
SignNonbaseRound ==
  /\ spc = "respond" /\ sRound < R
  /\ LET c == sChallenges[sRound] IN
       /\ c < X
       /\ inverseCache' = CacheWith(c)
       /\ inverseReady' = inverseReady \cup {c}
       /\ responses' = Append(responses, InverseTimes(CacheWith(c)[c], aAll[sRound]))
  /\ sRound' = sRound + 1
  /\ UNCHANGED <<spc, sAttempt, aAll, baseSeeds, sHeld, skipped, signInput,
                 signRandom, signHash, signOutput>>

\* Reveal the seed of the round.
SignBaseRound ==
  /\ spc = "respond" /\ sRound < R
  /\ sChallenges[sRound] = BaseIndex
  /\ baseSeeds' = Append(baseSeeds, roundSeeds[sRound])
  /\ sRound' = sRound + 1
  /\ UNCHANGED <<spc, sAttempt, aAll, inverseCache, inverseReady, responses,
                 sHeld, skipped, signInput, signRandom, signHash,
                 signOutput>>

\* Check the two counts, encode, and write the caller's buffers.
SignPublish ==
  /\ spc = "respond" /\ sRound = R
  /\ spc' = "cleanup"
  /\ IF CountsMatch(Len(responses), Len(baseSeeds))
       THEN /\ sm' = [sig |-> [responses |-> responses, seeds |-> baseSeeds,
                               digest |-> sDigest, salt |-> salt, canonical |-> TRUE],
                      msg |-> sMsg]
            /\ smlen' = SigBytes + Len(sMsg)
            /\ sResult' = 0
       ELSE UNCHANGED <<signOutput>>
  /\ UNCHANGED <<sHeld, signInput, signRandom, signRounds, signHash,
                 signAnswers>>

\* A call that can fail does: malloc, an XOF, randombytes or the hash.  The
\* round commitment releases its own XOF on the way out.
SignFault ==
  /\ \/ spc \in {"alloc", "expand", "salt", "seeds", "hash", "message", "commit",
                 "digest", "parse"}
     \/ spc = "respond" /\ sRound < R /\ sChallenges[sRound] \in FormIndex \ inverseReady
  /\ spc = "message" => sMsg # <<>>
  /\ spc = "alloc" => sHeld' \in SUBSET SignBuffers
  /\ spc # "alloc" => sHeld' = sHeld \ {"round xof"}
  /\ spc' = "cleanup"
  /\ UNCHANGED <<signInput, signRandom, signRounds, signHash, signAnswers,
                 signOutput>>

\* mutant: the transcript is never released
SignReleases_Heap == SignBuffers
SignReleases == SignBuffers \cup IF sActive THEN {"transcript"} ELSE {}

\* cleanup: release the transcript if it was initialised, clear the secrets,
\* free the arrays.  The locals end with the call.
SignReturn ==
  /\ spc = "cleanup"
  /\ spc' = "idle"
  /\ sHeld' = sHeld \ SignReleases
  /\ secretSeed' = Raw /\ salt' = Raw /\ roundSeeds' = Raw
  /\ sRound' = 0 /\ sAttempt' = 0
  /\ aAll' = NoPoints
  /\ sTranscript' = <<>> /\ sActive' = FALSE
  /\ sDigest' = Raw /\ sChallenges' = Raw
  /\ inverseCache' = NoInverses /\ inverseReady' = {}
  /\ responses' = <<>> /\ baseSeeds' = <<>>
  /\ skipped' = {}
  /\ UNCHANGED <<sMsg, signOutput>>

\* The steps that leave the challenge oracle alone.
SignLocalStep ==
  \/ SignAlloc \/ SignExpand \/ SignSalt \/ SignSeeds \/ SignHashInit \/ SignMessage
  \/ SignRejectCandidate \/ SignPassOverCandidate \/ SignCommit
  \/ SignDigest \/ SignNonbaseRound \/ SignBaseRound \/ SignPublish
  \/ SignFault

SignStep == (SignLocalStep /\ UNCHANGED oracle) \/ SignParse

SignTypeOK ==
  /\ spc \in {"idle", "alloc", "expand", "salt", "seeds", "hash", "message", "commit",
              "digest", "parse", "respond", "cleanup"}
  /\ sResult \in {0, -1} /\ sRound \in 0 .. R /\ sAttempt \in Attempts
  /\ sMsg \in Messages \cup {<<>>}
  /\ secretSeed \in SecretSeeds \cup {Raw}
  /\ salt \in Salts \cup {Raw} /\ roundSeeds \in [Rounds -> RoundSeeds] \cup {Raw}
  /\ aAll \in [Rounds -> Vectors \cup {Raw}]
  /\ sTranscript \in Seq(Chunks) /\ sActive \in BOOLEAN
  /\ sChallenges \in ChallengeVectors \cup {Raw}
  /\ inverseReady \subseteq FormIndex /\ DOMAIN inverseCache = FormIndex
  /\ responses \in Seq(Vectors) /\ baseSeeds \in Seq(RoundSeeds)
  /\ sHeld \subseteq SignBuffers \cup {"transcript", "round xof"}
  /\ skipped \subseteq Rounds
=============================================================================
