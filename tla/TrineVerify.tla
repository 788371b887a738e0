---------------------------- MODULE TrineVerify ----------------------------
(***************************************************************************)
(* crypto_sign_verify, and crypto_sign_open which calls it on the two      *)
(* parts of a signed message: recompute the canonical form of every round  *)
(* from the response or the seed the signature reveals, hash them with the *)
(* message, and compare the challenges with those of the signature.        *)
(***************************************************************************)
EXTENDS TrineScheme

VARIABLES
  vpc,          \* where crypto_sign_verify is; "idle" outside a call
  vResult,      \* result
  vArg,         \* pk, m and sig of the call
  vOpen,        \* the caller is crypto_sign_open
  vRound,       \* round
  vAttempt,     \* candidates already rejected in this round
  vTranscript,  \* chunks absorbed so far
  vActive,      \* transcript_active
  vChallenges,  \* challenges
  vResponse,    \* response_index
  vSeed,        \* base_seed_index
  vHeld,        \* resources the call holds
  vFault,       \* history: a fallible call failed, or its failure was masked
  mOut, mlenOut \* the buffers crypto_sign_open writes

verifyRounds == <<vRound, vAttempt, vResponse, vSeed>>
verifyHash   == <<vTranscript, vActive, vChallenges>>
verifyInput  == <<vArg, vOpen>>
verifyOutput == <<mOut, mlenOut>>
verifyVars   == <<vpc, vResult, vHeld, vFault, verifyRounds, verifyHash,
                  verifyInput, verifyOutput>>

VerifyBuffers == {"arrays"}

VerifyInit ==
  /\ vpc = "idle" /\ vResult = -1 /\ vFault = FALSE /\ vHeld = {}
  /\ vArg = Raw /\ vOpen = FALSE
  /\ vRound = 0 /\ vAttempt = 0 /\ vResponse = 0 /\ vSeed = 0
  /\ vTranscript = <<>> /\ vActive = FALSE /\ vChallenges = Raw
  /\ mOut = Raw /\ mlenOut = 0

\* The signature and the key are separate arguments; crypto_sign_open cuts
\* them out of a signed message.  badArgument: a null pointer, or a length
\* that is not TRINE_SIG_BYTES (less than it, for crypto_sign_open).
VerifyCall(arg, open, badArgument) ==
  /\ vpc = "idle"
  /\ vpc' = IF badArgument THEN "cleanup" ELSE "alloc"
  /\ vResult' = -1
  /\ vFault' = badArgument
  /\ vArg' = arg /\ vOpen' = open
  /\ mOut' = Raw /\ mlenOut' = 0
  /\ UNCHANGED <<vHeld, verifyRounds, verifyHash>>

VerifyAlloc ==
  /\ vpc = "alloc"
  /\ vHeld' = VerifyBuffers
  /\ vpc' = "decode"
  /\ UNCHANGED <<vResult, vFault, verifyRounds, verifyHash, verifyInput, verifyOutput>>

\* Decode the key, expand its base form, decode the signature.  A decoder
\* refuses field elements above q - 1 and padding bits that are not zero.
VerifyDecode ==
  /\ vpc = "decode"
  /\ vpc' = IF vArg.pk.canonical /\ vArg.sig.canonical THEN "parse" ELSE "cleanup"
  /\ UNCHANGED <<vResult, vHeld, vFault, verifyRounds, verifyHash, verifyInput,
                 verifyOutput>>

VerifyParse ==
  /\ vpc = "parse"
  /\ \E ch \in Challenges :
       /\ ParseHash(vArg.sig.digest, ch)
       /\ vChallenges' = ch
       /\ vpc' = IF ChallengesValid(ch) THEN "hash" ELSE "cleanup"
  /\ UNCHANGED <<vResult, vHeld, vFault, vTranscript, vActive, verifyRounds,
                 verifyInput, verifyOutput>>

VerifyHashInit ==
  /\ vpc = "hash"
  /\ vHeld' = vHeld \cup {"transcript"}
  /\ vActive' = TRUE
  /\ vpc' = "message"
  /\ UNCHANGED <<vResult, vFault, vTranscript, vChallenges, verifyRounds,
                 verifyInput, verifyOutput>>

VerifyMessage ==
  /\ vpc = "message"
  /\ vTranscript' = MessageChunk(vArg.msg)
  /\ vpc' = "rounds"
  /\ UNCHANGED <<vResult, vHeld, vFault, vActive, vChallenges, verifyRounds,
                 verifyInput, verifyOutput>>

\* What a round hashes when it is answered by a response.
ResponseForm ==
  CanonicalForm(vArg.pk.forms[vChallenges[vRound]], vArg.sig.responses[vResponse + 1])

VerifyNonbaseRound ==
  /\ vpc = "rounds" /\ vRound < R
  /\ vChallenges[vRound] < X
  /\ IF ResponseForm = Degenerate
       THEN /\ vpc' = "cleanup"
            /\ UNCHANGED <<vTranscript, verifyRounds>>
       ELSE /\ vTranscript' = Append(vTranscript, ResponseForm)
            /\ vResponse' = vResponse + 1
            /\ vRound' = vRound + 1
            /\ UNCHANGED <<vpc, vAttempt, vSeed>>
  /\ UNCHANGED <<vResult, vHeld, vFault, vActive, vChallenges, verifyInput, verifyOutput>>

\* What a round hashes when its seed is revealed: the same derivation as in
\* crypto_sign, from the revealed seed and the salt of the signature.
VerifyBase == BaseForm(vArg.pk.seed)

\* mutant: the index of the seed is absorbed instead of that of the round
SeedForm_Index ==
  CanonicalForm(VerifyBase,
    Candidate(VerifyBase,
              RoundStream(vArg.sig.salt, vArg.sig.seeds[vSeed + 1], vSeed), vAttempt))

SeedForm ==
  CanonicalForm(VerifyBase,
    Candidate(VerifyBase,
              RoundStream(vArg.sig.salt, vArg.sig.seeds[vSeed + 1], vRound), vAttempt))

InBaseRound == vpc = "rounds" /\ vRound < R /\ vChallenges[vRound] = BaseIndex

VerifyRejectCandidate ==
  /\ InBaseRound /\ vAttempt < MaxAttempts
  /\ SeedForm = Degenerate
  /\ vAttempt' = vAttempt + 1
  /\ vHeld' = vHeld \cup {"round xof"}
  /\ UNCHANGED <<vpc, vResult, vFault, vRound, vResponse, vSeed, verifyHash,
                 verifyInput, verifyOutput>>

\* The masked malloc failure of SignPassOverCandidate, on this side.
VerifyPassOverCandidate ==
  /\ InBaseRound /\ vAttempt < MaxAttempts
  /\ SeedForm # Degenerate
  /\ vAttempt' = vAttempt + 1
  /\ vHeld' = vHeld \cup {"round xof"}
  /\ vFault' = TRUE
  /\ UNCHANGED <<vpc, vResult, vRound, vResponse, vSeed, verifyHash,
                 verifyInput, verifyOutput>>

\* mutant: the wrong index is advanced
VerifyBaseRound_Response ==
  /\ InBaseRound
  /\ SeedForm # Degenerate
  /\ vTranscript' = Append(vTranscript, SeedForm)
  /\ vHeld' = vHeld \ {"round xof"}
  /\ vAttempt' = 0
  /\ vResponse' = vResponse + 1
  /\ vRound' = vRound + 1
  /\ UNCHANGED <<vpc, vResult, vFault, vSeed, vActive, vChallenges,
                 verifyInput, verifyOutput>>

VerifyBaseRound ==
  /\ InBaseRound
  /\ SeedForm # Degenerate
  /\ vTranscript' = Append(vTranscript, SeedForm)
  /\ vHeld' = vHeld \ {"round xof"}
  /\ vAttempt' = 0
  /\ vSeed' = vSeed + 1
  /\ vRound' = vRound + 1
  /\ UNCHANGED <<vpc, vResult, vFault, vResponse, vActive, vChallenges,
                 verifyInput, verifyOutput>>

\* Check the two counts, hash, parse, and compare challenges: the digests
\* themselves are never compared.
VerifyCompare ==
  /\ vpc = "rounds" /\ vRound = R
  /\ IF CountsMatch(vResponse, vSeed)
       THEN \E ch \in Challenges :
              /\ ParseHash(Hash(vTranscript), ch)
              /\ vResult' = IF ChallengesEqual(vChallenges, ch) THEN 0 ELSE -1
       ELSE UNCHANGED <<oracle, vResult>>
  /\ vpc' = "cleanup"
  /\ UNCHANGED <<vHeld, vFault, verifyRounds, verifyHash, verifyInput, verifyOutput>>

\* A call that can fail does.
VerifyFault ==
  /\ vpc \in {"alloc", "decode", "parse", "hash", "message", "rounds"}
  /\ vpc = "message" => vArg.msg # <<>>
  /\ vpc = "alloc" => vHeld' \in SUBSET VerifyBuffers
  /\ vpc # "alloc" => vHeld' = vHeld \ {"round xof"}
  /\ vpc' = "cleanup"
  /\ vFault' = TRUE
  /\ UNCHANGED <<vResult, verifyRounds, verifyHash, verifyInput, verifyOutput>>

\* mutant: the message is copied whatever the verdict
Opens_Always == vOpen
Opens == vOpen /\ vResult = 0

\* cleanup, and in crypto_sign_open the copy of an accepted message.
VerifyReturn ==
  /\ vpc = "cleanup"
  /\ vpc' = "idle"
  /\ vHeld' = vHeld \ (VerifyBuffers \cup IF vActive THEN {"transcript"} ELSE {})
  /\ vRound' = 0 /\ vAttempt' = 0 /\ vResponse' = 0 /\ vSeed' = 0
  /\ vTranscript' = <<>> /\ vActive' = FALSE /\ vChallenges' = Raw
  /\ IF Opens
       THEN mOut' = vArg.msg /\ mlenOut' = Len(vArg.msg)
       ELSE UNCHANGED verifyOutput
  /\ UNCHANGED <<vResult, vFault, verifyInput>>

VerifyLocalStep ==
  \/ VerifyAlloc \/ VerifyDecode \/ VerifyHashInit \/ VerifyMessage
  \/ VerifyNonbaseRound \/ VerifyRejectCandidate \/ VerifyPassOverCandidate
  \/ VerifyBaseRound \/ VerifyFault

VerifyStep == (VerifyLocalStep /\ UNCHANGED oracle) \/ VerifyParse \/ VerifyCompare

\* What verification is asked about: a well-formed key, possibly encoded
\* badly, a message, and a signature with the right number of components.
IsArgument(arg) ==
  /\ DOMAIN arg = {"pk", "msg", "sig"}
  /\ \E k \in PublicKeys : arg.pk \in {k, [k EXCEPT !.canonical = FALSE]}
  /\ arg.msg \in Messages
  /\ DOMAIN arg.sig = {"responses", "seeds", "digest", "salt", "canonical"}
  /\ arg.sig.responses \in [1 .. K -> Vectors]
  /\ arg.sig.seeds \in [1 .. BaseSeedCount -> RoundSeeds]
  /\ arg.sig.salt \in Salts /\ arg.sig.canonical \in BOOLEAN

VerifyTypeOK ==
  /\ vpc \in {"idle", "alloc", "decode", "parse", "hash", "message", "rounds", "cleanup"}
  /\ (vpc = "idle" /\ vArg = Raw) \/ IsArgument(vArg)
  /\ vResult \in {0, -1} /\ vRound \in 0 .. R /\ vAttempt \in Attempts
  /\ vResponse \in 0 .. R /\ vSeed \in 0 .. R
  /\ vTranscript \in Seq(Chunks) /\ vActive \in BOOLEAN
  /\ vChallenges \in ChallengeVectors \cup {Raw}
  /\ vHeld \subseteq VerifyBuffers \cup {"transcript", "round xof"}
  /\ vFault \in BOOLEAN /\ vOpen \in BOOLEAN
=============================================================================
