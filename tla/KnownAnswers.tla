---------------------------- MODULE KnownAnswers ----------------------------
(***************************************************************************)
(* The program of iccs/KAT_SIG.c.  Three generators: one for the seeds of  *)
(* the records, one for the messages, and drng_algorithm, from which key   *)
(* generation and signing draw and which every record initializes again.   *)
(* The results of the generators are not looked at; those of sig_keygen,   *)
(* sig_sign and sig_verify are, and any of these calls may fail.           *)
(***************************************************************************)
EXTENDS Sm3Drng

CONSTANTS
  SEED_LEN_BYTES,
  FirstLength, Growth,  \* m_len_bytes of the first record, and from one to the next
  BufferLength,         \* of m
  Records,
  DrawBytes             \* of a secret seed, a salt, and the seeds of all rounds

\* The numbers of bytes in KAT_SIG.c; m has the length of the longest message.
ASSUME ProgramAssumption ==
  /\ {SEED_LEN_BYTES, FirstLength, Growth, Records} \subseteq Nat
  /\ {ByteBits, BufferLength} \subseteq Nat \ {0}
  /\ \A n \in 0 .. Records - 1 : FirstLength + n * Growth <= BufferLength

VARIABLES
  stage,          \* where main is
  i,
  drng,           \* the three contexts
  memory,         \* where memory ran out when each of them was last initialized
  seed, m, m_len_bytes,
  pk, sk, sn,
  code            \* the result of main

katVars == <<stage, i, drng, memory, seed, m, m_len_bytes, pk, sk, sn, code>>

\* "seedseed..." and "msgmsg...", in bytes.
Repeated(letters) ==
  [j \in 1 .. SEED_LEN_BYTES |-> letters[((j - 1) % Len(letters)) + 1] % Base]
Nonce == [seed |-> Repeated(<<115, 101, 101, 100>>), msg |-> Repeated(<<109, 115, 103>>)]

\* What drng_algorithm delivers to randombytes, and what the scheme makes of it.
Draw(context) == ReturnBits(context, ByteBits * DrawBytes)
KeyPair(context) == [sk |-> Draw(context), pk |-> <<"public key of", Draw(context)>>]
Signature(key, message, context) ==
  [key |-> key, message |-> message,
   salt |-> Draw(context), seeds |-> Draw(AfterGenerate(context))]

Generators == {"seed", "msg", "algorithm"}

KatInit ==
  /\ stage = "start" /\ i = 0
  /\ drng = [g \in Generators |-> Cleared] /\ memory = [g \in Generators |-> Plenty]
  /\ seed = <<>> /\ m = <<>> /\ m_len_bytes = FirstLength
  /\ pk = <<>> /\ sk = <<>> /\ sn = <<>>
  /\ code = 0

\* main goes on whether or not its generators could be initialized.
InitGenerators ==
  /\ stage = "start"
  /\ \E s, t \in Memory :
       /\ memory' = [memory EXCEPT !.seed = s, !.msg = t]
       /\ drng' = [drng EXCEPT !.seed = SM3_DRNG_Instantiate(Nonce.seed, s),
                               !.msg = SM3_DRNG_Instantiate(Nonce.msg, t)]
  /\ stage' = "open"
  /\ UNCHANGED <<i, seed, m, m_len_bytes, pk, sk, sn, code>>

\* The directory and the file.
OpenFile ==
  /\ stage = "open"
  /\ \/ stage' = "record" /\ UNCHANGED code
     \/ stage' = "exit" /\ code' = -2
  /\ UNCHANGED <<i, drng, memory, seed, m, m_len_bytes, pk, sk, sn>>

\* mutants: one generator for seeds and messages; the message has grown already
MessageSource_Seed == "seed"
MessageSource == "msg"
MessageLength_Next == m_len_bytes + Growth
MessageLength == m_len_bytes

\* mutant: drng_algorithm is initialized before the loop, not in it
Reseeded_First(context, s, mem) == IF i = 0 THEN SM3_DRNG_Instantiate(s, mem) ELSE context
Reseeded(context, s, mem) == SM3_DRNG_Instantiate(s, mem)

DrawRecord ==
  /\ stage = "record" /\ i < Records
  /\ LET seeded == [drng EXCEPT !.seed = AfterGenerate(@)]
         source == seeded[MessageSource]
     IN /\ seed' = ReturnBits(drng.seed, ByteBits * SEED_LEN_BYTES)
        /\ m' = ReturnBits(source, ByteBits * MessageLength)
        /\ \E mem \in Memory :
             /\ memory' = [memory EXCEPT !.algorithm = mem]
             /\ drng' = [seeded EXCEPT ![MessageSource] = AfterGenerate(source),
                                       !.algorithm = Reseeded(@, seed', mem)]
  /\ stage' = "keygen"
  /\ UNCHANGED <<i, m_len_bytes, pk, sk, sn, code>>

Keygen ==
  /\ stage = "keygen"
  /\ LET pair == KeyPair(drng.algorithm) IN pk' = pair.pk /\ sk' = pair.sk
  /\ drng' = [drng EXCEPT !.algorithm = AfterGenerate(@)]
  /\ stage' = "sign"
  /\ UNCHANGED <<i, memory, seed, m, m_len_bytes, sn, code>>

Sign ==
  /\ stage = "sign"
  /\ sn' = Signature(sk, m, drng.algorithm)
  /\ drng' = [drng EXCEPT !.algorithm = AfterGenerate(AfterGenerate(@))]
  /\ stage' = "verify"
  /\ UNCHANGED <<i, memory, seed, m, m_len_bytes, pk, sk, code>>

Verify ==
  /\ stage = "verify"
  /\ i' = i + 1 /\ m_len_bytes' = m_len_bytes + Growth
  /\ stage' = "record"
  /\ UNCHANGED <<drng, memory, seed, m, pk, sk, sn, code>>

CryptoFailure ==
  /\ stage \in {"keygen", "sign", "verify"}
  /\ stage' = "exit" /\ code' = -3
  /\ UNCHANGED <<i, drng, memory, seed, m, m_len_bytes, pk, sk, sn>>

CloseFile ==
  /\ stage = "record" /\ i = Records
  /\ stage' = "exit" /\ code' \in {0, -2}
  /\ UNCHANGED <<i, drng, memory, seed, m, m_len_bytes, pk, sk, sn>>

KatNext ==
  \/ InitGenerators \/ OpenFile \/ DrawRecord \/ Keygen \/ Sign \/ Verify
  \/ CryptoFailure \/ CloseFile

KatSpec == KatInit /\ [][KatNext]_katVars

-----------------------------------------------------------------------------
\* A generator initialized with a nonce, after each number of requests.
States(nonce) ==
  LET state[n \in 0 .. Records] == IF n = 0 THEN SM3_DRNG_Instantiate(nonce, Plenty)
                                            ELSE AfterGenerate(state[n - 1])
  IN state
SeedStates == States(Nonce.seed)
MessageStates == States(Nonce.msg)

\* What a record holds can be recomputed from the record alone: key pair and
\* signature from its Seed and message with a generator of their own, whatever
\* the records before it drew, and Seed and message from its number, whatever
\* happened inside the scheme.  An initialization without memory is excused for
\* what it initialized, and for that only.
RecordsReproducible ==
  stage = "verify" =>
    /\ memory.seed = Plenty =>
         seed = ReturnBits(SeedStates[i], ByteBits * SEED_LEN_BYTES)
    /\ memory.msg = Plenty =>
         m = ReturnBits(MessageStates[i], ByteBits * (FirstLength + i * Growth))
    /\ memory.algorithm = Plenty =>
         LET fresh == SM3_DRNG_Instantiate(seed, Plenty)
         IN /\ <<sk, pk>> = <<KeyPair(fresh).sk, KeyPair(fresh).pk>>
            /\ sn = Signature(sk, m, AfterGenerate(fresh))

\* The messages grow with the records and their buffer does not: the last
\* record fills it to the last byte.
MessagesFitBuffer == Len(m) <= BufferLength
=============================================================================
