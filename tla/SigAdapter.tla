----------------------------- MODULE SigAdapter -----------------------------
(***************************************************************************)
(* The sig_* interface of iccs/SIG_AlgorithmInstance.c over crypto_sign_*: *)
(* argument checks, lengths that are both given and returned, the scratch  *)
(* buffer of sig_sign, and error codes.  What crypto_sign_* answers is     *)
(* left open here; TrineProtocol says it.                                  *)
(***************************************************************************)
EXTENDS Integers

CONSTANTS
  PkBytes, SkBytes, SigBytes, \* CRYPTO_PUBLICKEYBYTES and so on
  SizeMax,                    \* the largest size_t
  LenMax                      \* the largest unsigned long long

ASSUME WidthAssumption ==
  /\ {PkBytes, SkBytes, SigBytes, SizeMax, LenMax} \subseteq Nat
  /\ SigBytes < SizeMax /\ SizeMax <= LenMax /\ {PkBytes, SkBytes} \subseteq 1 .. LenMax

Lengths == 0 .. LenMax

BadArgument == -1
BadLength == -2
AllocFailed == -3
KeygenFailed == -4
SignFailed == -5
VerifyFailed == -6

VARIABLES
  call,      \* the call under way: its operation and stage, the lengths the
             \* caller passed and now sees, and what the call has found
  scratch,   \* size of signed_message, 0 if it is not allocated
  secret     \* signed_message holds bytes of the signature

vars == <<call, scratch, secret>>

NoCall ==
  [op |-> "none", stage |-> "idle", result |-> 0, mLen |-> 0,
   passed |-> [key |-> 0, other |-> 0], seen |-> [key |-> 0, other |-> 0],
   signedLen |-> 0, written |-> 0, verdict |-> "none"]

Init == call = NoCall /\ scratch = 0 /\ secret = FALSE

\* A call that goes on to crypto_sign_*, or is refused with a code.
Entered(op, keyLen, otherLen, msgLen, code) ==
  LET lens == [key |-> keyLen, other |-> otherLen]
  IN [op |-> op, stage |-> IF code = 0 THEN "crypto" ELSE "done", result |-> code,
      mLen |-> msgLen, passed |-> lens, seen |-> lens,
      signedLen |-> 0, written |-> 0, verdict |-> "none"]

At(op, stage) == call.op = op /\ call.stage = stage

-----------------------------------------------------------------------------
\* pk_len_bytes and sk_len_bytes
KeygenCode(null, pkLen, skLen) ==
  CASE null -> BadArgument
    [] ~null /\ (pkLen < PkBytes \/ skLen < SkBytes) -> BadLength
    [] OTHER -> 0

\* mutant: the lengths are set before the call that may fail
CryptoKeypair_Early ==
  /\ At("keygen", "crypto")
  /\ \E code \in {0, KeygenFailed} :
       call' = [call EXCEPT !.stage = "done", !.result = code,
                            !.seen = [key |-> PkBytes, other |-> SkBytes]]
  /\ UNCHANGED <<scratch, secret>>
CryptoKeypair ==
  /\ At("keygen", "crypto")
  /\ \/ call' = [call EXCEPT !.stage = "done", !.result = KeygenFailed]
     \/ call' = [call EXCEPT !.stage = "done",
                             !.seen = [key |-> PkBytes, other |-> SkBytes]]
  /\ UNCHANGED <<scratch, secret>>

\* The sum of lengths is computed as a size_t.
TmpLen(msgLen) == (msgLen + SigBytes) % (SizeMax + 1)

\* mutant: the message length is not compared with the width of size_t
MessageTooLong_Never(msgLen) == FALSE
MessageTooLong(msgLen) == msgLen > SizeMax - SigBytes

\* sk_len_bytes and sn_len_bytes
SignCode(null, skLen, snLen, msgLen) ==
  CASE null -> BadArgument
    [] ~null /\ (skLen # SkBytes \/ snLen < SigBytes) -> BadLength
    [] ~null /\ MessageTooLong(msgLen) -> BadLength
    [] OTHER -> 0

SignAlloc ==
  /\ At("sign", "crypto") /\ scratch = 0
  /\ \/ /\ scratch' = IF TmpLen(call.mLen) = 0 THEN 1 ELSE TmpLen(call.mLen)
        /\ UNCHANGED call
     \/ /\ call' = [call EXCEPT !.stage = "done", !.result = AllocFailed]
        /\ UNCHANGED scratch
  /\ UNCHANGED secret

\* crypto_sign writes the signature and the message, or nothing.  It refuses
\* a message it cannot count, as the adapter does.
CryptoSign ==
  /\ At("sign", "crypto") /\ scratch # 0
  /\ \/ /\ call' = [call EXCEPT !.stage = "cleanup", !.result = SignFailed]
        /\ UNCHANGED secret
     \/ /\ call.mLen <= SizeMax /\ call.mLen <= LenMax - SigBytes
        /\ secret' = TRUE
        /\ LET len == SigBytes + call.mLen
           IN call' = IF len # TmpLen(call.mLen)
                      THEN [call EXCEPT !.signedLen = len, !.stage = "cleanup",
                                        !.result = BadLength]
                      ELSE [call EXCEPT !.signedLen = len, !.stage = "copy"]
  /\ UNCHANGED scratch

CopyLen == SigBytes

SignCopy ==
  /\ At("sign", "copy")
  /\ call' = [call EXCEPT !.written = CopyLen, !.seen.other = SigBytes,
                          !.stage = "cleanup"]
  /\ UNCHANGED <<scratch, secret>>

\* What clear_bytes overwrites.
\* mutant: the signature, and not the message behind it
ClearedLen_Signature == SigBytes
ClearedLen == TmpLen(call.mLen)

SignCleanup ==
  /\ At("sign", "cleanup")
  /\ secret' = (secret /\ ClearedLen < call.signedLen)
  /\ scratch' = 0
  /\ call' = [call EXCEPT !.stage = "done"]

\* pk_len_bytes and sn_len_bytes
VerifyCode(null, pkLen, snLen) ==
  CASE null -> BadArgument
    [] ~null /\ (pkLen # PkBytes \/ snLen # SigBytes) -> BadLength
    [] OTHER -> 0

\* crypto_sign_verify returns -1 for a signature that is wrong and for a call
\* of its own that failed.
CryptoVerify ==
  /\ At("verify", "crypto")
  /\ \E v \in {"valid", "invalid", "error"} :
       /\ call.mLen > SizeMax => v = "error"
       /\ call' = [call EXCEPT !.stage = "done", !.verdict = v,
                               !.result = IF v = "valid" THEN 0 ELSE VerifyFailed]
  /\ UNCHANGED <<scratch, secret>>

Call ==
  /\ call.stage = "idle"
  /\ \E null \in BOOLEAN, keyLen, otherLen, msgLen \in Lengths :
       call' \in
         {Entered("keygen", keyLen, otherLen, 0, KeygenCode(null, keyLen, otherLen)),
          Entered("sign", keyLen, otherLen, msgLen,
                  SignCode(null, keyLen, otherLen, msgLen)),
          Entered("verify", keyLen, otherLen, msgLen, VerifyCode(null, keyLen, otherLen))}
  /\ UNCHANGED <<scratch, secret>>

Return == call.stage = "done" /\ call' = NoCall /\ UNCHANGED <<scratch, secret>>

Next ==
  \/ Call \/ CryptoKeypair \/ SignAlloc \/ CryptoSign \/ SignCopy \/ SignCleanup
  \/ CryptoVerify \/ Return

Spec == Init /\ [][Next]_vars

-----------------------------------------------------------------------------
(* Whatever length a caller passes, crypto_sign writes within the scratch  *)
(* buffer and the copy stays within the caller's: the sum of the lengths   *)
(* has not wrapped.                                                        *)
WritesStayWithin ==
  /\ call.stage \in {"copy", "cleanup"} => call.signedLen <= scratch
  /\ call.op = "sign" => call.written <= call.passed.other

(* An operation returns 0 exactly if it returned the claimed lengths and,  *)
(* when signing, a whole signature; a failing one changes no length and    *)
(* writes no signature.                                                    *)
OutputsFollowResult ==
  call.stage = "done" =>
    IF call.result = 0
    THEN CASE call.op = "keygen" -> call.seen = [key |-> PkBytes, other |-> SkBytes]
           [] call.op = "sign" -> call.seen.other = SigBytes /\ call.written = SigBytes
           [] call.op = "verify" -> call.verdict = "valid"
    ELSE call.seen = call.passed /\ call.written = 0

(* When no operation is under way the scratch buffer is freed, and nothing *)
(* of the signature was left in it.                                        *)
NothingLeftInScratch == call.stage \in {"idle", "done"} => scratch = 0 /\ ~secret

(* SIG_AlgorithmInstance.h says of sig_verify that it returns -1 if the    *)
(* signature is invalid.                                                   *)
InvalidIsMinusOne == call.stage = "done" /\ call.verdict = "invalid" => call.result = -1
=============================================================================
