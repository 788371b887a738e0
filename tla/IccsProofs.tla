----------------------------- MODULE IccsProofs -----------------------------
(***************************************************************************)
(* Proofs about what iccs/ puts around the library.                        *)
(*                                                                         *)
(* The adapter, for every length a caller passes and for any two widths of *)
(* size_t and unsigned long long: no write leaves its buffer, lengths and  *)
(* results agree, and the scratch buffer is cleared and freed.             *)
(*                                                                         *)
(* The generator, for bytes and numbers of any length and whatever SM3 is: *)
(* its bytes compute the generator over numbers.                           *)
(*                                                                         *)
(* The known-answer program: its records can be computed again.            *)
(***************************************************************************)
EXTENDS SigAdapter, DrngCalls, KnownAnswers, NumberInduction, SequenceTheorems

-----------------------------------------------------------------------------
(* The adapter.                                                             *)

Pair == [key : Lengths, other : Lengths]

CallsOK ==
  /\ call \in
       [op : {"none", "keygen", "sign", "verify"},
        stage : {"idle", "crypto", "copy", "cleanup", "done"},
        result : {0, BadArgument, BadLength, AllocFailed, KeygenFailed, SignFailed, VerifyFailed},
        mLen : Lengths, passed : Pair, seen : [key : Nat, other : Nat],
        signedLen : Nat, written : Nat, verdict : {"none", "valid", "invalid", "error"}]
  /\ scratch \in Nat /\ secret \in BOOLEAN

(* Nothing has been written, and the lengths are the caller's.             *)
Untouched == call.seen = call.passed /\ call.written = 0

(* What a call that was not refused has established before crypto_sign.    *)
CryptoHolds ==
  call.stage = "crypto" =>
    /\ call.op # "none" /\ call.result = 0 /\ call.signedLen = 0 /\ ~secret /\ Untouched
    /\ call.op # "sign" => scratch = 0

(* A message that is signed fits, with its signature, in a size_t, and the *)
(* scratch buffer was allocated for both.                                  *)
SignHolds ==
  call.op = "sign" /\ call.stage \in {"crypto", "copy", "cleanup"} =>
    /\ call.mLen + SigBytes <= SizeMax /\ SigBytes <= call.passed.other
    /\ scratch # 0 \/ call.stage # "crypto" => call.mLen + SigBytes <= scratch

CopyHolds ==
  call.stage = "copy" =>
    /\ call.op = "sign" /\ call.result = 0 /\ Untouched
    /\ call.signedLen = call.mLen + SigBytes

CleanupHolds ==
  call.stage = "cleanup" =>
    /\ call.op = "sign" /\ call.signedLen <= call.mLen + SigBytes
    /\ IF call.result = 0 THEN call.seen.other = SigBytes /\ call.written = SigBytes
                          ELSE Untouched

DoneHolds == call.stage = "done" => call.op # "none" /\ OutputsFollowResult

(* The inductive invariant.                                                *)
AdapterInv ==
  /\ CallsOK /\ CryptoHolds /\ SignHolds /\ CopyHolds /\ CleanupHolds /\ DoneHolds
  /\ NothingLeftInScratch
  /\ call.op = "sign" => call.written <= call.passed.other

-----------------------------------------------------------------------------
(* The sum of the two lengths does not wrap where it fits.                 *)
LEMMA SumFits ==
  ASSUME NEW msgLen \in Nat, msgLen + SigBytes <= SizeMax
  PROVE  TmpLen(msgLen) = msgLen + SigBytes
BY WidthAssumption DEF TmpLen

LEMMA CodesAreCodes ==
  ASSUME NEW null \in BOOLEAN, NEW a \in Lengths, NEW b \in Lengths, NEW len \in Lengths
  PROVE  /\ KeygenCode(null, a, b) \in {0, BadArgument, BadLength}
         /\ VerifyCode(null, a, b) \in {0, BadArgument, BadLength}
         /\ SignCode(null, a, b, len) \in {0, BadArgument, BadLength}
         /\ SignCode(null, a, b, len) = 0 => len + SigBytes <= SizeMax /\ SigBytes <= b
BY WidthAssumption
DEF KeygenCode, VerifyCode, SignCode, MessageTooLong, Lengths, BadArgument, BadLength

LEMMA CallKeeps ==
  ASSUME AdapterInv, Call
  PROVE  AdapterInv'
<1>1. PICK null \in BOOLEAN, keyLen \in Lengths, otherLen \in Lengths, msgLen \in Lengths :
        call' \in
         {Entered("keygen", keyLen, otherLen, 0, KeygenCode(null, keyLen, otherLen)),
          Entered("sign", keyLen, otherLen, msgLen,
                  SignCode(null, keyLen, otherLen, msgLen)),
          Entered("verify", keyLen, otherLen, msgLen, VerifyCode(null, keyLen, otherLen))}
  BY DEF Call
<1>2. scratch' = 0 /\ secret' = FALSE
  BY DEF Call, AdapterInv, NothingLeftInScratch, CallsOK
<1>3. 0 \in Lengths
  BY WidthAssumption DEF Lengths
<1>. DEFINE Good(o, len, ret) ==
       /\ o \in {"keygen", "sign", "verify"} /\ len \in Lengths
       /\ ret \in {0, BadArgument, BadLength}
       /\ o = "sign" /\ ret = 0 => len + SigBytes <= SizeMax /\ SigBytes <= otherLen
<1>4. \E o, len, ret : Good(o, len, ret) /\ call' = Entered(o, keyLen, otherLen, len, ret)
  BY <1>1, <1>3, CodesAreCodes
<1>5. PICK o, len, ret :
        Good(o, len, ret) /\ call' = Entered(o, keyLen, otherLen, len, ret)
  BY <1>4
<1>6. call' = [op |-> o, stage |-> IF ret = 0 THEN "crypto" ELSE "done", result |-> ret,
               mLen |-> len, passed |-> [key |-> keyLen, other |-> otherLen],
               seen |-> [key |-> keyLen, other |-> otherLen],
               signedLen |-> 0, written |-> 0, verdict |-> "none"]
  BY <1>5 DEF Entered
<1>7. CallsOK'
  <2>1. [key |-> keyLen, other |-> otherLen] \in Pair
        /\ [key |-> keyLen, other |-> otherLen] \in [key : Nat, other : Nat]
    BY DEF Pair, Lengths
  <2>2. o \in {"none", "keygen", "sign", "verify"}
        /\ ret \in {0, BadArgument, BadLength, AllocFailed, KeygenFailed, SignFailed,
                     VerifyFailed}
        /\ len \in Lengths
    BY <1>5
  <2>3. (IF ret = 0 THEN "crypto" ELSE "done") \in {"crypto", "done"}
    OBVIOUS
  <2>. HIDE DEF Good
  <2>. QED
    BY <1>2, <1>6, <2>1, <2>2, <2>3 DEF CallsOK
<1>8. (CryptoHolds /\ SignHolds /\ CopyHolds /\ CleanupHolds)'
  BY <1>2, <1>5, <1>6 DEF CryptoHolds, SignHolds, CopyHolds, CleanupHolds, Untouched, Lengths
<1>9. DoneHolds'
  BY <1>2, <1>5, <1>6 DEF DoneHolds, OutputsFollowResult, BadArgument, BadLength
<1>. QED
  BY <1>2, <1>6, <1>7, <1>8, <1>9 DEF AdapterInv, NothingLeftInScratch, Lengths

LEMMA CryptoKeypairKeeps ==
  ASSUME AdapterInv, CryptoKeypair
  PROVE  AdapterInv'
<1>1. /\ call.op = "keygen" /\ call.stage = "crypto" /\ Untouched /\ call.result = 0
      /\ scratch = 0 /\ ~secret /\ scratch' = scratch /\ secret' = secret /\ CallsOK
  BY DEF CryptoKeypair, At, AdapterInv, CryptoHolds
<1>2. CASE call' = [call EXCEPT !.stage = "done", !.result = KeygenFailed]
  <2>1. /\ call'.op = "keygen" /\ call'.stage = "done" /\ call'.result = KeygenFailed
        /\ call'.seen = call.seen /\ call'.passed = call.passed
        /\ call'.written = call.written
    BY <1>1, <1>2 DEF CallsOK
  <2>2. CallsOK'
    BY <1>1, <1>2 DEF CallsOK
  <2>3. OutputsFollowResult'
    BY <1>1, <2>1 DEF OutputsFollowResult, Untouched, KeygenFailed
  <2>. QED
    BY <1>1, <2>1, <2>2, <2>3
    DEF AdapterInv, CryptoHolds, SignHolds, CopyHolds, CleanupHolds, DoneHolds,
        NothingLeftInScratch
<1>3. CASE call' = [call EXCEPT !.stage = "done",
                                !.seen = [key |-> PkBytes, other |-> SkBytes]]
  <2>1. /\ call'.op = "keygen" /\ call'.stage = "done" /\ call'.result = 0
        /\ call'.seen = [key |-> PkBytes, other |-> SkBytes]
    BY <1>1, <1>3 DEF CallsOK
  <2>2. CallsOK'
    BY <1>1, <1>3, WidthAssumption DEF CallsOK
  <2>3. OutputsFollowResult'
    BY <2>1 DEF OutputsFollowResult
  <2>. QED
    BY <1>1, <2>1, <2>2, <2>3
    DEF AdapterInv, CryptoHolds, SignHolds, CopyHolds, CleanupHolds, DoneHolds,
        NothingLeftInScratch
<1>. QED
  BY <1>2, <1>3 DEF CryptoKeypair

LEMMA SignAllocKeeps ==
  ASSUME AdapterInv, SignAlloc
  PROVE  AdapterInv'
<1>1. /\ call.op = "sign" /\ call.stage = "crypto" /\ Untouched /\ call.result = 0
      /\ call.signedLen = 0 /\ scratch = 0 /\ ~secret /\ secret' = secret /\ CallsOK
      /\ call.mLen + SigBytes <= SizeMax /\ SigBytes <= call.passed.other
      /\ call.written <= call.passed.other
  BY DEF SignAlloc, At, AdapterInv, CryptoHolds, SignHolds
<1>2. call.mLen \in Nat
  BY <1>1 DEF CallsOK, Lengths
<1>3. TmpLen(call.mLen) = call.mLen + SigBytes
  BY <1>1, <1>2, SumFits
<1>4. CASE scratch' = (IF TmpLen(call.mLen) = 0 THEN 1 ELSE TmpLen(call.mLen))
           /\ UNCHANGED call
  <2>1. scratch' \in Nat /\ call.mLen + SigBytes <= scratch'
    BY <1>2, <1>3, <1>4, WidthAssumption
  <2>. QED
    BY <1>1, <1>4, <2>1
    DEF AdapterInv, CallsOK, CryptoHolds, SignHolds, CopyHolds, CleanupHolds, DoneHolds,
        NothingLeftInScratch, Untouched
<1>5. CASE call' = [call EXCEPT !.stage = "done", !.result = AllocFailed]
           /\ UNCHANGED scratch
  <2>1. /\ call'.op = "sign" /\ call'.stage = "done" /\ call'.result = AllocFailed
        /\ call'.seen = call.seen /\ call'.passed = call.passed
        /\ call'.written = call.written
    BY <1>1, <1>5 DEF CallsOK
  <2>2. CallsOK'
    BY <1>1, <1>5 DEF CallsOK
  <2>3. OutputsFollowResult'
    BY <1>1, <2>1 DEF OutputsFollowResult, Untouched, AllocFailed
  <2>. QED
    BY <1>1, <1>5, <2>1, <2>2, <2>3
    DEF AdapterInv, CryptoHolds, SignHolds, CopyHolds, CleanupHolds, DoneHolds,
        NothingLeftInScratch
<1>. QED
  BY <1>4, <1>5 DEF SignAlloc

LEMMA CryptoSignKeeps ==
  ASSUME AdapterInv, CryptoSign
  PROVE  AdapterInv'
<1>1. /\ call.op = "sign" /\ call.stage = "crypto" /\ Untouched /\ call.result = 0
      /\ call.signedLen = 0 /\ ~secret /\ scratch # 0 /\ scratch' = scratch /\ CallsOK
      /\ call.mLen + SigBytes <= SizeMax /\ SigBytes <= call.passed.other
      /\ call.mLen + SigBytes <= scratch /\ call.written <= call.passed.other
  BY DEF CryptoSign, At, AdapterInv, CryptoHolds, SignHolds
<1>2. call.mLen \in Nat
  BY <1>1 DEF CallsOK, Lengths
<1>3. TmpLen(call.mLen) = call.mLen + SigBytes
  BY <1>1, <1>2, SumFits
<1>4. CASE call' = [call EXCEPT !.stage = "cleanup", !.result = SignFailed]
           /\ UNCHANGED secret
  <2>1. /\ call'.op = "sign" /\ call'.stage = "cleanup" /\ call'.result = SignFailed
        /\ call'.seen = call.seen /\ call'.passed = call.passed
        /\ call'.written = call.written /\ call'.mLen = call.mLen /\ call'.signedLen = 0
    BY <1>1, <1>4 DEF CallsOK
  <2>2. CallsOK'
    BY <1>1, <1>4 DEF CallsOK
  <2>3. CleanupHolds' /\ SignHolds'
    BY <1>1, <1>2, <2>1, WidthAssumption
    DEF CleanupHolds, SignHolds, Untouched, SignFailed
  <2>. QED
    BY <1>1, <2>1, <2>2, <2>3
    DEF AdapterInv, CryptoHolds, CopyHolds, DoneHolds, NothingLeftInScratch
<1>5. CASE secret' = TRUE /\ call' = [call EXCEPT !.signedLen = SigBytes + call.mLen,
                                                  !.stage = "copy"]
  <2>1. /\ call'.op = "sign" /\ call'.stage = "copy" /\ call'.result = 0
        /\ call'.seen = call.seen /\ call'.passed = call.passed
        /\ call'.written = call.written /\ call'.mLen = call.mLen
        /\ call'.signedLen = SigBytes + call.mLen
    BY <1>1, <1>5 DEF CallsOK
  <2>2. CallsOK'
    <3>1. SigBytes + call.mLen \in Nat
      BY <1>2, WidthAssumption
    <3>. QED
      BY <1>1, <1>5, <3>1 DEF CallsOK
  <2>3. CopyHolds' /\ SignHolds'
    BY <1>1, <1>2, <2>1, WidthAssumption DEF CopyHolds, SignHolds, Untouched
  <2>. QED
    BY <1>1, <2>1, <2>2, <2>3
    DEF AdapterInv, CryptoHolds, CleanupHolds, DoneHolds, NothingLeftInScratch
<1>6. SigBytes + call.mLen = TmpLen(call.mLen)
  BY <1>2, <1>3, WidthAssumption
<1>. QED
  BY <1>4, <1>5, <1>6 DEF CryptoSign

LEMMA SignCopyKeeps ==
  ASSUME AdapterInv, SignCopy
  PROVE  AdapterInv'
<1>1. /\ call.op = "sign" /\ call.stage = "copy" /\ call.result = 0 /\ Untouched /\ CallsOK
      /\ call.signedLen = call.mLen + SigBytes /\ scratch' = scratch /\ secret' = secret
      /\ call.mLen + SigBytes <= SizeMax /\ SigBytes <= call.passed.other
      /\ call.mLen + SigBytes <= scratch
  BY DEF SignCopy, At, AdapterInv, CopyHolds, SignHolds
<1>2. call' = [call EXCEPT !.written = SigBytes, !.seen.other = SigBytes,
                           !.stage = "cleanup"]
  BY DEF SignCopy, CopyLen
<1>3. call.mLen \in Nat
  BY <1>1 DEF CallsOK, Lengths
<1>4. /\ call'.op = "sign" /\ call'.stage = "cleanup" /\ call'.result = 0
      /\ call'.seen.other = SigBytes /\ call'.passed = call.passed
      /\ call'.written = SigBytes /\ call'.mLen = call.mLen
      /\ call'.signedLen = call.mLen + SigBytes
  BY <1>1, <1>2 DEF CallsOK
<1>5. CallsOK'
  BY <1>1, <1>2, WidthAssumption DEF CallsOK
<1>6. CleanupHolds' /\ SignHolds'
  BY <1>1, <1>3, <1>4, WidthAssumption DEF CleanupHolds, SignHolds
<1>. QED
  BY <1>1, <1>4, <1>5, <1>6
  DEF AdapterInv, CryptoHolds, CopyHolds, DoneHolds, NothingLeftInScratch

LEMMA SignCleanupKeeps ==
  ASSUME AdapterInv, SignCleanup
  PROVE  AdapterInv'
<1>1. /\ call.op = "sign" /\ call.stage = "cleanup" /\ CallsOK /\ CleanupHolds
      /\ call.mLen + SigBytes <= SizeMax /\ call.written <= call.passed.other
  BY DEF SignCleanup, At, AdapterInv, SignHolds
<1>2. call' = [call EXCEPT !.stage = "done"] /\ scratch' = 0
      /\ secret' = (secret /\ ClearedLen < call.signedLen)
  BY DEF SignCleanup
<1>3. call.mLen \in Nat /\ call.signedLen \in Nat
  BY <1>1 DEF CallsOK, Lengths
<1>4. ~(ClearedLen < call.signedLen)
  BY <1>1, <1>3, SumFits, WidthAssumption DEF ClearedLen, CleanupHolds
<1>5. secret' = FALSE
  BY <1>2, <1>4
<1>6. /\ call'.op = "sign" /\ call'.stage = "done" /\ call'.result = call.result
      /\ call'.seen = call.seen /\ call'.passed = call.passed
      /\ call'.written = call.written
  BY <1>1, <1>2 DEF CallsOK
<1>7. CallsOK'
  BY <1>1, <1>2, <1>5 DEF CallsOK
<1>8. OutputsFollowResult'
  BY <1>1, <1>6 DEF OutputsFollowResult, CleanupHolds, Untouched
<1>. QED
  BY <1>1, <1>2, <1>5, <1>6, <1>7, <1>8
  DEF AdapterInv, CryptoHolds, SignHolds, CopyHolds, CleanupHolds, DoneHolds,
      NothingLeftInScratch

LEMMA CryptoVerifyKeeps ==
  ASSUME AdapterInv, CryptoVerify
  PROVE  AdapterInv'
<1>1. /\ call.op = "verify" /\ call.stage = "crypto" /\ Untouched /\ CallsOK
      /\ scratch = 0 /\ ~secret /\ scratch' = scratch /\ secret' = secret
  BY DEF CryptoVerify, At, AdapterInv, CryptoHolds
<1>2. PICK v \in {"valid", "invalid", "error"} :
        call' = [call EXCEPT !.stage = "done", !.verdict = v,
                             !.result = IF v = "valid" THEN 0 ELSE VerifyFailed]
  BY DEF CryptoVerify
<1>3. /\ call'.op = "verify" /\ call'.stage = "done"
      /\ call'.result = IF v = "valid" THEN 0 ELSE VerifyFailed
      /\ call'.verdict = v /\ call'.seen = call.seen /\ call'.passed = call.passed
      /\ call'.written = call.written
  BY <1>1, <1>2 DEF CallsOK
<1>4. CallsOK'
  BY <1>1, <1>2 DEF CallsOK
<1>5. OutputsFollowResult'
  BY <1>1, <1>3 DEF OutputsFollowResult, Untouched, VerifyFailed
<1>. QED
  BY <1>1, <1>3, <1>4, <1>5
  DEF AdapterInv, CryptoHolds, SignHolds, CopyHolds, CleanupHolds, DoneHolds,
      NothingLeftInScratch

(* What holds of no call at all.                                           *)
LEMMA NoCallHolds ==
  ASSUME call = NoCall, scratch = 0, secret = FALSE
  PROVE  AdapterInv
<1>1. 0 \in Lengths
  BY WidthAssumption DEF Lengths
<1>2. CallsOK
  BY <1>1 DEF CallsOK, NoCall, Pair
<1>3. call.op = "none" /\ call.stage = "idle"
  BY DEF NoCall
<1>. QED
  BY <1>2, <1>3
  DEF AdapterInv, CryptoHolds, SignHolds, CopyHolds, CleanupHolds, DoneHolds,
      NothingLeftInScratch

LEMMA ReturnKeeps ==
  ASSUME AdapterInv, Return
  PROVE  AdapterInv'
<1>1. call' = NoCall /\ scratch' = 0 /\ secret' = FALSE
  BY DEF Return, AdapterInv, NothingLeftInScratch, CallsOK
<1>2. 0 \in Lengths
  BY WidthAssumption DEF Lengths
<1>3. CallsOK'
  BY <1>1, <1>2 DEF CallsOK, NoCall, Pair
<1>4. call'.op = "none" /\ call'.stage = "idle"
  BY <1>1 DEF NoCall
<1>. QED
  BY <1>1, <1>3, <1>4
  DEF AdapterInv, CryptoHolds, SignHolds, CopyHolds, CleanupHolds, DoneHolds,
      NothingLeftInScratch

-----------------------------------------------------------------------------
(* The inductive invariant holds in every behaviour of the adapter.        *)
THEOREM AdapterInvHolds == Spec => []AdapterInv
<1>1. Init => AdapterInv
  BY NoCallHolds DEF Init
<1>2. AdapterInv /\ [Next]_vars => AdapterInv'
  <2>. SUFFICES ASSUME AdapterInv, [Next]_vars PROVE AdapterInv'
    OBVIOUS
  <2>1. CASE Next
    BY <2>1, CallKeeps, CryptoKeypairKeeps, SignAllocKeeps, CryptoSignKeeps, SignCopyKeeps,
       SignCleanupKeeps, CryptoVerifyKeeps, ReturnKeeps DEF Next
  <2>2. CASE UNCHANGED vars
    BY <2>2, ZenonT(40)
    DEF vars, AdapterInv, CallsOK, CryptoHolds, SignHolds, CopyHolds, CleanupHolds, DoneHolds,
        OutputsFollowResult, NothingLeftInScratch, Untouched
  <2>. QED BY <2>1, <2>2
<1>. QED BY <1>1, <1>2, PTL DEF Spec

(* For every length of a message, a key and a buffer and any two widths,   *)
(* the signature and the message stay within the scratch buffer, and what  *)
(* is copied out of it stays within the caller's.                          *)
THEOREM NoOverrun == Spec => []WritesStayWithin
<1>1. AdapterInv => WritesStayWithin
  BY WidthAssumption
  DEF AdapterInv, WritesStayWithin, CallsOK, SignHolds, CopyHolds, CleanupHolds, Lengths, Pair
<1>. QED BY <1>1, AdapterInvHolds, PTL

(* An operation that does not return 0 has changed no length and written   *)
(* no signature; one that does has set them all.                           *)
THEOREM ResultsAreTrue == Spec => []OutputsFollowResult
<1>1. AdapterInv => OutputsFollowResult
  BY DEF AdapterInv, DoneHolds, OutputsFollowResult
<1>. QED BY <1>1, AdapterInvHolds, PTL

(* Every path through sig_sign clears the scratch buffer and frees it.     *)
THEOREM ScratchIsCleared == Spec => []NothingLeftInScratch
<1>1. AdapterInv => NothingLeftInScratch
  BY DEF AdapterInv
<1>. QED BY <1>1, AdapterInvHolds, PTL
-----------------------------------------------------------------------------
(* The numbers of the generator.                                            *)

Byte == 0 .. Base - 1
Number == [1 .. SEEDLEN -> Byte]
Digest == [1 .. OUTLEN -> Byte]

\* The number that the last k of n bytes or columns are.
Part(f, n, k) == Total([j \in 1 .. n |-> f[n + 1 - j] * Pow2[ByteBits * (j - 1)]], k)

LEMMA ByteLengths ==
  /\ ByteBits \in Nat \ {0} /\ SEEDLEN \in Nat \ {0} /\ OUTLEN \in Nat \ {0}
  /\ OUTLEN <= SEEDLEN
BY LengthsAssumption

\* The weights of bytes.
LEMMA Weights ==
  /\ Base \in Nat /\ Base >= 2
  /\ Pow2[ByteBits * 0] = 1
  /\ \A k \in Nat : /\ Pow2[ByteBits * k] \in Nat \ {0}
                    /\ Pow2[ByteBits * (k + 1)] = Base * Pow2[ByteBits * k]
<1>1. ByteBits \in Nat /\ ByteBits - 1 \in Nat /\ (ByteBits - 1) + 1 = ByteBits
  BY ByteLengths
<1>2. Pow2[ByteBits] = 2 * Pow2[ByteBits - 1] /\ Pow2[ByteBits - 1] \in Nat \ {0}
  BY <1>1, Pow2Steps
<1>3. Base \in Nat /\ Base >= 2
  BY <1>2 DEF Base
<1>4. ByteBits * 0 = 0
  BY <1>1
<1>5. ASSUME NEW k \in Nat
      PROVE  /\ Pow2[ByteBits * k] \in Nat \ {0}
             /\ Pow2[ByteBits * (k + 1)] = Base * Pow2[ByteBits * k]
  <2>1. ByteBits * k \in Nat /\ ByteBits * (k + 1) = ByteBits + ByteBits * k
    BY <1>1
  <2>2. Pow2[ByteBits + ByteBits * k] = Pow2[ByteBits] * Pow2[ByteBits * k]
    BY <1>1, <2>1, Pow2Sum
  <2>3. Pow2[ByteBits * k] \in Nat \ {0}
    BY <2>1, Pow2Steps
  <2> QED
    BY <2>1, <2>2, <2>3 DEF Base
<1> QED
  BY <1>3, <1>4, <1>5, Pow2Steps

LEMMA PartSteps ==
  ASSUME NEW n \in Nat, NEW f \in [1 .. n -> Nat]
  PROVE  /\ Part(f, n, 0) = 0
         /\ \A k \in 0 .. n - 1 :
              Part(f, n, k + 1) = Part(f, n, k) + f[n - k] * Pow2[ByteBits * k]
         /\ \A k \in 0 .. n : Part(f, n, k) \in Nat
<1> DEFINE terms == [j \in 1 .. n |-> f[n + 1 - j] * Pow2[ByteBits * (j - 1)]]
<1>1. \A k : Part(f, n, k) = Total(terms, k)
  BY DEF Part
<1>2. \A j \in 1 .. n : terms[j] = f[n + 1 - j] * Pow2[ByteBits * (j - 1)]
  OBVIOUS
<1> HIDE DEF terms
<1>3. ASSUME NEW j \in 1 .. n
      PROVE  terms[j] \in Nat
  <2>1. f[n + 1 - j] \in Nat /\ j - 1 \in Nat
    OBVIOUS
  <2>2. Pow2[ByteBits * (j - 1)] \in Nat
    BY <2>1, Weights
  <2> QED
    BY <1>2, <2>1, <2>2
<1>4. ASSUME NEW k \in 0 .. n - 1
      PROVE  Total(terms, k + 1) = Total(terms, k) + f[n - k] * Pow2[ByteBits * k]
  <2>1. k \in Nat /\ k + 1 \in 1 .. n /\ n + 1 - (k + 1) = n - k /\ (k + 1) - 1 = k
    OBVIOUS
  <2>2. terms[k + 1] = f[n + 1 - (k + 1)] * Pow2[ByteBits * ((k + 1) - 1)]
    BY <1>2, <2>1
  <2>3. Total(terms, k + 1) = Total(terms, k) + terms[k + 1]
    BY <2>1, TotalSteps
  <2> QED
    BY <2>1, <2>2, <2>3
<1>5. \A k \in 0 .. n : Total(terms, k) \in Nat
  BY <1>3, TotalIsNumber
<1> QED
  BY <1>1, <1>4, <1>5, TotalSteps

\* Bytes that are fewer make a smaller number.
LEMMA PartBelow ==
  ASSUME NEW n \in Nat, NEW f \in [1 .. n -> Byte], NEW k \in 0 .. n
  PROVE  Part(f, n, k) \in Nat /\ Part(f, n, k) < Pow2[ByteBits * k]
<1>1. f \in [1 .. n -> Nat] /\ Base \in Nat
  <2>1. Base \in Nat
    BY Weights
  <2>2. Byte \subseteq Nat
    BY <2>1 DEF Byte
  <2> QED
    BY <2>1, <2>2
<1>2. \A j \in 0 .. n : Part(f, n, j) \in Nat
  BY <1>1, PartSteps
<1> DEFINE S == {j \in Nat : j <= n => Part(f, n, j) < Pow2[ByteBits * j]}
<1>3. 0 \in S
  <2>1. Part(f, n, 0) = 0 /\ Pow2[ByteBits * 0] = 1
    BY <1>1, PartSteps, Weights
  <2> QED
    BY <2>1
<1>4. ASSUME NEW j \in Nat, j \in S
      PROVE  j + 1 \in S
  <2>1. ASSUME j + 1 <= n
        PROVE  Part(f, n, j + 1) < Pow2[ByteBits * (j + 1)]
    <3> DEFINE p == Part(f, n, j)
               b == f[n - j]
               w == Pow2[ByteBits * j]
    <3>1. j \in 0 .. n - 1 /\ j \in 0 .. n /\ n - j \in 1 .. n
      BY <2>1
    <3>2. Part(f, n, j + 1) = p + b * w
      BY <1>1, <3>1, PartSteps
    <3>3. Pow2[ByteBits * (j + 1)] = Base * w /\ w \in Nat \ {0}
      BY Weights
    <3>4. p \in Nat /\ p < w
      BY <1>2, <1>4, <2>1, <3>1
    <3>5. b \in Nat /\ b + 1 <= Base
      BY <1>1, <3>1 DEF Byte
    <3> HIDE DEF p, b, w
    <3>6. (b + 1) * w <= Base * w
      BY <1>1, <3>3, <3>5
    <3>7. (b + 1) * w = b * w + w
      BY <3>3, <3>5
    <3> QED
      BY <1>1, <3>2, <3>3, <3>4, <3>5, <3>6, <3>7
  <2> QED
    BY <2>1
<1> HIDE DEF S
<1>5. k \in S
  BY <1>3, <1>4, NumbersByInduction
<1> QED
  BY <1>2, <1>5 DEF S

\* The value of a sequence of bytes or columns.
LEMMA ValueIsPart ==
  ASSUME NEW n \in Nat, NEW f \in [1 .. n -> Nat]
  PROVE  f \in Seq(Nat) /\ Len(f) = n /\ Value(f) = Part(f, n, n)
<1>1. f \in Seq(Nat) /\ Len(f) = n
  OBVIOUS
<1> QED
  BY <1>1 DEF Value, Part

-----------------------------------------------------------------------------
(* Adding with carry.                                                       *)

LEMMA CarrySteps ==
  ASSUME NEW columns \in [1 .. SEEDLEN -> Nat]
  PROVE  /\ Carry(columns, 0) = 0
         /\ \A k \in 0 .. SEEDLEN - 1 :
              Carry(columns, k + 1) = (columns[SEEDLEN - k] + Carry(columns, k)) \div Base
         /\ \A k \in 0 .. SEEDLEN : Carry(columns, k) \in Nat
<1> DEFINE Step(k, x) == (columns[SEEDLEN + 1 - k] + x) \div Base
           step == [k \in Nat |-> [x \in Nat |-> IF k \in 1 .. SEEDLEN THEN Step(k, x) ELSE 0]]
           IsCarry(g) == g = [k \in 0 .. SEEDLEN |->
                                IF k = 0 THEN 0
                                ELSE (columns[SEEDLEN + 1 - k] + g[k - 1]) \div Base]
           h == CHOOSE g : IsCarry(g)
<1>1. SEEDLEN \in Nat \ {0} /\ Base \in Nat \ {0}
  BY ByteLengths, Weights
<1>2. ASSUME NEW k \in 1 .. SEEDLEN, NEW x \in Nat
      PROVE  Step(k, x) \in Nat
  <2> DEFINE total == columns[SEEDLEN + 1 - k] + x
  <2>1. columns[SEEDLEN + 1 - k] \in Nat
    BY <1>1
  <2>2. total \in Nat
    BY <2>1
  <2> HIDE DEF total
  <2>3. total \div Base \in Nat
    BY <1>1, <2>2
  <2> QED
    BY <2>3 DEF total
<1>3. step \in [Nat -> [Nat -> Nat]]
  <2> HIDE DEF Step
  <2> QED
    BY <1>2
<1>4. PICK f : f \in [Nat -> Nat] /\ f[0] = 0 /\ \A k \in Nat : f[k + 1] = step[k + 1][f[k]]
  <2> HIDE DEF step
  <2>1. 0 \in Nat
    OBVIOUS
  <2>2. \E f : Follows(f, Nat, 0, step)
    BY <1>3, <2>1, Recursion
  <2> QED
    BY <2>2, Zenon DEF Follows
<1>5. ASSUME NEW k \in 1 .. SEEDLEN
      PROVE  f[k] = Step(k, f[k - 1])
  <2>1. k - 1 \in Nat /\ (k - 1) + 1 = k /\ k \in Nat
    BY <1>1
  <2>2. f[k] = step[k][f[k - 1]] /\ f[k - 1] \in Nat
    BY <1>4, <2>1
  <2> HIDE DEF Step
  <2> QED
    BY <2>1, <2>2
<1>6. IsCarry([k \in 0 .. SEEDLEN |-> f[k]])
  <2> DEFINE g == [k \in 0 .. SEEDLEN |-> f[k]]
  <2>1. ASSUME NEW k \in 0 .. SEEDLEN
        PROVE  g[k] = IF k = 0 THEN 0 ELSE (columns[SEEDLEN + 1 - k] + g[k - 1]) \div Base
    <3>1. CASE k = 0
      BY <1>4, <3>1
    <3>2. CASE k # 0
      <4>1. k \in 1 .. SEEDLEN /\ k - 1 \in 0 .. SEEDLEN
        BY <1>1, <3>2
      <4> QED
        BY <1>5, <3>2, <4>1
    <3> QED
      BY <3>1, <3>2
  <2> QED
    BY <2>1
<1>7. IsCarry(h)
  <2> HIDE DEF IsCarry
  <2> QED
    BY <1>6
<1>8. \A k : Carry(columns, k) = h[k]
  BY Zenon DEF Carry
<1>9. \A k \in 0 .. SEEDLEN :
        h[k] = IF k = 0 THEN 0 ELSE (columns[SEEDLEN + 1 - k] + h[k - 1]) \div Base
  <2> DEFINE e == [k \in 0 .. SEEDLEN |->
                     IF k = 0 THEN 0 ELSE (columns[SEEDLEN + 1 - k] + h[k - 1]) \div Base]
  <2> HIDE DEF h
  <2>1. \A k \in 0 .. SEEDLEN :
          e[k] = IF k = 0 THEN 0 ELSE (columns[SEEDLEN + 1 - k] + h[k - 1]) \div Base
    OBVIOUS
  <2>2. h = e
    BY <1>7, Zenon
  <2> QED
    BY <2>1, <2>2, Zenon
<1> HIDE DEF h, step, IsCarry
<1>10. ASSUME NEW k \in 0 .. SEEDLEN - 1
       PROVE  h[k + 1] = (columns[SEEDLEN - k] + h[k]) \div Base
  <2>1. k + 1 \in 0 .. SEEDLEN /\ k + 1 # 0 /\ (k + 1) - 1 = k /\ SEEDLEN + 1 - (k + 1) = SEEDLEN - k
    BY <1>1
  <2> QED
    BY <1>9, <2>1
<1>11. h[0] = 0
  <2>1. 0 \in 0 .. SEEDLEN
    BY <1>1
  <2> QED
    BY <1>9, <2>1
<1>12. ASSUME NEW k \in 0 .. SEEDLEN
       PROVE  h[k] \in Nat
  <2> DEFINE S == {j \in Nat : j <= SEEDLEN => h[j] \in Nat}
  <2>1. 0 \in S
    BY <1>11
  <2>2. ASSUME NEW j \in Nat, j \in S
        PROVE  j + 1 \in S
    <3>1. ASSUME j + 1 <= SEEDLEN
          PROVE  h[j + 1] \in Nat
      <4>1. j \in 0 .. SEEDLEN - 1 /\ SEEDLEN - j \in 1 .. SEEDLEN
        BY <1>1, <3>1
      <4>2. h[j] \in Nat
        BY <1>1, <2>2, <4>1
      <4>3. columns[SEEDLEN - j] \in Nat
        BY <4>1
      <4> DEFINE x == columns[SEEDLEN - j]
                 y == h[j]
      <4>4. h[j + 1] = (x + y) \div Base
        BY <1>10, <4>1
      <4>5. x \in Nat /\ y \in Nat
        BY <4>2, <4>3
      <4> HIDE DEF x, y
      <4>6. (x + y) \div Base \in Nat
        <5>1. \A a, d \in Nat : d # 0 => a \div d \in Nat
          OBVIOUS
        <5>2. x + y \in Nat /\ Base \in Nat /\ Base # 0
          BY <1>1, <4>5
        <5> QED
          BY <5>1, <5>2, Zenon
      <4> QED
        BY <4>4, <4>6
    <3> QED
      BY <3>1
  <2> HIDE DEF S
  <2>3. k \in Nat /\ k <= SEEDLEN
    BY <1>1
  <2>4. k \in S
    BY <2>1, <2>2, <2>3, NumbersByInduction
  <2> QED
    BY <2>3, <2>4 DEF S
<1> QED
  BY <1>8, <1>10, <1>11, <1>12

\* Four bytes and a carry give a carry of at most 3, which the unsigned char of
\* plus_Big_Number holds.
LEMMA CarryFits ==
  ASSUME NEW columns \in [1 .. SEEDLEN -> Nat],
         \A j \in 1 .. SEEDLEN : columns[j] <= 4 * (Base - 1),
         NEW k \in 0 .. SEEDLEN
  PROVE  Carry(columns, k) <= 3
<1> DEFINE S == {j \in Nat : j <= SEEDLEN => Carry(columns, j) <= 3}
<1>1. SEEDLEN \in Nat \ {0} /\ Base \in Nat \ {0}
  BY ByteLengths, Weights
<1>2. 0 \in S
  BY CarrySteps
<1>3. ASSUME NEW j \in Nat, j \in S
      PROVE  j + 1 \in S
  <2>1. ASSUME j + 1 <= SEEDLEN
        PROVE  Carry(columns, j + 1) <= 3
    <3> DEFINE total == columns[SEEDLEN - j] + Carry(columns, j)
               high == total \div Base
               low == total % Base
    <3>1. j \in 0 .. SEEDLEN - 1 /\ j \in 0 .. SEEDLEN /\ SEEDLEN - j \in 1 .. SEEDLEN
      BY <1>1, <2>1
    <3>2. Carry(columns, j) \in Nat /\ Carry(columns, j) <= 3
      BY <1>3, <3>1, CarrySteps
    <3>3. columns[SEEDLEN - j] \in Nat /\ columns[SEEDLEN - j] <= 4 * (Base - 1)
      BY <3>1
    <3>4. total \in Nat /\ total < 4 * Base
      BY <1>1, <3>2, <3>3
    <3>5. Carry(columns, j + 1) = high
      BY <3>1, CarrySteps
    <3> HIDE DEF total
    <3>6. high \in Nat /\ low \in Nat /\ total = low + Base * high
      BY <1>1, <3>4
    <3> HIDE DEF high, low
    <3>7. ASSUME 4 <= high
          PROVE  FALSE
      <4> DEFINE more == high - 4
      <4>1. high = 4 + more /\ more \in Nat
        BY <3>6, <3>7
      <4> HIDE DEF more
      <4>2. Base * (4 + more) = 4 * Base + Base * more /\ Base * more \in Nat
        BY <1>1, <4>1
      <4> QED
        BY <1>1, <3>4, <3>6, <4>1, <4>2
    <3> QED
      BY <3>5, <3>6, <3>7
  <2> QED
    BY <2>1
<1> HIDE DEF S
<1>4. k \in Nat /\ k <= SEEDLEN
  BY <1>1
<1>5. k \in S
  BY <1>2, <1>3, <1>4, NumbersByInduction
<1> QED
  BY <1>4, <1>5 DEF S

\* What was added up is in the bytes, and in the carry behind them.
LEMMA CarriedPart ==
  ASSUME NEW columns \in [1 .. SEEDLEN -> Nat]
  PROVE  /\ Carried(columns) \in Number
         /\ \A k \in 0 .. SEEDLEN :
              Part(columns, SEEDLEN, k)
                = Part(Carried(columns), SEEDLEN, k) + Carry(columns, k) * Pow2[ByteBits * k]
<1> DEFINE d == Carried(columns)
<1>1. SEEDLEN \in Nat \ {0} /\ Base \in Nat \ {0}
  BY ByteLengths, Weights
<1>2. \A k \in 0 .. SEEDLEN : Carry(columns, k) \in Nat
  BY CarrySteps
<1>3. ASSUME NEW j \in 1 .. SEEDLEN
      PROVE  /\ d[j] = (columns[j] + Carry(columns, SEEDLEN - j)) % Base
             /\ d[j] \in Byte
  <2>1. d[j] = (columns[j] + Carry(columns, SEEDLEN - j)) % Base
    BY DEF Carried
  <2>2. Carry(columns, SEEDLEN - j) \in Nat /\ columns[j] \in Nat
    BY <1>1, <1>2
  <2> DEFINE total == columns[j] + Carry(columns, SEEDLEN - j)
  <2>3. total \in Nat
    BY <2>2
  <2> HIDE DEF total
  <2>4. total % Base \in 0 .. Base - 1
    BY <1>1, <2>3
  <2> QED
    BY <2>1, <2>4 DEF Byte, total
<1>4. d \in Number
  <2>1. d = [j \in 1 .. SEEDLEN |-> d[j]]
    BY DEF Carried
  <2> HIDE DEF d
  <2> QED
    BY <1>3, <2>1 DEF Number
<1>5. d \in [1 .. SEEDLEN -> Nat]
  BY <1>1, <1>4 DEF Number, Byte
<1> HIDE DEF d
<1> DEFINE S == {k \in Nat : k <= SEEDLEN =>
                   Part(columns, SEEDLEN, k)
                     = Part(d, SEEDLEN, k) + Carry(columns, k) * Pow2[ByteBits * k]}
<1>6. 0 \in S
  <2>1. /\ Part(columns, SEEDLEN, 0) = 0 /\ Part(d, SEEDLEN, 0) = 0 /\ Carry(columns, 0) = 0
        /\ Pow2[ByteBits * 0] = 1
    BY <1>1, <1>5, PartSteps, CarrySteps, Weights
  <2> QED
    BY <2>1
<1>7. ASSUME NEW k \in Nat, k \in S
      PROVE  k + 1 \in S
  <2>1. ASSUME k + 1 <= SEEDLEN
        PROVE  Part(columns, SEEDLEN, k + 1)
                 = Part(d, SEEDLEN, k + 1) + Carry(columns, k + 1) * Pow2[ByteBits * (k + 1)]
    <3> DEFINE p == Part(columns, SEEDLEN, k)
               q == Part(d, SEEDLEN, k)
               x == columns[SEEDLEN - k]
               c == Carry(columns, k)
               w == Pow2[ByteBits * k]
               total == x + c
    <3>1. /\ k \in 0 .. SEEDLEN - 1 /\ k \in 0 .. SEEDLEN /\ SEEDLEN - k \in 1 .. SEEDLEN
          /\ SEEDLEN - (SEEDLEN - k) = k
      BY <1>1, <2>1
    <3>2. p = q + c * w
      BY <1>7, <2>1, <3>1
    <3>3. Part(columns, SEEDLEN, k + 1) = p + x * w
      BY <1>1, <3>1, PartSteps
    <3>4. Part(d, SEEDLEN, k + 1) = q + (total % Base) * w
      <4>1. d[SEEDLEN - k] = total % Base
        BY <1>3, <3>1
      <4> QED
        BY <1>1, <1>5, <3>1, <4>1, PartSteps
    <3>5. Carry(columns, k + 1) = total \div Base
      BY <3>1, CarrySteps
    <3>6. Pow2[ByteBits * (k + 1)] = Base * w /\ w \in Nat
      BY Weights
    <3>7. q \in Nat /\ x \in Nat /\ c \in Nat
      BY <1>1, <1>2, <1>5, <3>1, PartSteps
    <3> HIDE DEF p, q, x, c, w
    <3> DEFINE high == total \div Base
               low == total % Base
    <3>8. total = low + Base * high /\ low \in Nat /\ high \in Nat /\ total \in Nat
      BY <1>1, <3>7
    <3>9. p + x * w = q + total * w
      BY <3>2, <3>6, <3>7
    <3> HIDE DEF total, low, high
    <3>10. total * w = low * w + high * (Base * w)
      <4>1. (low + Base * high) * w = low * w + (Base * high) * w
        BY <1>1, <3>6, <3>8
      <4>2. (Base * high) * w = high * (Base * w)
        BY <1>1, <3>6, <3>8
      <4> QED
        BY <3>8, <4>1, <4>2
    <3>11. q + (low * w + high * (Base * w)) = (q + low * w) + high * (Base * w)
      BY <1>1, <3>6, <3>7, <3>8
    <3> QED
      BY <3>3, <3>4, <3>5, <3>6, <3>9, <3>10, <3>11 DEF low, high
  <2> QED
    BY <2>1
<1> HIDE DEF S
<1>8. \A k \in Nat : k \in S
  BY <1>6, <1>7, NumbersByInduction
<1> QED
  BY <1>1, <1>4, <1>8 DEF S, d

\* The numbers are added modulo the one that has no room in them.
LEMMA CarriedValue ==
  ASSUME NEW columns \in [1 .. SEEDLEN -> Nat]
  PROVE  /\ Carried(columns) \in Number
         /\ Value(Carried(columns)) = Value(columns) % Pow2[ByteBits * SEEDLEN]
<1> DEFINE d == Carried(columns)
           low == Part(d, SEEDLEN, SEEDLEN)
           high == Carry(columns, SEEDLEN)
           w == Pow2[ByteBits * SEEDLEN]
<1>1. SEEDLEN \in Nat \ {0} /\ SEEDLEN \in 0 .. SEEDLEN
  BY ByteLengths
<1>2. d \in Number /\ Part(columns, SEEDLEN, SEEDLEN) = low + high * w
  BY <1>1, CarriedPart
<1>3. low \in Nat /\ low < w /\ high \in Nat /\ w \in Nat \ {0}
  BY <1>1, <1>2, PartBelow, CarrySteps, Weights DEF Number
<1>4. d \in [1 .. SEEDLEN -> Nat]
  <2>1. Byte \subseteq Nat
    BY Weights DEF Byte
  <2> QED
    BY <1>2, <2>1 DEF Number
<1>5. Value(d) = low /\ Value(columns) = Part(columns, SEEDLEN, SEEDLEN)
  BY <1>1, <1>4, ValueIsPart
<1> HIDE DEF d, low, high, w
<1>6. (low + w * high) % w = low /\ low + high * w = low + w * high
  BY <1>3, Divides
<1> QED
  BY <1>2, <1>5, <1>6 DEF d, w

-----------------------------------------------------------------------------
(* What is added up.                                                        *)

LEMMA BytesAreNumbers ==
  /\ Byte \subseteq Nat /\ 0 \in Byte
  /\ \A n \in Nat : [1 .. n -> Byte] \subseteq [1 .. n -> Nat]
<1>1. Base \in Nat /\ Base >= 2
  BY Weights
<1>2. Byte \subseteq Nat /\ 0 \in Byte
  BY <1>1 DEF Byte
<1> QED
  BY <1>2

\* The bytes of plus_Big_Number.
LEMMA PlusValue ==
  ASSUME NEW f \in Number, NEW g \in Number, NEW h \in Number, NEW e \in Number
  PROVE  /\ plus_Big_Number(f, g, h, e) \in Number
         /\ Value(plus_Big_Number(f, g, h, e))
              = (Value(f) + Value(g) + Value(h) + Value(e)) % Pow2[ByteBits * SEEDLEN]
<1> DEFINE sum == [j \in 1 .. SEEDLEN |-> f[j] + g[j] + h[j] + e[j]]
<1>1. SEEDLEN \in Nat \ {0}
  BY ByteLengths
<1>2. /\ f \in [1 .. SEEDLEN -> Nat] /\ g \in [1 .. SEEDLEN -> Nat]
      /\ h \in [1 .. SEEDLEN -> Nat] /\ e \in [1 .. SEEDLEN -> Nat]
  BY <1>1, BytesAreNumbers DEF Number
<1>3. sum \in [1 .. SEEDLEN -> Nat]
  BY <1>2
<1>4. \A j \in 1 .. SEEDLEN : sum[j] = f[j] + g[j] + h[j] + e[j]
  OBVIOUS
<1>5. plus_Big_Number(f, g, h, e) = Carried(sum)
  BY DEF plus_Big_Number
<1> HIDE DEF sum
<1> DEFINE Terms(k) == Part(f, SEEDLEN, k) + Part(g, SEEDLEN, k)
                         + Part(h, SEEDLEN, k) + Part(e, SEEDLEN, k)
           S == {k \in Nat : k <= SEEDLEN => Part(sum, SEEDLEN, k) = Terms(k)}
<1>6. 0 \in S
  <2>1. /\ Part(sum, SEEDLEN, 0) = 0 /\ Part(f, SEEDLEN, 0) = 0 /\ Part(g, SEEDLEN, 0) = 0
        /\ Part(h, SEEDLEN, 0) = 0 /\ Part(e, SEEDLEN, 0) = 0
    BY <1>1, <1>2, <1>3, PartSteps
  <2> QED
    BY <2>1
<1>7. ASSUME NEW k \in Nat, k \in S
      PROVE  k + 1 \in S
  <2>1. ASSUME k + 1 <= SEEDLEN
        PROVE  Part(sum, SEEDLEN, k + 1) = Terms(k + 1)
    <3> DEFINE w == Pow2[ByteBits * k]
               i0 == SEEDLEN - k
    <3>1. k \in 0 .. SEEDLEN - 1 /\ k \in 0 .. SEEDLEN /\ i0 \in 1 .. SEEDLEN /\ k <= SEEDLEN
      BY <1>1, <2>1
    <3>2. /\ Part(sum, SEEDLEN, k + 1) = Part(sum, SEEDLEN, k) + sum[i0] * w
          /\ Part(f, SEEDLEN, k + 1) = Part(f, SEEDLEN, k) + f[i0] * w
          /\ Part(g, SEEDLEN, k + 1) = Part(g, SEEDLEN, k) + g[i0] * w
          /\ Part(h, SEEDLEN, k + 1) = Part(h, SEEDLEN, k) + h[i0] * w
          /\ Part(e, SEEDLEN, k + 1) = Part(e, SEEDLEN, k) + e[i0] * w
      BY <1>1, <1>2, <1>3, <3>1, PartSteps
    <3>3. /\ Part(f, SEEDLEN, k) \in Nat /\ Part(g, SEEDLEN, k) \in Nat
          /\ Part(h, SEEDLEN, k) \in Nat /\ Part(e, SEEDLEN, k) \in Nat
      BY <1>1, <1>2, <3>1, PartSteps
    <3>4. f[i0] \in Nat /\ g[i0] \in Nat /\ h[i0] \in Nat /\ e[i0] \in Nat /\ w \in Nat
      BY <1>2, <3>1, Weights
    <3>5. sum[i0] = f[i0] + g[i0] + h[i0] + e[i0]
      BY <1>4, <3>1
    <3>6. Part(sum, SEEDLEN, k) = Terms(k)
      BY <1>7, <3>1
    <3> HIDE DEF w, i0
    <3>7. \A a, b, c, d, x \in Nat : (a + b + c + d) * x = a * x + b * x + c * x + d * x
      OBVIOUS
    <3>8. sum[i0] * w = f[i0] * w + g[i0] * w + h[i0] * w + e[i0] * w
      <4> DEFINE a == f[i0]
                 b == g[i0]
                 c == h[i0]
                 d == e[i0]
      <4>1. a \in Nat /\ b \in Nat /\ c \in Nat /\ d \in Nat /\ w \in Nat
        BY <3>4
      <4> HIDE DEF a, b, c, d
      <4>2. (a + b + c + d) * w = a * w + b * w + c * w + d * w
        BY <3>7, <4>1
      <4> QED
        BY <3>5, <4>2 DEF a, b, c, d
    <3>9. f[i0] * w \in Nat /\ g[i0] * w \in Nat /\ h[i0] * w \in Nat /\ e[i0] * w \in Nat
      BY <3>4
    <3> QED
      BY <3>2, <3>3, <3>6, <3>8, <3>9
  <2> QED
    BY <2>1
<1> HIDE DEF S
<1>8. SEEDLEN \in S
  BY <1>1, <1>6, <1>7, NumbersByInduction
<1>9. Part(sum, SEEDLEN, SEEDLEN) = Terms(SEEDLEN)
  BY <1>1, <1>8 DEF S
<1>10. Value(sum) = Value(f) + Value(g) + Value(h) + Value(e)
  BY <1>1, <1>2, <1>3, <1>9, ValueIsPart
<1> QED
  BY <1>3, <1>5, <1>10, CarriedValue

\* The bytes of inc_Big_Number.
LEMMA IncValue ==
  ASSUME NEW f \in Number
  PROVE  /\ inc_Big_Number(f) \in Number
         /\ Value(inc_Big_Number(f)) = (Value(f) + 1) % Pow2[ByteBits * SEEDLEN]
<1> DEFINE sum == [f EXCEPT ![SEEDLEN] = @ + 1]
<1>1. SEEDLEN \in Nat \ {0} /\ SEEDLEN \in 1 .. SEEDLEN
  BY ByteLengths
<1>2. f \in [1 .. SEEDLEN -> Nat]
  BY <1>1, BytesAreNumbers DEF Number
<1>3. sum \in [1 .. SEEDLEN -> Nat]
  BY <1>1, <1>2
<1>4. \A j \in 1 .. SEEDLEN : sum[j] = IF j = SEEDLEN THEN f[j] + 1 ELSE f[j]
  BY <1>2
<1>5. inc_Big_Number(f) = Carried(sum)
  BY DEF inc_Big_Number
<1> HIDE DEF sum
<1> DEFINE S == {k \in Nat : k < SEEDLEN =>
                   Part(sum, SEEDLEN, k + 1) = Part(f, SEEDLEN, k + 1) + 1}
<1>6. /\ \A k \in 0 .. SEEDLEN - 1 :
           /\ Part(sum, SEEDLEN, k + 1)
                = Part(sum, SEEDLEN, k) + sum[SEEDLEN - k] * Pow2[ByteBits * k]
           /\ Part(f, SEEDLEN, k + 1)
                = Part(f, SEEDLEN, k) + f[SEEDLEN - k] * Pow2[ByteBits * k]
      /\ Part(sum, SEEDLEN, 0) = 0 /\ Part(f, SEEDLEN, 0) = 0
      /\ \A k \in 0 .. SEEDLEN : Part(f, SEEDLEN, k) \in Nat
  BY <1>1, <1>2, <1>3, PartSteps
<1>7. 0 \in S
  <2>1. 0 \in 0 .. SEEDLEN - 1 /\ SEEDLEN - 0 = SEEDLEN /\ Pow2[ByteBits * 0] = 1
    BY <1>1, Weights
  <2>2. /\ Part(sum, SEEDLEN, 0 + 1) = 0 + sum[SEEDLEN] * 1
        /\ Part(f, SEEDLEN, 0 + 1) = 0 + f[SEEDLEN] * 1
    BY <1>6, <2>1
  <2>3. sum[SEEDLEN] = f[SEEDLEN] + 1 /\ f[SEEDLEN] \in Nat
    BY <1>1, <1>2, <1>4
  <2>4. Part(sum, SEEDLEN, 0 + 1) = Part(f, SEEDLEN, 0 + 1) + 1
    BY <2>2, <2>3
  <2> QED
    BY <2>4
<1>8. ASSUME NEW k \in Nat, k \in S
      PROVE  k + 1 \in S
  <2>1. ASSUME k + 1 < SEEDLEN
        PROVE  Part(sum, SEEDLEN, (k + 1) + 1) = Part(f, SEEDLEN, (k + 1) + 1) + 1
    <3> DEFINE x == f[SEEDLEN - (k + 1)] * Pow2[ByteBits * (k + 1)]
               p == Part(f, SEEDLEN, k + 1)
    <3>1. /\ k + 1 \in 0 .. SEEDLEN - 1 /\ k + 1 \in 0 .. SEEDLEN /\ k < SEEDLEN /\ k + 1 \in Nat
          /\ SEEDLEN - (k + 1) \in 1 .. SEEDLEN /\ SEEDLEN - (k + 1) # SEEDLEN
      BY <1>1, <2>1
    <3>2. sum[SEEDLEN - (k + 1)] = f[SEEDLEN - (k + 1)] /\ f[SEEDLEN - (k + 1)] \in Nat
      BY <1>2, <1>4, <3>1
    <3>3. /\ Part(sum, SEEDLEN, (k + 1) + 1) = Part(sum, SEEDLEN, k + 1) + x
          /\ Part(f, SEEDLEN, (k + 1) + 1) = p + x
      BY <1>6, <3>1, <3>2
    <3>4. Part(sum, SEEDLEN, k + 1) = p + 1 /\ p \in Nat
      BY <1>6, <1>8, <3>1
    <3>5. Pow2[ByteBits * (k + 1)] \in Nat
      BY <3>1, Weights
    <3>6. x \in Nat
      BY <3>2, <3>5
    <3> HIDE DEF x, p
    <3> QED
      BY <3>3, <3>4, <3>6
  <2> QED
    BY <2>1
<1> HIDE DEF S
<1>9. SEEDLEN - 1 \in S
  <2>1. SEEDLEN - 1 \in Nat
    BY <1>1
  <2> QED
    BY <1>7, <1>8, <2>1, NumbersByInduction
<1>10. Part(sum, SEEDLEN, SEEDLEN) = Part(f, SEEDLEN, SEEDLEN) + 1
  <2>1. SEEDLEN - 1 < SEEDLEN /\ (SEEDLEN - 1) + 1 = SEEDLEN
    BY <1>1
  <2>2. Part(sum, SEEDLEN, (SEEDLEN - 1) + 1) = Part(f, SEEDLEN, (SEEDLEN - 1) + 1) + 1
    BY <1>9, <2>1 DEF S
  <2> QED
    BY <2>1, <2>2
<1>11. Value(sum) = Value(f) + 1
  BY <1>1, <1>2, <1>3, <1>10, ValueIsPart
<1> QED
  BY <1>3, <1>5, <1>11, CarriedValue

\* Zeros in front do not count.
LEMMA ZerosInFront ==
  ASSUME NEW digest \in Digest
  PROVE  LET padded == [j \in 1 .. SEEDLEN |->
                          IF j <= SEEDLEN - OUTLEN THEN 0 ELSE digest[j - (SEEDLEN - OUTLEN)]]
         IN padded \in Number /\ Value(padded) = Value(digest)
<1> DEFINE zeros == SEEDLEN - OUTLEN
           padded == [j \in 1 .. SEEDLEN |-> IF j <= zeros THEN 0 ELSE digest[j - zeros]]
<1>1. /\ SEEDLEN \in Nat \ {0} /\ OUTLEN \in Nat \ {0} /\ zeros \in Nat /\ OUTLEN + zeros = SEEDLEN
      /\ 0 \in Byte /\ Byte \subseteq Nat
  BY ByteLengths, BytesAreNumbers
<1>2. digest \in [1 .. OUTLEN -> Byte] /\ digest \in [1 .. OUTLEN -> Nat]
  BY <1>1 DEF Digest
<1>3. ASSUME NEW j \in 1 .. SEEDLEN
      PROVE  /\ padded[j] = IF j <= zeros THEN 0 ELSE digest[j - zeros]
             /\ padded[j] \in Byte
  <2>1. CASE j <= zeros
    BY <1>1, <2>1
  <2>2. CASE ~ (j <= zeros)
    <3>1. j - zeros \in 1 .. OUTLEN
      BY <1>1, <2>2
    <3> QED
      BY <1>2, <2>2, <3>1
  <2> QED
    BY <2>1, <2>2
<1>4. padded = [j \in 1 .. SEEDLEN |-> padded[j]]
  OBVIOUS
<1> HIDE DEF padded, zeros
<1>5. padded \in Number
  BY <1>3, <1>4 DEF Number
<1>6. padded \in [1 .. SEEDLEN -> Nat]
  BY <1>1, <1>5 DEF Number
<1> DEFINE P(k) == Part(padded, SEEDLEN, k)
           D(k) == Part(digest, OUTLEN, k)
           S == {k \in Nat : k <= OUTLEN => P(k) = D(k)}
           T == {k \in Nat : k <= zeros => P(OUTLEN + k) = D(OUTLEN)}
<1>7. /\ \A k \in 0 .. SEEDLEN - 1 : P(k + 1) = P(k) + padded[SEEDLEN - k] * Pow2[ByteBits * k]
      /\ \A k \in 0 .. OUTLEN - 1 : D(k + 1) = D(k) + digest[OUTLEN - k] * Pow2[ByteBits * k]
      /\ P(0) = 0 /\ D(0) = 0
      /\ \A k \in 0 .. OUTLEN : D(k) \in Nat
  BY <1>1, <1>2, <1>6, PartSteps
<1> HIDE DEF P, D
<1>8. \A k \in Nat : k \in S
  <2>1. 0 \in S
    BY <1>7
  <2>2. ASSUME NEW k \in Nat, k \in S
        PROVE  k + 1 \in S
    <3>1. ASSUME k + 1 <= OUTLEN
          PROVE  P(k + 1) = D(k + 1)
      <4>1. /\ k \in 0 .. OUTLEN - 1 /\ k \in 0 .. SEEDLEN - 1 /\ k <= OUTLEN
            /\ SEEDLEN - k \in 1 .. SEEDLEN /\ ~ (SEEDLEN - k <= zeros)
            /\ (SEEDLEN - k) - zeros = OUTLEN - k
        BY <1>1, <3>1
      <4>2. padded[SEEDLEN - k] = digest[OUTLEN - k]
        BY <1>3, <4>1
      <4>3. P(k) = D(k)
        BY <2>2, <4>1
      <4> QED
        BY <1>7, <4>1, <4>2, <4>3
    <3> QED
      BY <3>1
  <2> HIDE DEF S
  <2> QED
    BY <2>1, <2>2, NumbersByInduction
<1>9. \A k \in Nat : k \in T
  <2>1. 0 \in T
    <3>1. OUTLEN + 0 = OUTLEN /\ OUTLEN \in S
      BY <1>1, <1>8
    <3> QED
      BY <1>1, <3>1
  <2>2. ASSUME NEW k \in Nat, k \in T
        PROVE  k + 1 \in T
    <3>1. ASSUME k + 1 <= zeros
          PROVE  P(OUTLEN + (k + 1)) = D(OUTLEN)
      <4> DEFINE n == OUTLEN + k
                 w == Pow2[ByteBits * n]
      <4>1. /\ n \in 0 .. SEEDLEN - 1 /\ n + 1 = OUTLEN + (k + 1) /\ k <= zeros
            /\ SEEDLEN - n \in 1 .. SEEDLEN /\ SEEDLEN - n <= zeros /\ n \in Nat
        BY <1>1, <3>1
      <4>2. padded[SEEDLEN - n] = 0
        BY <1>3, <4>1
      <4>3. P(n) = D(OUTLEN) /\ D(OUTLEN) \in Nat
        BY <1>1, <1>7, <2>2, <4>1
      <4>4. w \in Nat
        BY <4>1, Weights
      <4>5. P(n + 1) = P(n) + 0 * w
        BY <1>7, <4>1, <4>2
      <4> HIDE DEF n, w
      <4>6. 0 * w = 0 /\ P(n) + 0 = P(n)
        BY <4>3, <4>4
      <4> QED
        BY <4>1, <4>3, <4>5, <4>6 DEF n
    <3> QED
      BY <3>1
  <2> HIDE DEF T
  <2> QED
    BY <2>1, <2>2, NumbersByInduction
<1>10. P(SEEDLEN) = D(OUTLEN)
  <2>1. zeros \in T
    BY <1>1, <1>9
  <2> QED
    BY <1>1, <2>1
<1>11. Value(padded) = Value(digest)
  BY <1>1, <1>2, <1>6, <1>10, ValueIsPart DEF P, D
<1> QED
  BY <1>5, <1>11 DEF padded, zeros

-----------------------------------------------------------------------------
(* Bytes and the numbers that they are.                                     *)

\* The bytes of a number are those that it was read from.
LEMMA BigEndianValue ==
  ASSUME NEW n \in Nat, NEW f \in [1 .. n -> Byte]
  PROVE  /\ Value(f) \in Nat /\ Value(f) < Pow2[ByteBits * n]
         /\ BigEndian(Value(f), n) = f
<1>1. f \in [1 .. n -> Nat] /\ Base \in Nat \ {0} /\ n \in 0 .. n
  <2>1. f \in [1 .. n -> Nat]
    BY BytesAreNumbers
  <2>2. Base \in Nat \ {0}
    BY Weights
  <2> QED
    BY <2>1, <2>2
<1>2. Value(f) = Part(f, n, n)
  BY <1>1, ValueIsPart
<1>3. ASSUME NEW k \in Nat, k < n
      PROVE  (Part(f, n, n) \div Pow2[ByteBits * k]) % Base = f[n - k]
  <2> DEFINE w == Pow2[ByteBits * k]
             v == Pow2[ByteBits * (k + 1)]
             p == Part(f, n, k)
             q == Part(f, n, k + 1)
             b == f[n - k]
             S == {j \in Nat : (k + 1) + j <= n =>
                     \E h \in Nat : Part(f, n, (k + 1) + j) = q + v * h}
  <2>1. /\ k \in 0 .. n - 1 /\ k \in 0 .. n /\ k + 1 \in 0 .. n /\ n - k \in 1 .. n
        /\ k + 1 \in Nat
    BY <1>3
  <2>2. w \in Nat \ {0} /\ v = Base * w /\ v \in Nat
    BY <2>1, Weights
  <2>3. p \in Nat /\ p < w /\ b \in Nat /\ b < Base /\ q = p + b * w /\ q \in Nat
    <3>1. p \in Nat /\ p < w
      BY <2>1, PartBelow
    <3>2. b \in Nat /\ b < Base
      BY <1>1, <2>1 DEF Byte
    <3>3. q = p + b * w
      BY <1>1, <2>1, PartSteps
    <3>4. q \in Nat
      BY <1>1, <2>1, PartSteps
    <3> QED
      BY <3>1, <3>2, <3>3, <3>4
  <2> HIDE DEF w, v, p, q, b
  <2>4. 0 \in S
    <3>1. q + v * 0 = q /\ (k + 1) + 0 = k + 1
      BY <2>2, <2>3
    <3> QED
      BY <3>1 DEF q
  <2>5. ASSUME NEW j \in Nat, j \in S
        PROVE  j + 1 \in S
    <3>1. ASSUME (k + 1) + (j + 1) <= n
          PROVE  \E h \in Nat : Part(f, n, (k + 1) + (j + 1)) = q + v * h
      <4> DEFINE place == (k + 1) + j
                 c == f[n - place]
                 x == Pow2[ByteBits * j]
      <4>1. /\ place \in 0 .. n - 1 /\ place + 1 = (k + 1) + (j + 1) /\ place <= n /\ n - place \in 1 .. n
        BY <1>1, <2>1, <3>1
      <4>2. PICK h \in Nat : Part(f, n, place) = q + v * h
        BY <2>5, <4>1
      <4>3. Part(f, n, place + 1) = Part(f, n, place) + c * Pow2[ByteBits * place]
        BY <1>1, <4>1, PartSteps
      <4>4. Pow2[ByteBits * place] = v * x /\ x \in Nat
        <5>1. /\ ByteBits * place = ByteBits * (k + 1) + ByteBits * j
              /\ ByteBits * (k + 1) \in Nat /\ ByteBits * j \in Nat
          BY <2>1, ByteLengths
        <5>2. Pow2[ByteBits * (k + 1) + ByteBits * j] = Pow2[ByteBits * (k + 1)] * Pow2[ByteBits * j]
          BY <5>1, Pow2Sum
        <5>3. x \in Nat
          BY Weights
        <5> QED
          BY <5>1, <5>2, <5>3 DEF v
      <4>5. c \in Nat
        BY <1>1, <4>1
      <4> HIDE DEF place, c, x
      <4>6. c * (v * x) = v * (c * x) /\ c * x \in Nat
        BY <2>2, <4>4, <4>5
      <4>7. (q + v * h) + v * (c * x) = q + v * (h + c * x)
        BY <2>2, <2>3, <4>6
      <4>8. Part(f, n, place + 1) = q + v * (h + c * x) /\ h + c * x \in Nat
        BY <4>2, <4>3, <4>4, <4>6, <4>7
      <4> QED
        BY <4>1, <4>8
    <3> QED
      BY <3>1
  <2> HIDE DEF S
  <2>6. n - (k + 1) \in S
    <3>1. n - (k + 1) \in Nat
      BY <2>1
    <3> QED
      BY <2>4, <2>5, <3>1, NumbersByInduction
  <2>7. PICK h \in Nat : Part(f, n, n) = q + v * h
    <3>1. (k + 1) + (n - (k + 1)) = n
      BY <2>1
    <3> QED
      BY <2>6, <3>1 DEF S
  <2>8. q + v * h = p + w * (b + Base * h)
    <3>1. v * h = w * (Base * h) /\ Base * h \in Nat
      BY <1>1, <2>2
    <3>2. (p + b * w) + w * (Base * h) = p + w * (b + Base * h)
      BY <2>2, <2>3, <3>1
    <3> QED
      BY <2>3, <3>1, <3>2
  <2>9. b + Base * h \in Nat
    BY <1>1, <2>3
  <2>10. Part(f, n, n) \div w = b + Base * h
    <3> DEFINE high == b + Base * h
    <3>1. high \in Nat
      BY <2>9
    <3>2. Part(f, n, n) = p + w * high
      BY <2>7, <2>8
    <3> HIDE DEF high
    <3>3. (p + w * high) \div w = high
      BY <2>2, <2>3, <3>1, Divides
    <3> QED
      BY <3>2, <3>3 DEF high
  <2>11. (b + Base * h) % Base = b
    BY <1>1, <2>3, Divides
  <2> QED
    BY <2>10, <2>11 DEF w, b
<1>4. ASSUME NEW j \in 1 .. n
      PROVE  (Value(f) \div Pow2[ByteBits * (n - j)]) % Base = f[j]
  <2>1. n - j \in Nat /\ n - j < n /\ n - (n - j) = j
    OBVIOUS
  <2> QED
    BY <1>2, <1>3, <2>1
<1>5. BigEndian(Value(f), n) = f
  <2>1. f = [j \in 1 .. n |-> f[j]]
    OBVIOUS
  <2> QED
    BY <1>4, <2>1 DEF BigEndian
<1> QED
  BY <1>1, <1>2, <1>5, PartBelow

\* The bytes of any number.
LEMMA BigEndianBytes ==
  ASSUME NEW number \in Nat, NEW n \in Nat
  PROVE  BigEndian(number, n) \in [1 .. n -> Byte]
<1>1. ASSUME NEW j \in 1 .. n
      PROVE  (number \div Pow2[ByteBits * (n - j)]) % Base \in Byte
  <2> DEFINE w == Pow2[ByteBits * (n - j)]
             high == number \div w
  <2>1. n - j \in Nat
    OBVIOUS
  <2>2. w \in Nat \ {0} /\ Base \in Nat \ {0}
    BY <2>1, Weights
  <2> HIDE DEF w
  <2>3. high \in Nat
    BY <2>2
  <2> HIDE DEF high
  <2>4. high % Base \in 0 .. Base - 1
    BY <2>2, <2>3
  <2> QED
    BY <2>4 DEF Byte, high, w
<1> QED
  BY <1>1 DEF BigEndian

\* As many zeros are the number 0.
LEMMA ZeroValue ==
  ZeroNumber \in Number /\ Value(ZeroNumber) = 0
<1>1. SEEDLEN \in Nat /\ 0 \in Byte /\ SEEDLEN \in 0 .. SEEDLEN
  BY ByteLengths, BytesAreNumbers
<1>2. ZeroNumber \in Number /\ ZeroNumber \in [1 .. SEEDLEN -> Nat]
  BY <1>1 DEF ZeroNumber, Number
<1>3. \A j \in 1 .. SEEDLEN : ZeroNumber[j] = 0
  BY DEF ZeroNumber
<1> DEFINE P(k) == Part(ZeroNumber, SEEDLEN, k)
           S == {k \in Nat : k <= SEEDLEN => P(k) = 0}
<1>4. P(0) = 0 /\ \A k \in 0 .. SEEDLEN - 1 : P(k + 1) = P(k) + ZeroNumber[SEEDLEN - k] * Pow2[ByteBits * k]
  BY <1>1, <1>2, PartSteps
<1> HIDE DEF P
<1>5. 0 \in S
  BY <1>4
<1>6. ASSUME NEW k \in Nat, k \in S
      PROVE  k + 1 \in S
  <2>1. ASSUME k + 1 <= SEEDLEN
        PROVE  P(k + 1) = 0
    <3>1. k \in 0 .. SEEDLEN - 1 /\ SEEDLEN - k \in 1 .. SEEDLEN /\ k <= SEEDLEN
      BY <1>1, <2>1
    <3>2. P(k + 1) = 0 + 0 * Pow2[ByteBits * k]
      BY <1>3, <1>4, <1>6, <3>1
    <3>3. Pow2[ByteBits * k] \in Nat
      BY Weights
    <3> QED
      BY <3>2, <3>3
  <2> QED
    BY <2>1
<1> HIDE DEF S
<1>7. SEEDLEN \in S
  BY <1>1, <1>5, <1>6, NumbersByInduction
<1> QED
  BY <1>1, <1>2, <1>7, ValueIsPart DEF S, P

-----------------------------------------------------------------------------
(* The contexts of the generator.                                           *)

\* What is asked of the hash, which is not interpreted: it returns bytes.
HashesToDigests == \A bytes \in Seq(Nat) : sm3_bit(bytes) \in Digest

Contexts == [V : Number, C : Number, reseed_counter : Number]

\* Rounding up reaches what was asked for and stops there.
LEMMA RoundUpBounds ==
  ASSUME NEW a \in Nat, NEW d \in Nat \ {0}
  PROVE  /\ RoundUp(a, d) \in Nat
         /\ a <= d * RoundUp(a, d) /\ d * RoundUp(a, d) < a + d
         /\ a # 0 => RoundUp(a, d) # 0
         /\ a = 0 => RoundUp(a, d) = 0
<1> DEFINE x == a + d - 1
           high == x \div d
           low == x % d
<1>1. x \in Nat
  OBVIOUS
<1>2. high \in Nat /\ low \in Nat /\ low < d /\ x = low + d * high
  <2> HIDE DEF x
  <2> QED
    BY <1>1
<1>3. RoundUp(a, d) = high
  BY DEF RoundUp
<1> HIDE DEF high, low
<1>4. a + d - 1 = low + d * high
  BY <1>2
<1>5. d * high \in Nat
  BY <1>2
<1>6. a <= d * high /\ d * high < a + d
  BY <1>2, <1>4, <1>5
<1>7. ASSUME high = 0
      PROVE  a = 0
  <2>1. d * high = 0
    BY <1>7
  <2> QED
    BY <1>6, <2>1
<1>8. ASSUME a = 0, high # 0
      PROVE  FALSE
  <2>1. high = (high - 1) + 1 /\ high - 1 \in Nat
    BY <1>2, <1>8
  <2>2. d * ((high - 1) + 1) = d * (high - 1) + d /\ d * (high - 1) \in Nat
    BY <2>1
  <2> QED
    BY <1>6, <1>8, <2>1, <2>2
<1> QED
  BY <1>2, <1>3, <1>6, <1>7, <1>8

\* Digests one behind the other are bytes.
LEMMA JoinedBytes ==
  ASSUME NEW r \in Nat, NEW digests \in [1 .. r -> Digest], NEW n \in Nat, n <= OUTLEN * r
  PROVE  Joined(digests, n) \in [1 .. n -> Byte]
<1>1. OUTLEN \in Nat \ {0}
  BY ByteLengths
<1>2. ASSUME NEW b \in 1 .. n
      PROVE  digests[((b - 1) \div OUTLEN) + 1][((b - 1) % OUTLEN) + 1] \in Byte
  <2> DEFINE x == b - 1
             high == x \div OUTLEN
             low == x % OUTLEN
  <2>1. x \in Nat /\ x < n
    OBVIOUS
  <2>2. high \in Nat /\ low \in Nat /\ low < OUTLEN /\ x = low + OUTLEN * high
    <3> HIDE DEF x
    <3> QED
      BY <1>1, <2>1
  <2> HIDE DEF x, high, low
  <2>3. high < r
    <3>1. ASSUME r <= high
          PROVE  FALSE
      <4>1. high = r + (high - r) /\ high - r \in Nat
        BY <2>2, <3>1
      <4>2. OUTLEN * (r + (high - r)) = OUTLEN * r + OUTLEN * (high - r)
        BY <1>1, <4>1
      <4>3. OUTLEN * (high - r) \in Nat /\ OUTLEN * r \in Nat
        BY <1>1, <4>1
      <4> QED
        BY <2>1, <2>2, <4>1, <4>2, <4>3
    <3> QED
      BY <2>2, <3>1
  <2>4. high + 1 \in 1 .. r /\ low + 1 \in 1 .. OUTLEN
    BY <1>1, <2>2, <2>3
  <2>5. digests[high + 1][low + 1] \in Byte
    BY <2>4 DEF Digest
  <2> QED
    BY <2>5 DEF high, low, x
<1> QED
  BY <1>2 DEF Joined

\* What is hashed are sequences of numbers.
LEMMA HashInputs ==
  /\ Seq(Byte) \subseteq Seq(Nat)
  /\ \A n \in Nat : [1 .. n -> Byte] \subseteq Seq(Byte)
  /\ \A tag \in Nat : \A bytes \in Seq(Nat) :
       <<tag>> \o bytes \in Seq(Nat) /\ Len(<<tag>> \o bytes) = Len(bytes) + 1
<1>1. Seq(Byte) \subseteq Seq(Nat)
  BY BytesAreNumbers, SeqMonotonic
<1>2. \A n \in Nat : [1 .. n -> Byte] \subseteq Seq(Byte)
  BY SeqDef
<1>3. ASSUME NEW tag \in Nat, NEW bytes \in Seq(Nat)
      PROVE  <<tag>> \o bytes \in Seq(Nat) /\ Len(<<tag>> \o bytes) = Len(bytes) + 1
  <2>1. <<tag>> \in Seq(Nat) /\ Len(<<tag>>) = 1 /\ Len(bytes) \in Nat
    OBVIOUS
  <2> QED
    BY <2>1, ConcatProperties
<1> QED
  BY <1>1, <1>2, <1>3

\* A derivation gives a number.
LEMMA DerivedNumber ==
  ASSUME HashesToDigests,
         NEW buffer \in Seq(Byte), NEW n \in 0 .. Len(buffer), SEEDLEN <= Len(buffer),
         NEW mem \in BOOLEAN
  PROVE  SM3_df(buffer, n, mem) \in Number
<1> DEFINE r == RoundUp(SEEDLEN, OUTLEN)
           input == BigEndian(ByteBits * SEEDLEN, 4) \o SubSeq(buffer, 1, n)
           temp == [j \in 1 .. r |-> sm3_bit(<<j>> \o input)]
<1>1. /\ SEEDLEN \in Nat \ {0} /\ OUTLEN \in Nat \ {0} /\ ByteBits * SEEDLEN \in Nat
      /\ Len(buffer) \in Nat
  BY ByteLengths
<1>2. r \in Nat /\ SEEDLEN <= OUTLEN * r
  BY <1>1, RoundUpBounds
<1>3. input \in Seq(Nat)
  <2>1. SubSeq(buffer, 1, n) \in Seq(Byte)
    BY <1>1, SubSeqProperties
  <2>2. BigEndian(ByteBits * SEEDLEN, 4) \in Seq(Byte)
    BY <1>1, BigEndianBytes, HashInputs
  <2>3. /\ SubSeq(buffer, 1, n) \in Seq(Nat)
        /\ BigEndian(ByteBits * SEEDLEN, 4) \in Seq(Nat)
    BY <2>1, <2>2, HashInputs
  <2> QED
    BY <2>3, ConcatProperties
<1> HIDE DEF input
<1>4. temp \in [1 .. r -> Digest]
  <2>1. ASSUME NEW j \in 1 .. r
        PROVE  sm3_bit(<<j>> \o input) \in Digest
    <3>1. <<j>> \o input \in Seq(Nat)
      BY <1>2, <1>3, HashInputs
    <3> QED
      BY <3>1 DEF HashesToDigests
  <2> QED
    BY <2>1
<1> HIDE DEF temp
<1>5. Joined(temp, SEEDLEN) \in Number
  BY <1>1, <1>2, <1>4, JoinedBytes DEF Number
<1>6. SubSeq(buffer, 1, SEEDLEN) \in Number
  <2>1. /\ SubSeq(buffer, 1, SEEDLEN) \in Seq(Byte)
        /\ Len(SubSeq(buffer, 1, SEEDLEN)) = SEEDLEN
    BY <1>1, SubSeqProperties
  <2> QED
    BY <2>1, LenProperties DEF Number
<1>7. SM3_df(buffer, n, mem) = IF mem THEN Joined(temp, SEEDLEN) ELSE SubSeq(buffer, 1, SEEDLEN)
  BY DEF SM3_df, temp, input
<1> QED
  BY <1>5, <1>6, <1>7

\* An initialization gives numbers, whatever there is of memory.
LEMMA FreshContext ==
  ASSUME HashesToDigests, NEW nonce \in Seq(Byte), NEW mem \in Memory
  PROVE  /\ SM3_DRNG_Instantiate(nonce, mem) \in Contexts
         /\ Cleared \in Contexts
         /\ mem = Plenty =>
              LET fresh == SM3_DRNG_Instantiate(nonce, mem)
              IN /\ fresh.C = SM3_df(<<0>> \o fresh.V, SEEDLEN + 1, TRUE)
                 /\ fresh.reseed_counter = inc_Big_Number(ZeroNumber)
<1> DEFINE length == IF Len(nonce) > SEEDLEN THEN Len(nonce) ELSE SEEDLEN
           material == [j \in 1 .. length |-> IF j <= Len(nonce) THEN nonce[j] ELSE 0]
           v == SM3_df(material, Len(nonce), mem.V)
           c == SM3_df(<<0>> \o v, SEEDLEN + 1, mem.C)
           full == [V |-> v, C |-> c, reseed_counter |-> inc_Big_Number(ZeroNumber)]
<1>1. /\ SEEDLEN \in Nat \ {0} /\ Len(nonce) \in Nat /\ 0 \in Byte
      /\ mem.V \in BOOLEAN /\ mem.C \in BOOLEAN /\ mem.material \in BOOLEAN
  <2>1. mem.V \in BOOLEAN /\ mem.C \in BOOLEAN /\ mem.material \in BOOLEAN
    BY DEF Memory
  <2>2. Len(nonce) \in Nat
    OBVIOUS
  <2>3. SEEDLEN \in Nat \ {0} /\ 0 \in Byte
    BY ByteLengths, BytesAreNumbers
  <2> QED
    BY <2>1, <2>2, <2>3
<1>2. length \in Nat /\ SEEDLEN <= length /\ Len(nonce) <= length
  BY <1>1
<1> HIDE DEF length
<1>3. material \in [1 .. length -> Byte]
  <2>1. ASSUME NEW j \in 1 .. length
        PROVE  (IF j <= Len(nonce) THEN nonce[j] ELSE 0) \in Byte
    <3>1. CASE j <= Len(nonce)
      <4>1. j \in 1 .. Len(nonce)
        BY <1>1, <1>2, <3>1
      <4> QED
        BY <3>1, <4>1
    <3>2. CASE ~ (j <= Len(nonce))
      BY <1>1, <3>2
    <3> QED
      BY <3>1, <3>2
  <2> QED
    BY <2>1
<1> HIDE DEF material
<1>4. material \in Seq(Byte) /\ Len(material) = length
  BY <1>2, <1>3
<1>5. v \in Number
  <2>1. Len(nonce) \in 0 .. Len(material) /\ SEEDLEN <= Len(material)
    BY <1>1, <1>2, <1>4
  <2> QED
    BY <1>1, <1>4, <2>1, DerivedNumber
<1> HIDE DEF v
<1>6. c \in Number
  <2>1. v \in Seq(Byte) /\ Len(v) = SEEDLEN
    BY <1>1, <1>5 DEF Number
  <2>2. <<0>> \o v \in Seq(Byte) /\ Len(<<0>> \o v) = SEEDLEN + 1
    BY <1>1, <2>1
  <2>3. SEEDLEN + 1 \in 0 .. Len(<<0>> \o v) /\ SEEDLEN <= Len(<<0>> \o v)
    BY <1>1, <2>2
  <2> QED
    BY <1>1, <2>2, <2>3, DerivedNumber
<1> HIDE DEF c
<1>7. ZeroNumber \in Number /\ inc_Big_Number(ZeroNumber) \in Number
  BY ZeroValue, IncValue
<1>8. Cleared \in Contexts /\ full \in Contexts
  BY <1>5, <1>6, <1>7 DEF Cleared, Contexts
<1> HIDE DEF full
<1>9. SM3_DRNG_Instantiate(nonce, mem) = IF mem.material THEN full ELSE Cleared
  BY Zenon DEF SM3_DRNG_Instantiate, full, c, v, material, length
<1>10. ASSUME mem = Plenty
       PROVE  LET fresh == SM3_DRNG_Instantiate(nonce, mem)
              IN /\ fresh.C = SM3_df(<<0>> \o fresh.V, SEEDLEN + 1, TRUE)
                 /\ fresh.reseed_counter = inc_Big_Number(ZeroNumber)
  <2>1. mem.material = TRUE /\ mem.C = TRUE
    BY <1>10 DEF Plenty
  <2>2. SM3_DRNG_Instantiate(nonce, mem) = full
    BY <1>9, <2>1
  <2>3. /\ full.V = v /\ full.C = SM3_df(<<0>> \o v, SEEDLEN + 1, TRUE)
        /\ full.reseed_counter = inc_Big_Number(ZeroNumber)
    BY <2>1 DEF full, c
  <2> QED
    BY <2>2, <2>3
<1> QED
  BY <1>8, <1>9, <1>10

\* A request moves V by the hash of V, the constant and the count.
LEMMA NextContext ==
  ASSUME HashesToDigests, NEW c \in Contexts
  PROVE  LET next == AfterGenerate(c)
             digest == sm3_bit(<<3>> \o c.V)
         IN /\ next \in Contexts
            /\ next.C = c.C
            /\ Value(next.V) = (Value(c.V) + Value(digest) + Value(c.C) + Value(c.reseed_counter))
                                 % Pow2[ByteBits * SEEDLEN]
            /\ Value(next.reseed_counter)
                 = (Value(c.reseed_counter) + 1) % Pow2[ByteBits * SEEDLEN]
<1> DEFINE digest == sm3_bit(<<3>> \o c.V)
           padded == [j \in 1 .. SEEDLEN |->
                        IF j <= SEEDLEN - OUTLEN THEN 0 ELSE digest[j - (SEEDLEN - OUTLEN)]]
           next == AfterGenerate(c)
<1>1. /\ SEEDLEN \in Nat
      /\ c.V \in Number /\ c.C \in Number /\ c.reseed_counter \in Number
      /\ c = [V |-> c.V, C |-> c.C, reseed_counter |-> c.reseed_counter]
  BY ByteLengths DEF Contexts
<1>2. digest \in Digest
  <2>1. c.V \in Seq(Nat)
    BY <1>1, HashInputs DEF Number
  <2>2. <<3>> \o c.V \in Seq(Nat)
    BY <2>1, HashInputs
  <2> QED
    BY <2>2 DEF HashesToDigests
<1>3. /\ next.V = plus_Big_Number(c.V, padded, c.C, c.reseed_counter)
      /\ next.C = c.C
      /\ next.reseed_counter = inc_Big_Number(c.reseed_counter)
      /\ next = [V |-> next.V, C |-> next.C, reseed_counter |-> next.reseed_counter]
  <2> DEFINE sum == plus_Big_Number(c.V, padded, c.C, c.reseed_counter)
             more == inc_Big_Number(c.reseed_counter)
  <2>1. next = [c EXCEPT !.V = sum, !.reseed_counter = more]
    BY Zenon DEF AfterGenerate
  <2> HIDE DEF next, sum, more
  <2>2. next = [V |-> sum, C |-> c.C, reseed_counter |-> more]
    BY <1>1, <2>1
  <2> QED
    BY <2>2 DEF sum, more
<1> HIDE DEF digest, next
<1>4. padded \in Number /\ Value(padded) = Value(digest)
  BY <1>2, ZerosInFront
<1> HIDE DEF padded
<1>5. /\ next.V \in Number
      /\ Value(next.V) = (Value(c.V) + Value(digest) + Value(c.C) + Value(c.reseed_counter))
                           % Pow2[ByteBits * SEEDLEN]
  <2>1. Value(plus_Big_Number(c.V, padded, c.C, c.reseed_counter))
          = (Value(c.V) + Value(padded) + Value(c.C) + Value(c.reseed_counter))
              % Pow2[ByteBits * SEEDLEN]
    BY <1>1, <1>4, PlusValue
  <2>2. plus_Big_Number(c.V, padded, c.C, c.reseed_counter) \in Number
    BY <1>1, <1>4, PlusValue
  <2> QED
    BY <1>3, <1>4, <2>1, <2>2
<1>6. /\ next.reseed_counter \in Number
      /\ Value(next.reseed_counter) = (Value(c.reseed_counter) + 1) % Pow2[ByteBits * SEEDLEN]
  BY <1>1, <1>3, IncValue
<1>7. next \in Contexts
  BY <1>1, <1>3, <1>5, <1>6 DEF Contexts
<1> QED
  BY <1>3, <1>5, <1>6, <1>7 DEF next, digest

-----------------------------------------------------------------------------
(* The bits of a request.                                                   *)

\* Counting modulo d.
LEMMA CountsModulo ==
  ASSUME NEW a \in Nat, NEW d \in Nat \ {0}
  PROVE  ((a % d) + 1) % d = (a + 1) % d
<1> DEFINE low == a % d
           high == a \div d
<1>1. low \in Nat /\ low < d /\ high \in Nat /\ a = low + d * high
  OBVIOUS
<1> HIDE DEF low, high
<1>2. CASE low + 1 < d
  <2>1. a + 1 = (low + 1) + d * high
    BY <1>1
  <2>2. ((low + 1) + d * high) % d = low + 1
    BY <1>1, <1>2, Divides
  <2>3. ((low + 1) + d * 0) % d = low + 1
    BY <1>1, <1>2, Divides
  <2>4. (low + 1) + d * 0 = low + 1
    BY <1>1
  <2> QED
    BY <2>1, <2>2, <2>3, <2>4 DEF low
<1>3. CASE ~ (low + 1 < d)
  <2>1. low + 1 = 0 + d * 1 /\ 0 < d
    BY <1>1, <1>3
  <2>2. a + 1 = 0 + d * (high + 1)
    <3>1. d * (high + 1) = d * high + d /\ d * high \in Nat
      BY <1>1
    <3> QED
      BY <1>1, <2>1, <3>1
  <2>3. (0 + d * (high + 1)) % d = 0
    <3>1. high + 1 \in Nat /\ 0 \in Nat
      BY <1>1
    <3> QED
      BY <2>1, <3>1, Divides
  <2>4. (0 + d * 1) % d = 0
    <3>1. 1 \in Nat /\ 0 \in Nat
      OBVIOUS
    <3> QED
      BY <2>1, <3>1, Divides
  <2>5. (low + 1) % d = 0 /\ (a + 1) % d = 0
    BY <2>1, <2>2, <2>3, <2>4
  <2> QED
    BY <2>5 DEF low
<1> QED
  BY <1>2, <1>3

\* V, V + 1 and so on are these numbers.
LEMMA CountedValue ==
  ASSUME NEW v \in Number, NEW n \in Nat
  PROVE  /\ Counted(v, n) \in Number
         /\ Value(Counted(v, n)) = (Value(v) + n) % Pow2[ByteBits * SEEDLEN]
<1> DEFINE step == [k \in Nat |-> [x \in Number |-> inc_Big_Number(x)]]
           IsData(g) == g = [k \in Nat |-> IF k = 0 THEN v ELSE inc_Big_Number(g[k - 1])]
           data == CHOOSE g : IsData(g)
           M == Pow2[ByteBits * SEEDLEN]
<1>1. \A x \in Number : inc_Big_Number(x) \in Number
  BY IncValue
<1>2. step \in [Nat -> [Number -> Number]]
  BY <1>1
<1>3. PICK f : /\ f \in [Nat -> Number] /\ f[0] = v
               /\ \A k \in Nat : f[k + 1] = step[k + 1][f[k]]
  <2> HIDE DEF step
  <2>1. \E f : Follows(f, Number, v, step)
    BY <1>2, Recursion
  <2> QED
    BY <2>1, Zenon DEF Follows
<1>4. \A k \in Nat : f[k + 1] = inc_Big_Number(f[k])
  <2> TAKE k \in Nat
  <2>1. k + 1 \in Nat /\ f[k] \in Number
    BY <1>3
  <2> QED
    BY <1>3, <2>1
<1>5. IsData(f)
  <2>1. ASSUME NEW k \in Nat
        PROVE  f[k] = IF k = 0 THEN v ELSE inc_Big_Number(f[k - 1])
    <3>1. CASE k = 0
      BY <1>3, <3>1
    <3>2. CASE k # 0
      <4>1. k - 1 \in Nat /\ (k - 1) + 1 = k
        BY <3>2
      <4>2. f[(k - 1) + 1] = inc_Big_Number(f[k - 1])
        BY <1>4, <4>1
      <4> QED
        BY <3>2, <4>1, <4>2
    <3> QED
      BY <3>1, <3>2
  <2>2. f = [k \in Nat |-> f[k]]
    BY <1>3
  <2> QED
    BY <2>1, <2>2
<1>6. IsData(data)
  <2> HIDE DEF IsData
  <2> QED
    BY <1>5
<1>7. \A k \in Nat : data[k] = IF k = 0 THEN v ELSE inc_Big_Number(data[k - 1])
  <2> DEFINE e == [k \in Nat |-> IF k = 0 THEN v ELSE inc_Big_Number(data[k - 1])]
  <2> HIDE DEF data
  <2>1. \A k \in Nat : e[k] = IF k = 0 THEN v ELSE inc_Big_Number(data[k - 1])
    OBVIOUS
  <2>2. data = e
    BY <1>6, Zenon
  <2> QED
    BY <2>1, <2>2, Zenon
<1>8. Counted(v, n) = data[n]
  BY Zenon DEF Counted
<1> HIDE DEF data, IsData, step
<1> DEFINE S == {k \in Nat : data[k] \in Number /\ Value(data[k]) = (Value(v) + k) % M}
<1>9. M \in Nat \ {0} /\ Value(v) \in Nat /\ Value(v) < M
  BY ByteLengths, Weights, BigEndianValue DEF Number
<1> HIDE DEF M
<1>10. 0 \in S
  <2>1. data[0] = v
    BY <1>7
  <2>2. (Value(v) + M * 0) % M = Value(v) /\ Value(v) + M * 0 = Value(v) + 0
    BY <1>9, Divides
  <2> QED
    BY <2>1, <2>2
<1>11. ASSUME NEW k \in Nat, k \in S
       PROVE  k + 1 \in S
  <2>1. k + 1 \in Nat /\ k + 1 # 0 /\ (k + 1) - 1 = k
    OBVIOUS
  <2>2. data[k + 1] = inc_Big_Number(data[k])
    BY <1>7, <2>1
  <2>3. data[k] \in Number /\ Value(data[k]) = (Value(v) + k) % M
    BY <1>11
  <2>4. data[k + 1] \in Number /\ Value(data[k + 1]) = (((Value(v) + k) % M) + 1) % M
    BY <2>2, <2>3, IncValue DEF M
  <2>5. (((Value(v) + k) % M) + 1) % M = ((Value(v) + k) + 1) % M
    <3>1. Value(v) + k \in Nat
      BY <1>9
    <3> QED
      BY <1>9, <3>1, CountsModulo
  <2>6. (Value(v) + k) + 1 = Value(v) + (k + 1)
    BY <1>9
  <2> QED
    BY <2>1, <2>4, <2>5, <2>6
<1> HIDE DEF S
<1>12. n \in S
  BY <1>10, <1>11, NumbersByInduction
<1> QED
  BY <1>8, <1>12 DEF S, M

\* Positions of bits in bytes of digests.
Nested(x, d, e) ==
  /\ x \div d \in Nat /\ x % d \in 0 .. d - 1
  /\ (x \div d) \div e = x \div (d * e)
  /\ (x \div d) % e = (x % (d * e)) \div d
  /\ (x % (d * e)) % d = x % d

LEMMA NestedPositions ==
  ASSUME NEW x \in Nat, NEW d \in Nat \ {0}, NEW e \in Nat \ {0}
  PROVE  d * e \in Nat \ {0} /\ Nested(x, d, e)
<1> DEFINE q == x \div d
           low == x % d
           high == q \div e
           mid == q % e
           de == d * e
           part == low + d * mid
<1>1. q \in Nat /\ low \in Nat /\ low < d /\ x = low + d * q
  OBVIOUS
<1> HIDE DEF q, low
<1>2. high \in Nat /\ mid \in Nat /\ mid < e /\ q = mid + e * high
  BY <1>1
<1> HIDE DEF high, mid
<1>3. de \in Nat \ {0}
  <2>1. e = (e - 1) + 1 /\ e - 1 \in Nat
    OBVIOUS
  <2>2. d * ((e - 1) + 1) = d * (e - 1) + d /\ d * (e - 1) \in Nat
    BY <2>1
  <2> QED
    BY <2>1, <2>2
<1>4. part \in Nat /\ part < de
  <2>1. d * mid \in Nat
    BY <1>2
  <2>2. d * (mid + 1) = d * mid + d
    BY <1>2
  <2>3. d * (mid + 1) <= d * e
    <3>1. e = (mid + 1) + (e - (mid + 1)) /\ e - (mid + 1) \in Nat /\ mid + 1 \in Nat
      BY <1>2
    <3>2. d * ((mid + 1) + (e - (mid + 1))) = d * (mid + 1) + d * (e - (mid + 1))
      BY <3>1
    <3>3. d * (e - (mid + 1)) \in Nat /\ d * (mid + 1) \in Nat
      BY <3>1
    <3> QED
      BY <3>1, <3>2, <3>3
  <2> QED
    BY <1>1, <2>1, <2>2, <2>3
<1>5. x = part + de * high
  <2>1. d * (mid + e * high) = d * mid + d * (e * high)
    BY <1>2
  <2>2. d * (e * high) = (d * e) * high
    BY <1>2
  <2>3. d * mid \in Nat /\ (d * e) * high \in Nat
    BY <1>2, <1>3
  <2> QED
    BY <1>1, <1>2, <2>1, <2>2, <2>3
<1> HIDE DEF part
<1>6. x \div de = high /\ x % de = part
  <2> HIDE DEF de
  <2> QED
    BY <1>2, <1>3, <1>4, <1>5, Divides
<1>7. part \div d = mid /\ part % d = low
  BY <1>1, <1>2, Divides DEF part
<1> QED
  BY <1>1, <1>3, <1>6, <1>7 DEF q, low, high, mid, Nested

\* The bits that are left of a byte: those that were asked for, and zeros.
LEMMA HighBits ==
  ASSUME NEW b \in Nat, NEW u \in Nat, NEW s \in Nat
  PROVE  /\ HIGH_BITS(b, u) \in Nat
         /\ u <= s => HIGH_BITS(b, u) \div Pow2[s] = b \div Pow2[s]
         /\ s < u => (HIGH_BITS(b, u) \div Pow2[s]) % 2 = 0
<1> DEFINE w == Pow2[u]
           low == b % w
           high == b \div w
<1>1. w \in Nat \ {0} /\ Pow2[s] \in Nat \ {0}
  BY Pow2Steps
<1>2. low \in Nat /\ low < w /\ high \in Nat /\ b = low + w * high
  <2> HIDE DEF w
  <2> QED
    BY <1>1
<1>3. HIGH_BITS(b, u) = b - low
  BY DEF HIGH_BITS
<1> HIDE DEF low, high, w
<1>4. HIGH_BITS(b, u) = w * high /\ w * high \in Nat
  BY <1>1, <1>2, <1>3
<1>5. ASSUME u <= s
      PROVE  HIGH_BITS(b, u) \div Pow2[s] = b \div Pow2[s]
  <2> DEFINE t == Pow2[s - u]
             rest == high % t
             top == high \div t
             v == w * t
  <2>1. s - u \in Nat /\ u + (s - u) = s
    BY <1>5
  <2>2. t \in Nat \ {0} /\ Pow2[s] = v
    BY <2>1, Pow2Steps, Pow2Sum DEF w
  <2> HIDE DEF t
  <2>3. rest \in Nat /\ rest < t /\ top \in Nat /\ high = rest + t * top
    BY <1>2, <2>2
  <2> HIDE DEF rest, top
  <2>4. w * high = w * rest + v * top /\ w * rest \in Nat
    <3>1. w * (rest + t * top) = w * rest + w * (t * top)
      BY <1>1, <2>2, <2>3
    <3>2. w * (t * top) = (w * t) * top
      BY <1>1, <2>2, <2>3
    <3> QED
      BY <1>1, <2>3, <3>1, <3>2
  <2>5. w * rest + w <= v
    <3>1. t = (rest + 1) + (t - (rest + 1)) /\ t - (rest + 1) \in Nat /\ rest + 1 \in Nat
      BY <2>2, <2>3
    <3>2. w * ((rest + 1) + (t - (rest + 1))) = (w * rest + w) + w * (t - (rest + 1))
      BY <1>1, <2>3, <3>1
    <3>3. w * (t - (rest + 1)) \in Nat
      BY <1>1, <3>1
    <3> QED
      BY <1>1, <2>4, <3>1, <3>2, <3>3
  <2>6. v \in Nat \ {0}
    BY <1>1, <2>2
  <2> HIDE DEF v
  <2>7. /\ w * rest < v /\ low + w * rest \in Nat /\ low + w * rest < v
        /\ b = (low + w * rest) + v * top
    <3> DEFINE x == w * rest
               y == v * top
    <3>1. y \in Nat
      BY <2>3, <2>6
    <3>2. x \in Nat /\ x + w <= v /\ w * high = x + y
      BY <2>4, <2>5
    <3>3. b = low + (x + y)
      BY <1>2, <3>2
    <3> HIDE DEF x, y
    <3>4. x < v /\ low + x \in Nat /\ low + x < v /\ b = (low + x) + y
      BY <1>1, <1>2, <2>6, <3>1, <3>2, <3>3
    <3> QED
      BY <3>4 DEF x, y
  <2>8. (w * rest + v * top) \div v = top
    BY <2>3, <2>4, <2>6, <2>7, Divides
  <2>9. ((low + w * rest) + v * top) \div v = top
    BY <2>3, <2>6, <2>7, Divides
  <2> QED
    BY <1>4, <2>2, <2>4, <2>7, <2>8, <2>9
<1>6. ASSUME s < u
      PROVE  (HIGH_BITS(b, u) \div Pow2[s]) % 2 = 0
  <2> DEFINE v == Pow2[s]
             t == Pow2[(u - s) - 1]
             x == t * high
  <2>1. /\ (u - s) - 1 \in Nat /\ s + (u - s) = u /\ u - s \in Nat /\ ((u - s) - 1) + 1 = u - s
    BY <1>6
  <2>2. t \in Nat /\ Pow2[u - s] = 2 * t /\ w = v * Pow2[u - s]
    <3>1. t \in Nat /\ Pow2[((u - s) - 1) + 1] = 2 * t
      BY <2>1, Pow2Steps
    <3>2. Pow2[s + (u - s)] = v * Pow2[u - s]
      BY <2>1, Pow2Sum
    <3> QED
      BY <2>1, <3>1, <3>2 DEF w
  <2> HIDE DEF t, v
  <2>3. v \in Nat \ {0}
    BY <1>1 DEF v
  <2>4. x \in Nat
    BY <1>2, <2>2
  <2>5. w * high = 0 + v * (0 + 2 * x)
    <3>1. w = v * (2 * t)
      BY <2>2
    <3>2. (v * (2 * t)) * high = v * ((2 * t) * high)
      BY <1>2, <2>2, <2>3
    <3>3. (2 * t) * high = 2 * (t * high)
      BY <1>2, <2>2
    <3>4. v * (2 * x) \in Nat
      BY <2>3, <2>4
    <3> QED
      BY <2>4, <3>1, <3>2, <3>3, <3>4
  <2> HIDE DEF x
  <2>6. (0 + v * (0 + 2 * x)) \div v = 0 + 2 * x
    <3>1. 0 + 2 * x \in Nat /\ 0 \in Nat /\ 0 < v
      BY <2>3, <2>4
    <3> QED
      BY <2>3, <3>1, Divides
  <2>7. (0 + 2 * x) % 2 = 0
    BY <2>4
  <2> QED
    BY <1>4, <2>5, <2>6, <2>7 DEF v
<1> QED
  BY <1>4, <1>5, <1>6

\* A position before the end lies in one of the blocks.
LEMMA BelowProduct ==
  ASSUME NEW x \in Nat, NEW d \in Nat \ {0}, NEW r \in Nat, x < d * r
  PROVE  x \div d < r
<1> DEFINE high == x \div d
           low == x % d
<1>1. high \in Nat /\ low \in Nat /\ x = low + d * high
  OBVIOUS
<1> HIDE DEF high, low
<1>2. ASSUME r <= high
      PROVE  FALSE
  <2>1. high = r + (high - r) /\ high - r \in Nat
    BY <1>1, <1>2
  <2>2. d * (r + (high - r)) = d * r + d * (high - r)
    BY <2>1
  <2>3. d * (high - r) \in Nat /\ d * r \in Nat
    BY <2>1
  <2> QED
    BY <1>1, <2>1, <2>2, <2>3
<1> QED
  BY <1>1, <1>2 DEF high

\* The hash of a number that V counts to, by its bytes.
LEMMA CountedHash ==
  ASSUME HashesToDigests, NEW c \in Contexts, NEW n \in Nat
  PROVE  /\ sm3_bit(Counted(c.V, n)) \in Digest
         /\ sm3_bit(Counted(c.V, n))
              = sm3_bit(BigEndian((Value(c.V) + n) % Pow2[ByteBits * SEEDLEN], SEEDLEN))
<1>1. c.V \in Number /\ SEEDLEN \in Nat
  BY ByteLengths DEF Contexts
<1>2. /\ Counted(c.V, n) \in Number
      /\ Value(Counted(c.V, n)) = (Value(c.V) + n) % Pow2[ByteBits * SEEDLEN]
  BY <1>1, CountedValue
<1>3. BigEndian(Value(Counted(c.V, n)), SEEDLEN) = Counted(c.V, n)
  BY <1>1, <1>2, BigEndianValue DEF Number
<1>4. Counted(c.V, n) \in Seq(Nat)
  BY <1>1, <1>2, HashInputs DEF Number
<1> QED
  BY <1>2, <1>3, <1>4 DEF HashesToDigests

\* A request gets as many bytes as hold its bits.
LEMMA RequestBytes ==
  ASSUME HashesToDigests, NEW c \in Contexts, NEW bits \in Nat
  PROVE  LET bytes == RoundUp(bits, ByteBits)
             hashes == [j \in 1 .. RoundUp(bits, ByteBits * OUTLEN) |->
                          sm3_bit(Counted(c.V, j - 1))]
             asked == Joined(hashes, bytes)
         IN /\ bytes <= OUTLEN * RoundUp(bits, ByteBits * OUTLEN)
            /\ asked \in [1 .. bytes -> Byte]
            /\ ReturnBits(c, bits)
                 = [j \in 1 .. bytes |-> IF j = bytes
                                         THEN HIGH_BITS(asked[j], ByteBits * bytes - bits)
                                         ELSE asked[j]]
            /\ ReturnBits(c, bits) \in [1 .. bytes -> Nat]
<1> DEFINE bytes == RoundUp(bits, ByteBits)
           r == RoundUp(bits, ByteBits * OUTLEN)
           hashes == [j \in 1 .. r |-> sm3_bit(Counted(c.V, j - 1))]
           asked == Joined(hashes, bytes)
           u == ByteBits * bytes - bits
           result == [j \in 1 .. bytes |-> IF j = bytes THEN HIGH_BITS(asked[j], u) ELSE asked[j]]
<1>1. ByteBits \in Nat \ {0} /\ OUTLEN \in Nat \ {0} /\ ByteBits * OUTLEN \in Nat \ {0}
  BY ByteLengths, NestedPositions
<1>2. /\ bytes \in Nat /\ bits <= ByteBits * bytes /\ ByteBits * bytes < bits + ByteBits
      /\ ByteBits * bytes \in Nat
  BY <1>1, RoundUpBounds
<1>3. r \in Nat /\ bits <= (ByteBits * OUTLEN) * r
  BY <1>1, RoundUpBounds
<1>4. hashes \in [1 .. r -> Digest]
  <2>1. ASSUME NEW j \in 1 .. r
        PROVE  sm3_bit(Counted(c.V, j - 1)) \in Digest
    <3>1. j - 1 \in Nat
      BY <1>3
    <3> QED
      BY <3>1, CountedHash
  <2> QED
    BY <2>1
<1>5. ReturnBits(c, bits) = IF bytes = 0 THEN asked
                            ELSE [asked EXCEPT ![bytes] = HIGH_BITS(@, u)]
  BY Zenon DEF ReturnBits
<1> HIDE DEF bytes, r, hashes
<1>6. bytes <= OUTLEN * r
  <2>1. ASSUME OUTLEN * r + 1 <= bytes
        PROVE  FALSE
    <3> DEFINE n == OUTLEN * r
               more == bytes - (n + 1)
    <3>1. n \in Nat /\ more \in Nat /\ bytes = (n + 1) + more
      BY <1>1, <1>2, <1>3, <2>1
    <3>2. ByteBits * n = (ByteBits * OUTLEN) * r
      BY <1>1, <1>3
    <3> HIDE DEF n, more
    <3>3. ByteBits * ((n + 1) + more) = (ByteBits * n + ByteBits) + ByteBits * more
      BY <1>1, <3>1
    <3>4. ByteBits * more \in Nat /\ ByteBits * n \in Nat
      BY <1>1, <3>1
    <3> QED
      BY <1>1, <1>2, <1>3, <3>1, <3>2, <3>3, <3>4
  <2>2. OUTLEN * r \in Nat
    BY <1>1, <1>3
  <2> QED
    BY <1>2, <2>1, <2>2
<1>7. asked \in [1 .. bytes -> Byte]
  BY <1>2, <1>3, <1>4, <1>6, JoinedBytes
<1> HIDE DEF asked
<1>8. ReturnBits(c, bits) = result
  <2>1. CASE bytes = 0
    BY <1>5, <1>7, <2>1
  <2>2. CASE bytes # 0
    BY <1>2, <1>5, <1>7, <2>2
  <2> QED
    BY <2>1, <2>2
<1>9. result \in [1 .. bytes -> Nat]
  <2>1. ASSUME NEW j \in 1 .. bytes
        PROVE  (IF j = bytes THEN HIGH_BITS(asked[j], u) ELSE asked[j]) \in Nat
    <3>1. asked[j] \in Nat
      BY <1>7, BytesAreNumbers
    <3>2. u \in Nat
      BY <1>1, <1>2
    <3> HIDE DEF u
    <3>3. HIGH_BITS(asked[j], u) \in Nat
      BY <3>1, <3>2, HighBits
    <3> QED
      BY <3>1, <3>3
  <2> QED
    BY <2>1
<1> QED
  BY <1>6, <1>7, <1>8, <1>9 DEF asked, hashes, r, bytes

\* And these bits are the leading ones of the hashes of V, V + 1, ..., with
\* zeros behind them.
LEMMA RequestBits ==
  ASSUME HashesToDigests, NEW c \in Contexts, NEW bits \in Nat
  PROVE  BitsOf(ReturnBits(c, bits))
           = [k \in 1 .. HashDrbg!Whole(bits) |->
                IF k > bits THEN 0
                ELSE HashBit((Value(c.V) + (k - 1) \div (ByteBits * OUTLEN))
                               % Pow2[ByteBits * SEEDLEN],
                             ((k - 1) % (ByteBits * OUTLEN)) + 1)]
<1> DEFINE bytes == RoundUp(bits, ByteBits)
           r == RoundUp(bits, ByteBits * OUTLEN)
           hashes == [j \in 1 .. r |-> sm3_bit(Counted(c.V, j - 1))]
           asked == Joined(hashes, bytes)
           u == ByteBits * bytes - bits
           returned == ReturnBits(c, bits)
           Expected(k) == HashBit((Value(c.V) + (k - 1) \div (ByteBits * OUTLEN))
                                    % Pow2[ByteBits * SEEDLEN],
                                  ((k - 1) % (ByteBits * OUTLEN)) + 1)
<1>1. ByteBits \in Nat \ {0} /\ OUTLEN \in Nat \ {0} /\ ByteBits * OUTLEN \in Nat \ {0}
  BY ByteLengths, NestedPositions
<1>2. /\ bytes \in Nat /\ bits <= ByteBits * bytes /\ ByteBits * bytes < bits + ByteBits
      /\ ByteBits * bytes \in Nat
  BY <1>1, RoundUpBounds
<1>3. r \in Nat
  BY <1>1, RoundUpBounds
<1>4. /\ bytes <= OUTLEN * r
      /\ asked \in [1 .. bytes -> Byte]
      /\ returned = [j \in 1 .. bytes |-> IF j = bytes THEN HIGH_BITS(asked[j], u) ELSE asked[j]]
      /\ returned \in [1 .. bytes -> Nat]
  BY RequestBytes, Zenon
<1>5. HashDrbg!Whole(bits) = ByteBits * bytes
  <2>1. HashDrbg!Whole(bits) = bytes * ByteBits
    BY DEF HashDrbg!Whole, RoundUp
  <2> HIDE DEF bytes
  <2> QED
    BY <1>1, <1>2, <2>1
<1>6. Len(returned) = bytes
  BY <1>2, <1>4
<1>7. \A j \in 1 .. r : hashes[j] = sm3_bit(Counted(c.V, j - 1))
  OBVIOUS
<1>8. \A j \in 1 .. bytes : asked[j] = hashes[((j - 1) \div OUTLEN) + 1][((j - 1) % OUTLEN) + 1]
  BY DEF Joined
<1> HIDE DEF bytes, r, hashes, asked, returned
<1>9. ASSUME NEW k \in 1 .. ByteBits * bytes
      PROVE  (returned[((k - 1) \div ByteBits) + 1]
                \div Pow2[ByteBits - 1 - ((k - 1) % ByteBits)]) % 2
               = IF k > bits THEN 0 ELSE Expected(k)
  <2> DEFINE x == k - 1
             q == x \div (ByteBits * OUTLEN)
             y == x % (ByteBits * OUTLEN)
             place == x \div ByteBits
             s == ByteBits - 1 - (x % ByteBits)
             digest == hashes[q + 1]
             byte == asked[place + 1]
  <2>1. x \in Nat /\ x < ByteBits * bytes /\ k = x + 1
    BY <1>2
  <2> HIDE DEF x
  <2>2. /\ place \in Nat /\ x % ByteBits \in 0 .. ByteBits - 1 /\ q \in Nat /\ y \in Nat
        /\ place \div OUTLEN = q /\ place % OUTLEN = y \div ByteBits
        /\ y % ByteBits = x % ByteBits
        /\ x = (x % ByteBits) + ByteBits * place
    <3>1. /\ place \in Nat /\ x % ByteBits \in 0 .. ByteBits - 1
          /\ place \div OUTLEN = q /\ place % OUTLEN = y \div ByteBits
          /\ y % ByteBits = x % ByteBits
      <4>1. x \in Nat /\ ByteBits \in Nat \ {0} /\ OUTLEN \in Nat \ {0}
        BY <1>1, <2>1
      <4>2. Nested(x, ByteBits, OUTLEN)
        BY <4>1, NestedPositions
      <4> QED
        BY <4>2, Zenon DEF Nested
    <3>2. q \in Nat /\ y \in Nat
      <4> DEFINE d == ByteBits * OUTLEN
      <4>1. d \in Nat \ {0}
        BY <1>1
      <4> HIDE DEF d
      <4>2. x \div d \in Nat /\ x % d \in Nat
        BY <2>1, <4>1
      <4> QED
        BY <4>2 DEF d
    <3>3. x = (x % ByteBits) + ByteBits * place
      BY <1>1, <2>1
    <3> QED
      BY <3>1, <3>2, <3>3
  <2>3. y \in 0 .. ByteBits * OUTLEN - 1
    <3> DEFINE d == ByteBits * OUTLEN
    <3>1. d \in Nat \ {0}
      BY <1>1
    <3> HIDE DEF d
    <3>2. x % d \in 0 .. d - 1
      BY <2>1, <3>1
    <3> QED
      BY <3>2 DEF d
  <2>4. place < bytes
    BY <1>1, <1>2, <2>1, BelowProduct
  <2>5. q < r
    <3>1. OUTLEN * r \in Nat
      BY <1>1, <1>3
    <3>2. place < OUTLEN * r
      BY <1>2, <1>4, <2>2, <2>4, <3>1
    <3>3. place \div OUTLEN < r
      <4> HIDE DEF place
      <4> QED
        BY <1>1, <1>3, <2>2, <3>2, BelowProduct
    <3> QED
      BY <2>2, <3>3
  <2>6. s \in Nat
    BY <1>1, <2>2
  <2> HIDE DEF q, y, place
  <2>7. digest = sm3_bit(Counted(c.V, q))
    <3>1. q + 1 \in 1 .. r /\ (q + 1) - 1 = q
      BY <1>3, <2>2, <2>5
    <3> QED
      BY <1>7, <3>1
  <2>8. /\ digest \in Digest
        /\ digest = sm3_bit(BigEndian((Value(c.V) + q) % Pow2[ByteBits * SEEDLEN], SEEDLEN))
    BY <2>2, <2>7, CountedHash
  <2>9. byte = digest[(y \div ByteBits) + 1]
    <3>1. place + 1 \in 1 .. bytes /\ (place + 1) - 1 = place
      BY <1>2, <2>2, <2>4
    <3>2. byte = hashes[(((place + 1) - 1) \div OUTLEN) + 1][(((place + 1) - 1) % OUTLEN) + 1]
      BY <1>8, <3>1
    <3> QED
      BY <2>2, <3>1, <3>2
  <2>10. Expected(k) = (byte \div Pow2[s]) % 2
    <3>1. Expected(k) = BitsOf(digest)[y + 1]
      BY <2>1, <2>8, Zenon DEF HashBit, x, q, y
    <3>2. Len(digest) = OUTLEN
      BY <1>1, <2>8 DEF Digest
    <3>3. y + 1 \in 1 .. ByteBits * Len(digest) /\ (y + 1) - 1 = y
      BY <1>1, <2>2, <2>3, <3>2
    <3>4. BitsOf(digest)[y + 1]
            = (digest[(((y + 1) - 1) \div ByteBits) + 1]
                 \div Pow2[ByteBits - 1 - (((y + 1) - 1) % ByteBits)]) % 2
      BY <3>3 DEF BitsOf
    <3> HIDE DEF digest, byte, Expected
    <3> QED
      BY <2>2, <2>9, <3>1, <3>3, <3>4
  <2>11. byte \in Nat
    <3>1. place + 1 \in 1 .. bytes
      BY <1>2, <2>2, <2>4
    <3> QED
      BY <1>4, <3>1, BytesAreNumbers
  <2>12. returned[place + 1] = IF place + 1 = bytes THEN HIGH_BITS(byte, u) ELSE byte
    <3>1. place + 1 \in 1 .. bytes
      BY <1>2, <2>2, <2>4
    <3> QED
      BY <1>4, <3>1
  <2>13. u \in Nat /\ u < ByteBits /\ bits + u = ByteBits * bytes
    BY <1>1, <1>2
  <2>14. k + s = ByteBits * place + ByteBits /\ ByteBits * place \in Nat
    BY <1>1, <2>1, <2>2
  <2> HIDE DEF s, u, byte, Expected, digest
  <2>15. CASE place + 1 = bytes
    <3>1. ByteBits * bytes = ByteBits * place + ByteBits
      BY <1>1, <2>2, <2>15
    <3>2. k + s = bits + u
      BY <2>13, <2>14, <3>1
    <3>3. CASE k > bits
      <4>1. s < u
        BY <2>6, <2>13, <3>2, <3>3
      <4>2. (HIGH_BITS(byte, u) \div Pow2[s]) % 2 = 0
        BY <2>6, <2>11, <2>13, <4>1, HighBits
      <4> QED
        BY <2>12, <2>15, <3>3, <4>2 DEF x, place, s
    <3>4. CASE ~ (k > bits)
      <4>1. u <= s
        BY <2>6, <2>13, <3>2, <3>4
      <4>2. HIGH_BITS(byte, u) \div Pow2[s] = byte \div Pow2[s]
        BY <2>6, <2>11, <2>13, <4>1, HighBits
      <4> QED
        BY <2>10, <2>12, <2>15, <3>4, <4>2 DEF x, place, s
    <3> QED
      BY <3>3, <3>4
  <2>16. CASE place + 1 # bytes
    <3>1. bytes = (place + 2) + (bytes - (place + 2)) /\ bytes - (place + 2) \in Nat
      BY <1>2, <2>2, <2>4, <2>16
    <3>2. ByteBits * ((place + 2) + (bytes - (place + 2)))
            = ((ByteBits * place + ByteBits) + ByteBits) + ByteBits * (bytes - (place + 2))
      BY <1>1, <2>2, <3>1
    <3>3. ByteBits * (bytes - (place + 2)) \in Nat
      BY <1>1, <3>1
    <3>4. ~ (k > bits)
      BY <1>1, <1>2, <2>6, <2>14, <3>1, <3>2, <3>3
    <3> QED
      BY <2>10, <2>12, <2>16, <3>4 DEF x, place, s
  <2> QED
    BY <2>15, <2>16
<1>10. BitsOf(returned)
         = [k \in 1 .. ByteBits * bytes |->
              (returned[((k - 1) \div ByteBits) + 1]
                 \div Pow2[ByteBits - 1 - ((k - 1) % ByteBits)]) % 2]
  BY <1>6 DEF BitsOf
<1> HIDE DEF Expected
<1>11. BitsOf(returned) = [k \in 1 .. ByteBits * bytes |-> IF k > bits THEN 0 ELSE Expected(k)]
  BY <1>9, <1>10, Zenon
<1> QED
  BY <1>5, <1>11, Zenon DEF returned, Expected

-----------------------------------------------------------------------------
(* The generator.                                                           *)

\* The context holds numbers.
GeneratorInv == context \in Contexts

LEMMA GeneratorStarts == ASSUME HashesToDigests, DrngInit PROVE GeneratorInv
<1>1. Cleared \in Contexts
  BY ZeroValue DEF Cleared, Contexts
<1> QED
  BY <1>1 DEF DrngInit, GeneratorInv

LEMMA GeneratorSteps ==
  ASSUME HashesToDigests, GeneratorInv, [DrngNext]_drngVars
  PROVE  GeneratorInv'
<1>1. ASSUME NEW s \in DrngSeeds, NEW mem \in Memory, init_random_number(s, mem)
      PROVE  GeneratorInv'
  <2>1. s \in Seq(Byte)
    BY CallsAssumption DEF Byte
  <2> QED
    BY <1>1, <2>1, FreshContext DEF init_random_number, GeneratorInv
<1>2. ASSUME NEW bits \in DrngRequests, get_random_number(bits)
      PROVE  GeneratorInv'
  BY <1>2, NextContext DEF get_random_number, GeneratorInv
<1>3. ASSUME UNCHANGED drngVars
      PROVE  GeneratorInv'
  BY <1>3 DEF drngVars, GeneratorInv
<1> QED
  BY <1>1, <1>2, <1>3 DEF DrngNext

\* The start of the generator over numbers.
LEMMA ImplementsInit == ASSUME DrngInit PROVE HashDrbg!Init
<1>1. Value(context.V) = 0 /\ Value(context.C) = 0 /\ Value(context.reseed_counter) = 0
  BY ZeroValue DEF DrngInit, Cleared
<1>2. BitsOf(random_number) = <<>>
  <2>1. Len(<<>>) = 0 /\ ByteBits * 0 = 0
    BY ByteLengths
  <2>2. random_number = <<>>
    BY DEF DrngInit
  <2> QED
    BY <2>1, <2>2 DEF BitsOf
<1>3. drngResult = 0 /\ drngMemory = Plenty
  BY DEF DrngInit
<1> QED
  BY <1>1, <1>2, <1>3 DEF HashDrbg!Init

\* What holds of the modulus and of the values of numbers.
LEMMA ModulusBounds ==
  /\ Pow2[ByteBits * SEEDLEN] \in Nat /\ Pow2[ByteBits * SEEDLEN] >= 2
  /\ \A f \in Number : Value(f) \in 0 .. Pow2[ByteBits * SEEDLEN] - 1
  /\ Value(inc_Big_Number(ZeroNumber)) = 1
<1> DEFINE w == Pow2[ByteBits * (SEEDLEN - 1)]
           M == Pow2[ByteBits * SEEDLEN]
<1>1. SEEDLEN \in Nat \ {0} /\ SEEDLEN - 1 \in Nat /\ (SEEDLEN - 1) + 1 = SEEDLEN
  BY ByteLengths
<1>2. w \in Nat \ {0} /\ M = Base * w /\ Base \in Nat /\ Base >= 2
  BY <1>1, Weights
<1> HIDE DEF w, M
<1>3. M \in Nat /\ M >= 2
  <2>1. Base = 2 + (Base - 2) /\ Base - 2 \in Nat
    BY <1>2
  <2>2. (2 + (Base - 2)) * w = 2 * w + (Base - 2) * w /\ (Base - 2) * w \in Nat
    BY <1>2, <2>1
  <2> QED
    BY <1>2, <2>1, <2>2
<1>4. \A f \in Number : Value(f) \in 0 .. M - 1
  BY <1>1, <1>3, BigEndianValue DEF Number, M
<1>5. Value(inc_Big_Number(ZeroNumber)) = (0 + 1) % M
  BY ZeroValue, IncValue DEF M
<1>6. (1 + M * 0) % M = 1
  <2>1. 1 \in Nat /\ 0 \in Nat /\ M \in Nat \ {0} /\ 1 < M
    BY <1>3
  <2> QED
    BY <2>1, Divides
<1>7. 1 + M * 0 = 0 + 1
  BY <1>3
<1> QED
  BY <1>3, <1>4, <1>5, <1>6, <1>7 DEF M

\* An initialization of the generator over numbers.
LEMMA ImplementsInstantiate ==
  ASSUME HashesToDigests, NEW s \in DrngSeeds, NEW mem \in Memory, init_random_number(s, mem)
  PROVE  HashDrbg!Next
<1> DEFINE fresh == SM3_DRNG_Instantiate(s, mem)
<1>1. s \in Seq(Byte)
  BY CallsAssumption DEF Byte
<1>2. fresh \in Contexts
  BY <1>1, FreshContext
<1>3. /\ context' = fresh /\ drngResult' = init_random_number_result(mem)
      /\ random_number' = <<>> /\ drngMemory' = mem
  BY DEF init_random_number
<1>4. BitsOf(random_number)' = <<>>
  <2>1. Len(<<>>) = 0 /\ ByteBits * 0 = 0
    BY ByteLengths
  <2> QED
    BY <1>3, <2>1 DEF BitsOf
<1>5. CASE mem = Plenty
  <2>1. /\ fresh.C = SM3_df(<<0>> \o fresh.V, SEEDLEN + 1, TRUE)
        /\ fresh.reseed_counter = inc_Big_Number(ZeroNumber)
    BY <1>1, <1>5, FreshContext
  <2>2. Value(context.V)' = SeedValue(s)
    BY <1>3, <1>5 DEF SeedValue
  <2>3. Value(context.C)' = ConstantValue(Value(context.V)')
    <3>1. fresh.V \in Number /\ SEEDLEN \in Nat
      BY <1>2, ByteLengths DEF Contexts
    <3>2. BigEndian(Value(fresh.V), SEEDLEN) = fresh.V
      BY <3>1, BigEndianValue DEF Number
    <3> HIDE DEF fresh
    <3> QED
      BY <1>3, <2>1, <3>2 DEF ConstantValue
  <2>4. Value(context.reseed_counter)' = 1
    BY <1>3, <2>1, ModulusBounds
  <2>5. drngResult' = 0 /\ (drngMemory # Plenty)' = FALSE
    BY <1>3, <1>5 DEF init_random_number_result, Plenty
  <2>6. HashDrbg!Instantiate(s)
    BY <1>4, <2>2, <2>3, <2>4, <2>5 DEF HashDrbg!Instantiate
  <2> QED
    BY <2>6 DEF HashDrbg!Next
<1>6. CASE mem # Plenty
  <2>1. fresh.V \in Number /\ fresh.C \in Number
    BY <1>2 DEF Contexts
  <2>2. /\ Value(context.V)' \in 0 .. Pow2[ByteBits * SEEDLEN] - 1
        /\ Value(context.C)' \in 0 .. Pow2[ByteBits * SEEDLEN] - 1
    BY <1>3, <2>1, ModulusBounds
  <2>3. Value(context.reseed_counter)' \in {0, 1}
    <3>1. fresh.reseed_counter \in {ZeroNumber, inc_Big_Number(ZeroNumber)}
      <4>1. CASE mem.material
        BY <4>1, Zenon DEF SM3_DRNG_Instantiate
      <4>2. CASE ~ mem.material
        BY <4>2 DEF SM3_DRNG_Instantiate, Cleared
      <4> QED
        BY <4>1, <4>2
    <3>2. \A f \in {ZeroNumber, inc_Big_Number(ZeroNumber)} : Value(f) \in {0, 1}
      BY ZeroValue, ModulusBounds
    <3> HIDE DEF fresh
    <3> QED
      BY <1>3, <3>1, <3>2
  <2>4. drngResult' \in {0, -2} /\ (drngMemory # Plenty)' = TRUE
    BY <1>3, <1>6 DEF init_random_number_result
  <2>5. HashDrbg!InstantiateWithoutMemory
    BY <1>4, <2>2, <2>3, <2>4 DEF HashDrbg!InstantiateWithoutMemory, HashDrbg!Number
  <2> QED
    BY <2>5 DEF HashDrbg!Next
<1> QED
  BY <1>5, <1>6

\* A request of the generator over numbers.
LEMMA ImplementsGenerate ==
  ASSUME HashesToDigests, GeneratorInv, NEW bits \in DrngRequests, get_random_number(bits)
  PROVE  HashDrbg!Next
<1> DEFINE next == AfterGenerate(context)
           M == Pow2[ByteBits * SEEDLEN]
<1>1. context \in Contexts /\ bits \in Nat
  BY CallsAssumption DEF GeneratorInv
<1>2. /\ context' = next /\ random_number' = ReturnBits(context, bits) /\ drngResult' = 0
      /\ drngMemory' = Plenty
  BY DEF get_random_number
<1>3. /\ next.C = context.C
      /\ Value(next.V) = (Value(context.V) + Value(sm3_bit(<<3>> \o context.V))
                            + Value(context.C) + Value(context.reseed_counter)) % M
      /\ Value(next.reseed_counter) = (Value(context.reseed_counter) + 1) % M
  BY <1>1, NextContext
<1>4. Value(sm3_bit(<<3>> \o context.V)) = ShiftValue(Value(context.V))
  <2>1. context.V \in Number /\ SEEDLEN \in Nat
    BY <1>1, ByteLengths DEF Contexts
  <2>2. BigEndian(Value(context.V), SEEDLEN) = context.V
    BY <2>1, BigEndianValue DEF Number
  <2> QED
    BY <2>2 DEF ShiftValue
<1> HIDE DEF next
<1>5. BitsOf(random_number)'
        = [k \in 1 .. HashDrbg!Whole(bits) |->
             IF k > bits THEN 0
             ELSE HashBit((Value(context.V) + (k - 1) \div (ByteBits * OUTLEN)) % M,
                          ((k - 1) % (ByteBits * OUTLEN)) + 1)]
  <2>1. BitsOf(random_number)' = BitsOf(ReturnBits(context, bits))
    BY <1>2
  <2> QED
    BY <1>1, <2>1, RequestBits
<1>6. Value(context.V)' = (Value(context.V) + ShiftValue(Value(context.V))
                             + Value(context.C) + Value(context.reseed_counter)) % M
  BY <1>2, <1>3, <1>4
<1>7. Value(context.reseed_counter)' = (Value(context.reseed_counter) + 1) % M
  BY <1>2, <1>3
<1>8. Value(context.C)' = Value(context.C)
  BY <1>2, <1>3
<1>9. drngResult' = 0 /\ (drngMemory # Plenty)' = FALSE
  BY <1>2
<1>10. HashDrbg!Generate(bits)
  BY <1>5, <1>6, <1>7, <1>8, <1>9, Zenon DEF HashDrbg!Generate
<1> QED
  BY <1>10 DEF HashDrbg!Next

\* drng.c implements the hash generator over numbers (MCIccs.ImplementsHashDrbg),
\* for every width of bytes, numbers and digests, any seeds and requests, and
\* any hash that returns digests: no carry is lost, the blocks of a request
\* follow each other, and a request that ends within a byte gets its bits first
\* and zeros behind them.
THEOREM GeneratorImplementsHashDrbg ==
  ASSUME HashesToDigests
  PROVE  DrngSpec => ImplementsHashDrbg
<1>1. DrngInit => GeneratorInv /\ HashDrbg!Init
  BY GeneratorStarts, ImplementsInit
<1>2. GeneratorInv /\ [DrngNext]_drngVars => GeneratorInv'
  BY GeneratorSteps
<1>3. GeneratorInv /\ [DrngNext]_drngVars => [HashDrbg!Next]_(HashDrbg!vars)
  <2> SUFFICES ASSUME GeneratorInv, [DrngNext]_drngVars
               PROVE  [HashDrbg!Next]_(HashDrbg!vars)
    OBVIOUS
  <2>1. ASSUME NEW s \in DrngSeeds, NEW mem \in Memory, init_random_number(s, mem)
        PROVE  HashDrbg!Next
    BY <2>1, ImplementsInstantiate
  <2>2. ASSUME NEW bits \in DrngRequests, get_random_number(bits)
        PROVE  HashDrbg!Next
    BY <2>2, ImplementsGenerate
  <2>3. ASSUME UNCHANGED drngVars
        PROVE  UNCHANGED HashDrbg!vars
    BY <2>3 DEF drngVars, HashDrbg!vars
  <2> QED
    BY <2>1, <2>2, <2>3 DEF DrngNext
<1> QED
  BY <1>1, <1>2, <1>3, PTL DEF DrngSpec, ImplementsHashDrbg, HashDrbg!Spec

-----------------------------------------------------------------------------
(* The known-answer program: its generators are in the states that belong   *)
(* to the number of the record, and drng_algorithm in those that belong to  *)
(* the seed of the record.                                                  *)

InRecord == stage \in {"keygen", "sign", "verify"}

\* Requests so far to the generators for seeds and messages.
Drawn == IF InRecord THEN i + 1 ELSE i

ProgramOrder ==
  /\ stage \in {"start", "open", "record", "keygen", "sign", "verify", "exit"}
  /\ i \in 0 .. Records /\ (stage = "start" => i = 0) /\ (InRecord => i < Records)
  /\ m_len_bytes = FirstLength + i * Growth
  /\ drng = [g \in Generators |-> drng[g]] /\ memory = [g \in Generators |-> memory[g]]

GeneratorsFollow ==
  stage \in {"open", "record", "keygen", "sign", "verify"} =>
    /\ memory.seed = Plenty => drng.seed = SeedStates[Drawn]
    /\ memory.msg = Plenty => drng.msg = MessageStates[Drawn]

RecordDrawn ==
  InRecord =>
    /\ memory.seed = Plenty => seed = ReturnBits(SeedStates[i], ByteBits * SEED_LEN_BYTES)
    /\ memory.msg = Plenty =>
         m = ReturnBits(MessageStates[i], ByteBits * (FirstLength + i * Growth))

AlgorithmFollows ==
  memory.algorithm = Plenty =>
    LET fresh == SM3_DRNG_Instantiate(seed, Plenty)
    IN /\ stage = "keygen" => drng.algorithm = fresh
       /\ stage = "sign" => drng.algorithm = AfterGenerate(fresh)
       /\ stage \in {"sign", "verify"} => sk = KeyPair(fresh).sk /\ pk = KeyPair(fresh).pk
       /\ stage = "verify" => sn = Signature(sk, m, AfterGenerate(fresh))

KatInv ==
  /\ ProgramOrder /\ MessagesFitBuffer
  /\ GeneratorsFollow /\ RecordDrawn /\ AlgorithmFollows

LEMMA ProgramNumbers ==
  /\ SEED_LEN_BYTES \in Nat /\ FirstLength \in Nat /\ Growth \in Nat /\ Records \in Nat
  /\ ByteBits \in Nat \ {0} /\ BufferLength \in Nat \ {0}
  /\ \A n \in 0 .. Records - 1 : FirstLength + n * Growth <= BufferLength
BY ProgramAssumption

\* Both clauses of the definition of States.
LEMMA StatesSteps ==
  ASSUME NEW nonce
  PROVE  /\ States(nonce)[0] = SM3_DRNG_Instantiate(nonce, Plenty)
         /\ \A n \in 0 .. Records - 1 : States(nonce)[n + 1] = AfterGenerate(States(nonce)[n])
<1> DEFINE first == SM3_DRNG_Instantiate(nonce, Plenty)
           Runs(g, n) == g = [k \in 0 .. n |-> IF k = 0 THEN first ELSE AfterGenerate(g[k - 1])]
           h == CHOOSE g : Runs(g, Records)
<1>1. Records \in Nat
  BY ProgramNumbers
<1>2. ASSUME NEW n \in Nat, NEW g, Runs(g, n), NEW k \in 0 .. n
      PROVE  g[k] = IF k = 0 THEN first ELSE AfterGenerate(g[k - 1])
  <2> DEFINE e == [j \in 0 .. n |-> IF j = 0 THEN first ELSE AfterGenerate(g[j - 1])]
  <2>1. e[k] = IF k = 0 THEN first ELSE AfterGenerate(g[k - 1])
    OBVIOUS
  <2>2. g = e
    BY <1>2, Zenon
  <2> QED
    BY <2>1, <2>2, Zenon
<1> HIDE DEF first
<1>3. \A n \in Nat : \E g : Runs(g, n)
  <2> DEFINE S == {n \in Nat : \E g : Runs(g, n)}
  <2>1. 0 \in S
    <3> DEFINE g == [k \in {0} |-> first]
    <3>1. g = [k \in 0 .. 0 |-> IF k = 0 THEN first ELSE AfterGenerate(g[k - 1])]
      OBVIOUS
    <3> QED
      BY <3>1
  <2>2. ASSUME NEW n \in Nat, n \in S
        PROVE  n + 1 \in S
    <3>1. PICK g : Runs(g, n)
      BY <2>2
    <3> DEFINE e == [k \in 0 .. n + 1 |-> IF k = 0 THEN first ELSE AfterGenerate(g[k - 1])]
    <3>2. ASSUME NEW k \in 0 .. n
          PROVE  e[k] = g[k]
      <4>1. g[k] = IF k = 0 THEN first ELSE AfterGenerate(g[k - 1])
        <5> HIDE DEF Runs
        <5> QED
          BY <1>2, <3>1
      <4> QED
        BY <4>1
    <3>3. ASSUME NEW k \in 0 .. n + 1
          PROVE  e[k] = IF k = 0 THEN first ELSE AfterGenerate(e[k - 1])
      <4>1. CASE k = 0
        BY <4>1
      <4>2. CASE k # 0
        <5>1. k - 1 \in 0 .. n /\ e[k] = AfterGenerate(g[k - 1])
          BY <4>2
        <5> HIDE DEF e
        <5> QED
          BY <3>2, <4>2, <5>1
      <4> QED
        BY <4>1, <4>2
    <3>4. e = [k \in 0 .. n + 1 |-> e[k]]
      OBVIOUS
    <3>5. Runs(e, n + 1)
      <4> HIDE DEF e
      <4> QED
        BY <3>3, <3>4
    <3> HIDE DEF Runs, e
    <3> QED
      BY <3>5
  <2> HIDE DEF S
  <2>3. \A n \in Nat : n \in S
    BY <2>1, <2>2, NumbersByInduction
  <2> QED
    BY <2>3 DEF S
<1>4. Runs(h, Records)
  <2> HIDE DEF Runs
  <2> QED
    BY <1>1, <1>3
<1>5. States(nonce) = h
  BY Zenon DEF States, first
<1> HIDE DEF h, Runs
<1>6. \A k \in 0 .. Records : h[k] = IF k = 0 THEN first ELSE AfterGenerate(h[k - 1])
  BY <1>1, <1>2, <1>4
<1>7. h[0] = first
  <2>1. 0 \in 0 .. Records
    BY <1>1
  <2> QED
    BY <1>6, <2>1
<1>8. ASSUME NEW n \in 0 .. Records - 1
      PROVE  h[n + 1] = AfterGenerate(h[n])
  <2>1. n + 1 \in 0 .. Records /\ n + 1 # 0 /\ (n + 1) - 1 = n
    BY <1>1
  <2> QED
    BY <1>6, <2>1
<1> QED
  BY <1>5, <1>7, <1>8 DEF first

\* A request for whole bytes returns that many.
LEMMA ReturnedLength ==
  ASSUME NEW c, NEW n \in Nat
  PROVE  Len(ReturnBits(c, ByteBits * n)) = n
<1> DEFINE bits == ByteBits * n
           bytes == RoundUp(bits, ByteBits)
           asked == Joined([j \in 1 .. RoundUp(bits, ByteBits * OUTLEN) |->
                              sm3_bit(Counted(c.V, j - 1))], bytes)
           result == ReturnBits(c, bits)
<1>1. ByteBits \in Nat \ {0} /\ bits \in Nat
  BY ByteLengths
<1>2. bytes = n
  <2>1. /\ bytes \in Nat /\ ByteBits * n <= ByteBits * bytes
        /\ ByteBits * bytes < ByteBits * n + ByteBits
    BY <1>1, RoundUpBounds
  <2> HIDE DEF bytes
  <2>2. ASSUME NEW a \in Nat, NEW b \in Nat, a < b
        PROVE  ByteBits * a + ByteBits <= ByteBits * b
    <3>1. b = (a + 1) + (b - (a + 1)) /\ b - (a + 1) \in Nat
      BY <2>2
    <3>2. ByteBits * ((a + 1) + (b - (a + 1)))
            = (ByteBits * a + ByteBits) + ByteBits * (b - (a + 1))
      BY <1>1, <3>1
    <3>3. ByteBits * (b - (a + 1)) \in Nat /\ ByteBits * a \in Nat
      BY <1>1, <3>1
    <3> QED
      BY <1>1, <3>1, <3>2, <3>3
  <2>3. ByteBits * n \in Nat /\ ByteBits * bytes \in Nat
    BY <1>1, <2>1
  <2>4. CASE bytes < n
    <3>1. ByteBits * bytes + ByteBits <= ByteBits * n
      BY <2>1, <2>2, <2>4
    <3> QED
      BY <1>1, <2>1, <2>3, <3>1
  <2>5. CASE n < bytes
    <3>1. ByteBits * n + ByteBits <= ByteBits * bytes
      BY <2>1, <2>2, <2>5
    <3> QED
      BY <1>1, <2>1, <2>3, <3>1
  <2> QED
    BY <2>1, <2>4, <2>5
<1>3. result = IF bytes = 0 THEN asked
               ELSE [asked EXCEPT ![bytes] = HIGH_BITS(@, ByteBits * bytes - bits)]
  BY Zenon DEF ReturnBits
<1>4. asked = [b \in 1 .. bytes |-> asked[b]]
  BY DEF Joined
<1> HIDE DEF asked, bytes, result
<1>5. result = [b \in 1 .. n |-> result[b]]
  BY <1>2, <1>3, <1>4
<1> DEFINE S == {result[b] : b \in 1 .. n}
<1>6. result \in [1 .. n -> S]
  BY <1>5
<1>7. Len(result) = n
  <2> HIDE DEF S
  <2> QED
    BY <1>6
<1> QED
  BY <1>7 DEF result

LEMMA ProgramStarts == ASSUME KatInit PROVE KatInv
<1>1. /\ stage = "start" /\ i = 0 /\ m = <<>> /\ m_len_bytes = FirstLength
      /\ drng = [g \in Generators |-> Cleared] /\ memory = [g \in Generators |-> Plenty]
  BY DEF KatInit
<1>2. ProgramOrder
  <2>1. 0 \in 0 .. Records /\ FirstLength + 0 * Growth = FirstLength
    BY ProgramNumbers
  <2>2. drng = [g \in Generators |-> drng[g]] /\ memory = [g \in Generators |-> memory[g]]
    BY <1>1
  <2> QED
    BY <1>1, <2>1, <2>2 DEF ProgramOrder, InRecord
<1>3. MessagesFitBuffer
  <2>1. Len(<<>>) = 0
    OBVIOUS
  <2> QED
    BY <1>1, <2>1, ProgramNumbers DEF MessagesFitBuffer
<1> QED
  BY <1>1, <1>2, <1>3 DEF KatInv, GeneratorsFollow, RecordDrawn, AlgorithmFollows, InRecord

LEMMA InitGeneratorsFollows == ASSUME KatInv, InitGenerators PROVE KatInv'
<1>1. PICK s \in Memory, t \in Memory :
        /\ memory' = [memory EXCEPT !.seed = s, !.msg = t]
        /\ drng' = [drng EXCEPT !.seed = SM3_DRNG_Instantiate(Nonce.seed, s),
                                !.msg = SM3_DRNG_Instantiate(Nonce.msg, t)]
  BY DEF InitGenerators
<1>2. /\ stage = "start" /\ stage' = "open"
      /\ i' = i /\ seed' = seed /\ m' = m /\ m_len_bytes' = m_len_bytes
      /\ ProgramOrder /\ MessagesFitBuffer
  BY DEF InitGenerators, KatInv
<1>3. /\ memory'.seed = s /\ memory'.msg = t
      /\ drng'.seed = SM3_DRNG_Instantiate(Nonce.seed, s)
      /\ drng'.msg = SM3_DRNG_Instantiate(Nonce.msg, t)
      /\ drng' = [g \in Generators |-> drng'[g]] /\ memory' = [g \in Generators |-> memory'[g]]
  BY <1>1, <1>2 DEF ProgramOrder, Generators
<1>4. ProgramOrder'
  BY <1>2, <1>3 DEF ProgramOrder, InRecord
<1>5. i = 0
  BY <1>2 DEF ProgramOrder
<1>6. GeneratorsFollow'
  BY <1>2, <1>3, <1>5, StatesSteps DEF GeneratorsFollow, Drawn, InRecord, SeedStates, MessageStates
<1> QED
  BY <1>2, <1>4, <1>6 DEF KatInv, RecordDrawn, AlgorithmFollows, InRecord, MessagesFitBuffer

LEMMA OpenFileFollows == ASSUME KatInv, OpenFile PROVE KatInv'
<1>1. /\ stage = "open" /\ stage' \in {"record", "exit"}
      /\ UNCHANGED <<i, drng, memory, seed, m, m_len_bytes, pk, sk, sn>>
  BY DEF OpenFile
<1> QED
  BY <1>1 DEF KatInv, ProgramOrder, MessagesFitBuffer, GeneratorsFollow, RecordDrawn,
    AlgorithmFollows, InRecord, Drawn

LEMMA DrawRecordFollows == ASSUME KatInv, DrawRecord PROVE KatInv'
<1>1. PICK mem \in Memory :
        /\ memory' = [memory EXCEPT !.algorithm = mem]
        /\ drng' = [[drng EXCEPT !.seed = AfterGenerate(@)] EXCEPT
                      !["msg"] = AfterGenerate([drng EXCEPT !.seed = AfterGenerate(@)]["msg"]),
                      !.algorithm = SM3_DRNG_Instantiate(seed', mem)]
  BY DEF DrawRecord, MessageSource, Reseeded
<1>2. /\ stage = "record" /\ stage' = "keygen" /\ i < Records /\ i' = i /\ m_len_bytes' = m_len_bytes
      /\ seed' = ReturnBits(drng.seed, ByteBits * SEED_LEN_BYTES)
      /\ m' = ReturnBits([drng EXCEPT !.seed = AfterGenerate(@)]["msg"], ByteBits * m_len_bytes)
      /\ ProgramOrder /\ GeneratorsFollow
  BY DEF DrawRecord, MessageSource, MessageLength, KatInv
<1>3. drng = [g \in Generators |-> drng[g]] /\ memory = [g \in Generators |-> memory[g]]
  BY <1>2 DEF ProgramOrder
<1>4. [drng EXCEPT !.seed = AfterGenerate(@)]["msg"] = drng.msg
  BY <1>3 DEF Generators
<1>5. /\ memory'.seed = memory.seed /\ memory'.msg = memory.msg /\ memory'.algorithm = mem
      /\ drng'.seed = AfterGenerate(drng.seed) /\ drng'.msg = AfterGenerate(drng.msg)
      /\ drng'.algorithm = SM3_DRNG_Instantiate(seed', mem)
      /\ drng' = [g \in Generators |-> drng'[g]] /\ memory' = [g \in Generators |-> memory'[g]]
  BY <1>1, <1>3, <1>4 DEF Generators
<1>6. /\ i \in 0 .. Records - 1 /\ m_len_bytes = FirstLength + i * Growth
      /\ i \in Nat /\ i * Growth \in Nat /\ m_len_bytes \in Nat
  BY <1>2, ProgramNumbers DEF ProgramOrder
<1>7. ProgramOrder'
  BY <1>2, <1>5 DEF ProgramOrder, InRecord
<1>8. MessagesFitBuffer'
  <2>1. Len(m') = m_len_bytes
    BY <1>2, <1>6, ReturnedLength
  <2> QED
    BY <1>6, <2>1, ProgramNumbers DEF MessagesFitBuffer
<1>9. /\ memory.seed = Plenty => drng.seed = SeedStates[i]
      /\ memory.msg = Plenty => drng.msg = MessageStates[i]
  BY <1>2 DEF GeneratorsFollow, Drawn, InRecord
<1>10. GeneratorsFollow'
  <2>1. /\ SeedStates[i + 1] = AfterGenerate(SeedStates[i])
        /\ MessageStates[i + 1] = AfterGenerate(MessageStates[i])
    BY <1>6, StatesSteps DEF SeedStates, MessageStates
  <2> QED
    BY <1>2, <1>5, <1>9, <2>1 DEF GeneratorsFollow, Drawn, InRecord, SeedStates, MessageStates
<1>11. RecordDrawn'
  BY <1>2, <1>4, <1>5, <1>6, <1>9 DEF RecordDrawn, SeedStates, MessageStates
<1>12. AlgorithmFollows'
  BY <1>2, <1>5 DEF AlgorithmFollows
<1> QED
  BY <1>7, <1>8, <1>10, <1>11, <1>12 DEF KatInv

LEMMA KeygenFollows == ASSUME KatInv, Keygen PROVE KatInv'
<1>1. /\ stage = "keygen" /\ stage' = "sign"
      /\ sk' = KeyPair(drng.algorithm).sk /\ pk' = KeyPair(drng.algorithm).pk
      /\ drng' = [drng EXCEPT !.algorithm = AfterGenerate(@)]
      /\ UNCHANGED <<i, memory, seed, m, m_len_bytes, sn, code>>
  BY Zenon DEF Keygen
<1>2. /\ ProgramOrder /\ MessagesFitBuffer /\ GeneratorsFollow /\ RecordDrawn /\ AlgorithmFollows
  BY DEF KatInv
<1>3. /\ drng'.seed = drng.seed /\ drng'.msg = drng.msg
      /\ drng'.algorithm = AfterGenerate(drng.algorithm)
      /\ drng' = [g \in Generators |-> drng'[g]]
  BY <1>1, <1>2 DEF ProgramOrder, Generators
<1>4. ProgramOrder' /\ MessagesFitBuffer'
  BY <1>1, <1>2, <1>3 DEF ProgramOrder, MessagesFitBuffer, InRecord
<1>5. GeneratorsFollow' /\ RecordDrawn'
  BY <1>1, <1>2, <1>3 DEF GeneratorsFollow, RecordDrawn, Drawn, InRecord, SeedStates, MessageStates
<1>6. AlgorithmFollows'
  BY <1>1, <1>2, <1>3 DEF AlgorithmFollows
<1> QED
  BY <1>4, <1>5, <1>6 DEF KatInv

LEMMA SignFollows == ASSUME KatInv, Sign PROVE KatInv'
<1>1. /\ stage = "sign" /\ stage' = "verify"
      /\ sn' = Signature(sk, m, drng.algorithm)
      /\ drng' = [drng EXCEPT !.algorithm = AfterGenerate(AfterGenerate(@))]
      /\ UNCHANGED <<i, memory, seed, m, m_len_bytes, pk, sk, code>>
  BY DEF Sign
<1>2. /\ ProgramOrder /\ MessagesFitBuffer /\ GeneratorsFollow /\ RecordDrawn /\ AlgorithmFollows
  BY DEF KatInv
<1>3. /\ drng'.seed = drng.seed /\ drng'.msg = drng.msg
      /\ drng' = [g \in Generators |-> drng'[g]]
  BY <1>1, <1>2 DEF ProgramOrder, Generators
<1>4. ProgramOrder' /\ MessagesFitBuffer'
  BY <1>1, <1>2, <1>3 DEF ProgramOrder, MessagesFitBuffer, InRecord
<1>5. GeneratorsFollow' /\ RecordDrawn'
  BY <1>1, <1>2, <1>3 DEF GeneratorsFollow, RecordDrawn, Drawn, InRecord, SeedStates, MessageStates
<1>6. AlgorithmFollows'
  BY <1>1, <1>2 DEF AlgorithmFollows
<1> QED
  BY <1>4, <1>5, <1>6 DEF KatInv

LEMMA VerifyFollows == ASSUME KatInv, Verify PROVE KatInv'
<1>1. /\ stage = "verify" /\ stage' = "record"
      /\ i' = i + 1 /\ m_len_bytes' = m_len_bytes + Growth
      /\ UNCHANGED <<drng, memory, seed, m, pk, sk, sn, code>>
  BY DEF Verify
<1>2. /\ ProgramOrder /\ MessagesFitBuffer /\ GeneratorsFollow
  BY DEF KatInv
<1>3. i \in 0 .. Records - 1 /\ i + 1 \in 0 .. Records /\ m_len_bytes = FirstLength + i * Growth
  BY <1>1, <1>2, ProgramNumbers DEF ProgramOrder, InRecord
<1>4. m_len_bytes + Growth = FirstLength + (i + 1) * Growth
  <2>1. (i + 1) * Growth = i * Growth + Growth /\ i * Growth \in Nat
    BY <1>3, ProgramNumbers
  <2> QED
    BY <1>3, <2>1, ProgramNumbers
<1>5. ProgramOrder' /\ MessagesFitBuffer'
  BY <1>1, <1>2, <1>3, <1>4 DEF ProgramOrder, MessagesFitBuffer, InRecord
<1>6. GeneratorsFollow' /\ RecordDrawn'
  BY <1>1, <1>2 DEF GeneratorsFollow, RecordDrawn, Drawn, InRecord, SeedStates, MessageStates
<1>7. AlgorithmFollows'
  BY <1>1 DEF AlgorithmFollows
<1> QED
  BY <1>5, <1>6, <1>7 DEF KatInv

LEMMA ExitFollows == ASSUME KatInv, CryptoFailure \/ CloseFile PROVE KatInv'
<1>1. stage' = "exit" /\ UNCHANGED <<i, drng, memory, seed, m, m_len_bytes, pk, sk, sn>>
  BY DEF CryptoFailure, CloseFile
<1> QED
  BY <1>1 DEF KatInv, ProgramOrder, MessagesFitBuffer, GeneratorsFollow, RecordDrawn,
    AlgorithmFollows, InRecord

LEMMA KatInvHolds == KatSpec => []KatInv
<1>1. KatInit => KatInv
  BY ProgramStarts
<1>2. KatInv /\ [KatNext]_katVars => KatInv'
  <2> SUFFICES ASSUME KatInv, [KatNext]_katVars
               PROVE  KatInv'
    OBVIOUS
  <2>1. CASE KatNext
    BY <2>1, InitGeneratorsFollows, OpenFileFollows, DrawRecordFollows, KeygenFollows,
      SignFollows, VerifyFollows, ExitFollows DEF KatNext
  <2>2. CASE UNCHANGED katVars
    BY <2>2 DEF katVars, KatInv, ProgramOrder, MessagesFitBuffer, GeneratorsFollow, RecordDrawn,
      AlgorithmFollows, InRecord, Drawn, SeedStates, MessageStates
  <2> QED
    BY <2>1, <2>2
<1> QED
  BY <1>1, <1>2, PTL DEF KatSpec

\* What a record of the known-answer program holds can be recomputed from the
\* record and its number (MCIccs.RecordsReproducible), however many records
\* there are, whatever the generators and the scheme compute, and wherever
\* memory runs out in initializing a generator other than the one in question.
THEOREM RecordsAreReproducible == KatSpec => []RecordsReproducible
<1>1. KatInv => RecordsReproducible
  BY DEF KatInv, RecordDrawn, AlgorithmFollows, InRecord, RecordsReproducible
<1> QED
  BY <1>1, KatInvHolds, PTL

\* No message of the known-answer program runs over its buffer
\* (MCIccs.MessagesFitBuffer), of whatever length the first one is and however
\* fast they grow, as long as the last one fits.
THEOREM MessagesStayInBuffer == KatSpec => []MessagesFitBuffer
<1>1. KatInv => MessagesFitBuffer
  BY DEF KatInv
<1> QED
  BY <1>1, KatInvHolds, PTL
=============================================================================
