----------------------------- MODULE Pseudohash -----------------------------
(***************************************************************************)
(* sm3hash, pseudohash and pseudoXOF of iccs/auxfunc.c.  A message of any  *)
(* number of bits is joined with a tag or a counter in a buffer of its     *)
(* own, hashed, and the hashes are hashed again.  Each buffer may be       *)
(* refused.                                                                *)
(*                                                                         *)
(* A bit of the message is its position, counted from 2, also behind the   *)
(* message's end.  SM3 is not interpreted: a digest is the hashed string   *)
(* in brackets, -1 or, if keyed, -2 on the left and -3 on the right.       *)
(***************************************************************************)
EXTENDS Integers, Sequences, SequencesExt

CONSTANTS
  MsgBitlens,      \* of the callers' messages
  OutputBitlens    \* asked of pseudoXOF

CallersLengths == MsgBitlens \subseteq Nat /\ OutputBitlens \subseteq Nat

OctetBits == 8
DigestBits == 256
Bytes(bits) == (bits + OctetBits - 1) \div OctetBits

Zeros(bits) == [b \in 1 .. bits |-> 0]
BitsOfNumber(number, bits) ==
  [b \in 1 .. bits |-> (number \div 2 ^ (bits - b)) % 2]
Message(bits) == [b \in 1 .. bits |-> b + 1]

Sm3(bits) == <<-1>> \o bits \o <<-3>>
Hmac(bits) == <<-2>> \o bits \o <<-3>>
sm3_bit(memory, bitlen) == Sm3(SubSeq(memory, 1, bitlen))

-----------------------------------------------------------------------------
\* The byte in which the message ends keeps the message's bits only.
\* mutant: it keeps the others too
normalize_Not(memory, bits) == memory
normalize(memory, bits) == SubSeq(memory, 1, bits) \o Zeros(Len(memory) - bits)

XorBit(a, b) == IF b = 0 THEN a ELSE IF a = 0 THEN b ELSE -4

\* A buffer with a tag behind the message: in bytes of its own, or joined to
\* the message's last byte and shifted from there on.
MsgThenTag(bits, tag) ==
  LET copy == Message(OctetBits * Bytes(bits))
      free == Len(copy) - bits
      last == normalize(copy, bits)
  IN IF free = 0 THEN copy \o tag
     ELSE [b \in 1 .. Len(copy) |-> IF b <= bits THEN last[b] ELSE XorBit(last[b], tag[b - bits])]
            \o SubSeq(tag, free + 1, Len(tag)) \o Zeros(free)

TagThenMsg(bits, tag) == tag \o Message(OctetBits * Bytes(bits))

\* The four bytes of ct, which stays below 256 here.
Counter(ct) == Zeros(24) \o BitsOfNumber(ct, 8)

\* 02 00, 03 00 and 04 00.
Tag(digestLen) == BitsOfNumber(digestLen \div 256, 8) \o Zeros(8)

-----------------------------------------------------------------------------
VARIABLES
  pc, op,
  lengths,    \* of the message and of the output
  values,     \* the hashes computed, by the names of the code
  step,       \* of the chain behind h1
  held,       \* the buffers allocated
  output,     \* the caller's: hashes, and for pseudoXOF the bits taken of them
  result

vars == <<pc, op, lengths, values, step, held, output, result>>

Untouched == [hashes |-> <<>>, bits |-> <<>>]
Names == {"k1", "h1", "k2", "h2", "k3", "h3", "k4", "h4"}
NoValues == [name \in Names |-> <<>>]

\* The hashes behind h1, in the order of the code, and what they are of.
Then(to, keyed, of) == [to |-> to, keyed |-> keyed, of |-> of]
Chain(digestLen) ==
  CASE digestLen = 512 -> <<Then("h2", FALSE, <<"k1", "h1">>)>>
    [] digestLen = 768 -> <<Then("k2", TRUE, <<"h1">>), Then("h2", FALSE, <<"k1", "h1">>),
                            Then("h3", FALSE, <<"h2", "k2">>)>>
    [] digestLen = 1024 -> <<Then("k2", TRUE, <<"h1">>), Then("h2", FALSE, <<"k1", "h1">>),
                             Then("k3", TRUE, <<"h2">>), Then("h3", FALSE, <<"h2", "k2">>),
                             Then("k4", TRUE, <<"h3">>), Then("h4", FALSE, <<"k3", "h3", "k4">>)>>

Join(names, vals) == FlattenSeq([i \in DOMAIN names |-> vals[names[i]]])

Init ==
  /\ pc = "idle" /\ op = "none"
  /\ lengths = [msg |-> 0, output |-> 0]
  /\ values = NoValues /\ step = 0 /\ held = {} /\ output = Untouched /\ result = 0

Return(code) == pc' = "idle" /\ result' = code

\* Where a call begins; a length it does not know ends it.
Entry(operation, outputLen) ==
  CASE operation = "sm3hash" /\ outputLen = 256 -> "hash"
    [] operation = "pseudohash" /\ outputLen \in {512, 768, 1024} -> "k1"
    [] operation = "pseudoXOF" -> "buffers"
    [] OTHER -> "idle"

Call(operation, msgLen, outputLen) ==
  /\ pc = "idle"
  /\ op' = operation /\ lengths' = [msg |-> msgLen, output |-> outputLen]
  /\ values' = NoValues /\ step' = 0 /\ held' = {} /\ output' = Untouched
  /\ pc' = Entry(operation, outputLen)
  /\ result' = IF pc' = "idle" THEN -4 ELSE result

Sm3Hash ==
  /\ pc = "hash"
  /\ output' = [Untouched EXCEPT !.hashes = <<Sm3(Message(lengths.msg))>>]
  /\ Return(0)
  /\ UNCHANGED <<op, lengths, values, step, held>>

InChain == pc = "chain" /\ step \in DOMAIN Chain(lengths.output)

\* No memory for a buffer, or within hmac for one of its own: what is held by
\* then is not freed.
AllocationFails ==
  /\ \/ pc \in {"k1", "h1", "buffers"} /\ Return(-2) /\ UNCHANGED held
     \/ pc = "buffers" /\ Return(-2) /\ held' = {"msg_ct"}
     \/ pc = "k1" /\ Return(-3) /\ held' = {"tag_msg"}
     \/ InChain /\ Chain(lengths.output)[step].keyed /\ Return(-3) /\ UNCHANGED held
  /\ UNCHANGED <<op, lengths, values, step, output>>

K1 ==
  /\ pc = "k1"
  /\ held' = {"tag_msg"}
  /\ LET memory == TagThenMsg(lengths.msg, Tag(lengths.output))
     IN values' = [values EXCEPT !["k1"] = Hmac(SubSeq(memory, 1, 16 + lengths.msg))]
  /\ pc' = "h1"
  /\ UNCHANGED <<op, lengths, step, output, result>>

H1 ==
  /\ pc = "h1"
  /\ held' = held \cup {"msg_tag"}
  /\ LET memory == MsgThenTag(lengths.msg, Tag(lengths.output))
     IN values' = [values EXCEPT !["h1"] = sm3_bit(memory, 16 + lengths.msg)]
  /\ pc' = "chain" /\ step' = 1
  /\ UNCHANGED <<op, lengths, output, result>>

NextHash ==
  /\ InChain
  /\ LET next == Chain(lengths.output)[step]
         joined == Join(next.of, values)
     IN values' = [values EXCEPT ![next.to] = IF next.keyed THEN Hmac(joined) ELSE Sm3(joined)]
  /\ step' = step + 1
  /\ UNCHANGED <<pc, op, lengths, held, output, result>>

FinalResult ==
  /\ pc = "chain" /\ ~InChain
  /\ LET names == SubSeq(<<"h1", "h2", "h3", "h4">>, 1, lengths.output \div DigestBits)
     IN output' = [Untouched EXCEPT !.hashes = [i \in DOMAIN names |-> values[names[i]]]]
  /\ held' = {}
  /\ Return(0)
  /\ UNCHANGED <<op, lengths, values, step>>

\* The hashes of message and counter, cut to bytes, the last of them to bits.
PseudoXof ==
  /\ pc = "buffers"
  /\ LET copied == Message(OctetBits * Bytes(lengths.output))
         blocks == (lengths.output + DigestBits - 1) \div DigestBits
     IN output' =
          [hashes |-> [ct \in 1 .. blocks |->
             sm3_bit(MsgThenTag(lengths.msg, Counter(ct)), lengths.msg + 32)],
           bits |-> IF lengths.output % DigestBits = 0 THEN copied
                    ELSE normalize(copied, lengths.output)]
  /\ Return(0)
  /\ UNCHANGED <<op, lengths, values, step, held>>

Next ==
  \/ \E operation \in {"sm3hash", "pseudohash"}, msgLen \in MsgBitlens,
        outputLen \in {256, 384, 512, 768, 1024} : Call(operation, msgLen, outputLen)
  \/ \E msgLen \in MsgBitlens, outputLen \in OutputBitlens :
        Call("pseudoXOF", msgLen, outputLen)
  \/ Sm3Hash \/ AllocationFails \/ K1 \/ H1 \/ NextHash \/ FinalResult \/ PseudoXof

Spec == Init /\ [][Next]_vars

-----------------------------------------------------------------------------
\* The hashes over strings of bits, without buffers.
PseudohashOf(M, digestLen) ==
  LET k1 == Hmac(Tag(digestLen) \o M)   h1 == Sm3(M \o Tag(digestLen))
      h2 == Sm3(k1 \o h1)
      h3 == Sm3(h2 \o Hmac(h1))
      h4 == Sm3(Hmac(h2) \o h3 \o Hmac(h3))
  IN SubSeq(<<h1, h2, h3, h4>>, 1, digestLen \div DigestBits)

\* A call that returns 0 hashes the message's bits and the tag's or counter's
\* behind them, wherever in a byte the message ends and whatever memory holds
\* behind it, delivers all hashes and exactly the bits asked for, and has freed
\* its buffers.  A call that ran out of memory on its way delivers nothing; what
\* it may have left allocated are the copies of the message.
HashesAllOrNothing ==
  pc = "idle" /\ op # "none" =>
    IF result = 0
    THEN LET M == Message(lengths.msg)
         IN /\ held = {}
            /\ output.hashes =
                 CASE op = "sm3hash" -> <<Sm3(M)>>
                   [] op = "pseudohash" -> PseudohashOf(M, lengths.output)
                   [] op = "pseudoXOF" ->
                        [ct \in DOMAIN output.hashes |-> Sm3(M \o Counter(ct))]
            /\ op = "pseudoXOF" =>
                 /\ DigestBits * Len(output.hashes) >= lengths.output
                 /\ output.bits = Message(lengths.output)
                                    \o Zeros(Len(output.bits) - lengths.output)
    ELSE output = Untouched /\ held \subseteq {"tag_msg", "msg_tag", "msg_ct"}
=============================================================================
