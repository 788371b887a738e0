----------------------------- MODULE Sm3Padding -----------------------------
(***************************************************************************)
(* sm3_bit, in iccs/auxfunc.c and again in iccs/drng.c: how a message of   *)
(* any number of bits is cut into blocks and padded.  The compression is   *)
(* not interpreted; the digest is the list of the blocks compressed.       *)
(*                                                                         *)
(* A bit of the message is its position, counted from 2; the bits 0 and 1  *)
(* are those of the padding.  Memory goes on behind the last bit of a      *)
(* message.                                                                *)
(***************************************************************************)
EXTENDS Numbers, Sequences, SequencesExt

CONSTANTS
  ByteBits, WordBits, BlockBits,   \* 8, 32 and 512
  MaxBitlen                        \* bound on the messages

\* A block is whole bytes, and holds the length, which has two words.
WidthsFit ==
  /\ {ByteBits, WordBits, BlockBits} \subseteq Nat \ {0} /\ MaxBitlen \in Nat
  /\ BlockBits % ByteBits = 0 /\ 2 * WordBits <= BlockBits

VARIABLES
  at,                   \* where the call is
  msg_bitlen,
  block,
  digest

vars == <<at, msg_bitlen, block, digest>>

block_num == msg_bitlen \div BlockBits
remain == msg_bitlen % BlockBits

Message(first, bits) == [b \in 1 .. bits |-> first + b + 1]
Zeros(bits) == [b \in 1 .. bits |-> 0]
BitsOfNumber(number, bits) ==
  [b \in 1 .. bits |-> (number \div Pow2[bits - b]) % 2]

\* Bits first + 1, first + 2 and so on of a block, overwritten.
Put(bits, first, with) ==
  [b \in DOMAIN bits |->
    IF b \in first + 1 .. first + Len(with) THEN with[b - first] ELSE bits[b]]

Init == at = "idle" /\ msg_bitlen = 0 /\ block = <<>> /\ digest = <<>>

sm3_bit(bitlen) ==
  /\ at = "idle"
  /\ msg_bitlen' = bitlen
  /\ digest' = <<>> /\ block' = <<>>
  /\ at' = "blocks"

WholeBlocks ==
  /\ at = "blocks"
  /\ digest' = [k \in 1 .. block_num |-> Message((k - 1) * BlockBits, BlockBits)]
  /\ at' = "rest"
  /\ UNCHANGED <<msg_bitlen, block>>

\* The bytes that hold the rest, the last of them with bits of whatever is
\* behind the message.
Rest ==
  LET bits == ((remain + ByteBits - 1) \div ByteBits) * ByteBits
  IN Put(Zeros(BlockBits), 0, Message(block_num * BlockBits, bits))

\* The byte the message ends in, cut and marked.
\* mutant: marked only
Marked_Only(bits) == Put(bits, remain, <<1>>)
Marked(bits) == Put(bits, remain, <<1>> \o Zeros(ByteBits - 1 - (remain % ByteBits)))

LastBlock ==
  /\ at = "rest"
  /\ block' = Marked(Rest)
  /\ at' = "pad"
  /\ UNCHANGED <<msg_bitlen, digest>>

\* mutant: the mark is not counted
Room_Mark == remain <= BlockBits - 2 * WordBits
Room == remain <= BlockBits - 2 * WordBits - 1

Pad ==
  /\ at = "pad"
  /\ IF Room
       THEN UNCHANGED <<digest, block>>
       ELSE /\ digest' = Append(digest, block)
            /\ block' = Put(block, 0, Zeros(BlockBits - 2 * WordBits))
  /\ at' = "length"
  /\ UNCHANGED msg_bitlen

\* PUT32 takes the lower bits of a number.  The upper word is shifted to the
\* right before it is shifted to the left.
UpperWord == (block_num \div Pow2[WordBits]) * BlockBits
LowerWord == block_num * BlockBits + remain

Finish ==
  /\ at = "length"
  /\ LET last == Put(block, BlockBits - 2 * WordBits,
                     BitsOfNumber(UpperWord, WordBits) \o BitsOfNumber(LowerWord, WordBits))
     IN digest' = Append(digest, last)
  /\ at' = "idle"
  /\ UNCHANGED <<msg_bitlen, block>>

Next ==
  \/ \E bitlen \in 0 .. MaxBitlen : sm3_bit(bitlen)
  \/ WholeBlocks \/ LastBlock \/ Pad \/ Finish

Spec == Init /\ [][Next]_vars

-----------------------------------------------------------------------------
\* GB/T 32905-2016: the message, a 1, as few 0 as possible, and the length of
\* the message in two words.
Padded(bitlen) ==
  LET zeros == CHOOSE k \in 0 .. BlockBits - 1 :
                 (bitlen + 1 + k + 2 * WordBits) % BlockBits = 0
  IN Message(0, bitlen) \o <<1>> \o Zeros(zeros) \o BitsOfNumber(bitlen, 2 * WordBits)

PadsAs(bitlen) == at = "idle" /\ digest # <<>> => FlattenSeq(digest) = Padded(bitlen)

\* What is compressed for a message whose length fits a word is the message
\* padded as the standard says: wherever it ends within a byte or a block, no
\* bit behind it is hashed, and the length gets a block of its own exactly if
\* it does not fit behind the mark.
PadsAsStandard == msg_bitlen < Pow2[WordBits] => PadsAs(msg_bitlen)

\* auxfunc.c calls this GB/T 32905-2016, for any length of 64 bits.
PadsEveryLength == PadsAs(msg_bitlen)
=============================================================================
