------------------------------- MODULE MCXof -------------------------------
(***************************************************************************)
(* SM3: buffers that start at two bytes, digests of two bytes, and sizes   *)
(* of four bits that run out: a buffer of eight bytes cannot be doubled,   *)
(* the bits of more than twelve bytes cannot be counted, and more than     *)
(* fifteen bytes have no size.  For the padding, bytes of four bits and    *)
(* blocks of 32: lengths of up to 255 bits fit a word.                     *)
(*                                                                         *)
(* SHA3: a sponge with a rate of three bytes.  A byte is a set of atoms,   *)
(* so that exclusive-or is symmetric difference, and a permuted byte is an *)
(* atom that names its position and the state it came from: two states are *)
(* equal only if they were computed alike.                                 *)
(***************************************************************************)
EXTENDS XofBuilds

MCInputs == {<<>>, <<1>>, <<2, 2, 1>>}
MCLengths == {0, 1, 3, 5}
MCDigestLengths == {3, 5}

MCZero == {}
MCXor(a, b) == (a \ b) \cup (b \ a)
MCSuffix == {<<"suffix", 0, 0>>}
MCLastBit == {<<"last", 0, 0>>}
MCPermute(s) == [i \in DOMAIN s |-> {<<"permuted", i, s>>}]

Letter(x) == {<<"letter", x, 0>>}
MCSpongeInputs == {<<>>, <<Letter(1)>>, <<Letter(2), Letter(1)>>,
                   <<Letter(1), Letter(2), Letter(2), Letter(1)>>}
MCSpongeLengths == {0, 1, 2, 4}

MCMsgBitlens == {0, 3, 7, 8, 9, 14, 16}
MCOutputBitlens == {0, 5, 256, 300, 520}
=============================================================================
