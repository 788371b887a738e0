---- MODULE MCTrineCodec ----
(***************************************************************************)
(* Elements of 3 bits in bytes of 4: every string of the packed segments,  *)
(* elements on both sides of q, an array that ends within a byte and forms *)
(* that are padded one by one.  And, one at a time with them, the bit      *)
(* stream, with bytes of three bits and fields that take up to four of     *)
(* them: fields of zeros, of ones, and with one bit at either end.         *)
(***************************************************************************)
EXTENDS TrineCodec, BitStream, SequencesExt

MCObjects == {"form", "public_key", "secret_key", "signature"}

MCElements == {0, 3, Q - 1, Q, 2 ^ QBits}
MCBytes == SUBSET (0 .. ByteBits - 1)
\* Raw segments are told apart by their bytes.
MCRaw(s) == {{s - 1}}

\* Tuples of one member of each of a sequence of sets.
RECURSIVE Product(_)
Product(sets) ==
  IF sets = <<>> THEN {<<>>}
  ELSE {<<x>> \o t : x \in Head(sets), t \in Product(Tail(sets))}

MCContents ==
  [o \in MCObjects |-> Product(
    [s \in Segments(o) |->
      [1 .. Layout(o)[s].count -> IF Layout(o)[s].packed THEN MCElements ELSE MCRaw(s)]])]

BytesOf(o, s) ==
  [1 .. Width(Layout(o)[s]) -> IF Layout(o)[s].packed THEN MCBytes ELSE MCRaw(s)]

\* And one string of each object that is short of a byte.
MCStrings ==
  [o \in MCObjects |->
    LET strings == {FlattenSeq(t) : t \in
                      Product([s \in Segments(o) |-> BytesOf(o, s)])}
    IN strings \cup {[i \in 1 .. TotalBytes(o) - 1 |-> {}]}]

MCFields == [width \in {2, 4, 7} |-> {{}, {0}, {width - 1}, 0 .. width - 1}]

VARIABLE running

MCInit == running \in {"codec", "bitstream"} /\ Init /\ StreamInit

MCNext ==
  /\ UNCHANGED running
  /\ \/ running = "codec" /\ Next /\ UNCHANGED streamVars
     \/ running = "bitstream" /\ StreamNext /\ UNCHANGED vars

MCSpec == MCInit /\ [][MCNext]_<<running, vars, streamVars>>
=============================================================================
