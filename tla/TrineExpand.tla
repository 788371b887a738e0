----------------------------- MODULE TrineExpand -----------------------------
(***************************************************************************)
(* trine_expand.c over util.c: a public seed, a base form and a secret     *)
(* matrix with its inverse, each from a stream of its own.  The caller's   *)
(* memory is a row of cells, so that the two matrices it asks for may lie  *)
(* next to each other, overlap, or not be wanted at all.                   *)
(*                                                                         *)
(* A stream may deliver any element, or fail.                              *)
(***************************************************************************)
EXTENDS MatrixElim

CONSTANTS
  QBits,         \* TRINE_q_bits
  Cells,         \* the last address of the caller's memory
  FirstMatrix,   \* where out_matrix points, unless it is NULL
  UntouchedCell  \* what the caller's cells hold

NULL == -1
Memory == 0 .. Cells
Elements == N * N
triform_element_count == N * N * N

\* The caller's memory has room for what it asks for.
ASSUME MemoryAssumption ==
  /\ FirstMatrix \in Nat /\ Cells \in Nat
  /\ FirstMatrix + Elements - 1 <= Cells /\ triform_element_count - 1 <= Cells

\* What one rnd_GF call may see, and what it takes for an element.
FieldSamples == 0 .. 2 ^ QBits - 1

VARIABLES
  call,        \* the operation under way, or the last one, and its outputs
  expanding,   \* the stage it is in, or "idle"
  samples,     \* matrix_tmp, row by row
  caller,
  expandHeld,
  result

expandVars == <<call, expanding, samples, caller, expandHeld, result>>

ExpandInit ==
  /\ call = [op |-> "none", matrix |-> NULL, inverse |-> NULL]
  /\ expanding = "idle" /\ samples = <<>>
  /\ caller = [a \in Memory |-> UntouchedCell]
  /\ expandHeld = FALSE /\ result = 0

\* mutant: any two outputs will do
ranges_overlap_Never(a, b, count) == FALSE
ranges_overlap(a, b, count) ==
  a # NULL /\ b # NULL /\ a < b + count /\ b < a + count

Begin(op, matrix, inverse, refused) ==
  /\ expanding = "idle"
  /\ call' = [op |-> op, matrix |-> matrix, inverse |-> inverse]
  /\ caller' = [a \in Memory |-> UntouchedCell]
  /\ samples' = <<>>
  /\ IF refused THEN result' = -1 /\ UNCHANGED expanding
                ELSE expanding' = "domain" /\ UNCHANGED result
  /\ UNCHANGED expandHeld

\* A null seed, an n or an index out of range and an unknown role are all
\* badArgument.
trine_expand_public_seed ==
  \E badArgument \in BOOLEAN : Begin("public_seed", 0, NULL, badArgument)
trine_expand_base_form ==
  \E badArgument \in BOOLEAN : Begin("base_form", 0, NULL, badArgument)
trine_expand_secret_matrix_pair ==
  \E badArgument \in BOOLEAN,
     matrix \in {NULL, FirstMatrix}, inverse \in {NULL} \cup 0 .. Cells + 1 - Elements :
    Begin("pair", matrix, inverse,
          \/ badArgument
          \/ matrix = NULL /\ inverse = NULL
          \/ ranges_overlap(matrix, inverse, Elements))

ExpandReturn(code) == expanding' = "idle" /\ result' = code /\ expandHeld' = FALSE

\* Any call of the XOF may fail, the last chance of an operation to do so.
XofFails ==
  /\ expanding \in {"domain", "squeeze", "stream", "elements"}
  /\ ExpandReturn(-1)
  /\ UNCHANGED <<call, samples, caller>>

-----------------------------------------------------------------------------
\* init_domain_xof.
InitDomain ==
  /\ expanding = "domain"
  /\ expandHeld' = TRUE
  /\ expanding' = IF call.op = "base_form" THEN "elements" ELSE "squeeze"
  /\ UNCHANGED <<call, samples, caller, result>>

\* A public seed, or the seed of a matrix, which is expanded in its turn.
Squeeze ==
  /\ expanding = "squeeze"
  /\ IF call.op = "public_seed"
       THEN ExpandReturn(0) /\ caller' = [caller EXCEPT ![call.matrix] = 0]
       ELSE expanding' = "stream" /\ expandHeld' = FALSE /\ UNCHANGED <<caller, result>>
  /\ UNCHANGED <<call, samples>>

\* The first lines of rnd_inv_matrix.
InitStream ==
  /\ expanding = "stream"
  /\ expandHeld' = TRUE
  /\ expanding' = "elements"
  /\ UNCHANGED <<call, samples, caller, result>>

Wanted == IF call.op = "base_form" THEN triform_element_count ELSE Elements

Drawing == expanding = "elements" /\ Len(samples) < Wanted

\* One rnd_GF whose masked bytes are a field element: a base form is written
\* into the caller's memory as it is drawn.
rnd_GF(sample) ==
  /\ Drawing /\ sample < Q
  /\ samples' = Append(samples, sample)
  /\ caller' = IF call.op = "base_form"
               THEN [caller EXCEPT ![call.matrix + Len(samples)] = sample] ELSE caller
  /\ UNCHANGED <<call, expanding, expandHeld, result>>

\* It draws again.
rnd_GF_refuses(sample) == Drawing /\ sample >= Q /\ UNCHANGED expandVars

BaseFormDrawn ==
  /\ expanding = "elements" /\ call.op = "base_form" /\ Len(samples) = Wanted
  /\ ExpandReturn(0)
  /\ UNCHANGED <<call, samples, caller>>

Drawn == [r \in Index |-> [c \in Index |-> samples[r * N + c + 1]]]

\* What is left of the elements of a singular matrix.
\* mutant: the next attempt sees the same ones
Again_Same == samples
Again == <<>>

TestMatrix ==
  /\ expanding = "elements" /\ call.op = "pair" /\ Len(samples) = Wanted
  /\ IF pmod_mat_is_invertible(Drawn)
       THEN expanding' = "outputs" /\ expandHeld' = FALSE /\ UNCHANGED samples
       ELSE samples' = Again /\ UNCHANGED <<expanding, expandHeld>>
  /\ UNCHANGED <<call, caller, result>>

\* A matrix copied to where a pointer points.
CopiedMatrix(memory, pointer, M) ==
  [a \in Memory |->
    IF pointer # NULL /\ a \in pointer .. pointer + Elements - 1
    THEN M[(a - pointer) \div N][(a - pointer) % N] ELSE memory[a]]

WriteOutputs ==
  /\ expanding = "outputs"
  /\ LET inverse == pmod_mat_inv(Drawn)
     IN IF call.inverse # NULL /\ inverse = None
          THEN ExpandReturn(-1) /\ UNCHANGED caller
          ELSE /\ ExpandReturn(0)
               /\ caller' = CopiedMatrix(CopiedMatrix(caller, call.matrix, Drawn), call.inverse, inverse)
  /\ UNCHANGED <<call, samples>>

ExpandNext ==
  \/ trine_expand_public_seed \/ trine_expand_base_form
  \/ trine_expand_secret_matrix_pair
  \/ InitDomain \/ Squeeze \/ InitStream
  \/ \E sample \in FieldSamples : rnd_GF(sample) \/ rnd_GF_refuses(sample)
  \/ BaseFormDrawn \/ TestMatrix \/ WriteOutputs \/ XofFails

ExpandSpec == ExpandInit /\ [][ExpandNext]_expandVars

\* The steps of the call itself, and the elements a matrix that can be used is
\* made of: behind every beginning of the identity, its next element comes up
\* again and again.
Proceeds ==
  InitDomain \/ Squeeze \/ InitStream \/ BaseFormDrawn \/ TestMatrix \/ WriteOutputs

UsefulElements == [i \in 1 .. Elements |-> pmod_mat_identity[(i - 1) \div N][(i - 1) % N]]

UsefulElement(i) ==
  samples = SubSeq(UsefulElements, 1, i - 1) /\ rnd_GF(UsefulElements[i])

AnyElement == \E sample \in FieldSamples : rnd_GF(sample)

ExpandFairness ==
  /\ WF_expandVars(Proceeds) /\ WF_expandVars(AnyElement)
  /\ \A i \in 1 .. Elements : SF_expandVars(UsefulElement(i))

ExpandFairSpec == ExpandSpec /\ ExpandFairness

-----------------------------------------------------------------------------
Held(pointer) ==
  [r \in Index |-> [c \in Index |-> caller[pointer + r * N + c]]]

Outputs ==
  UNION {p .. p + Elements - 1 : p \in {call.matrix, call.inverse} \ {NULL}}

\* However the caller's outputs lie, a call that returns 0 leaves in them an
\* invertible matrix and the inverse of that same matrix, or the one of the two
\* it was asked for; one that fails leaves the memory alone, and neither keeps
\* an XOF or writes next to its outputs.  Only a base form may be left behind
\* in part.
PairMatches ==
  expanding = "idle" =>
    /\ ~expandHeld
    /\ call.op = "pair" /\ result = 0 =>
         /\ call.matrix # NULL => Held(call.matrix) = Drawn
         /\ call.inverse # NULL =>
              pmod_mat_mul(Drawn, Held(call.inverse)) = pmod_mat_identity
         /\ pmod_mat_is_invertible(Drawn)
         /\ \A a \in Memory \ Outputs : caller[a] = UntouchedCell
    /\ call.op # "base_form" /\ result = -1 => \A a \in Memory : caller[a] = UntouchedCell

\* Drawing until a matrix is invertible ends: the loop has no bound of its own.
ExpansionEnds == expanding # "idle" ~> expanding = "idle"
=============================================================================
