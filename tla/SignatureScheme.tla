-------------------------- MODULE SignatureScheme --------------------------
(***************************************************************************)
(* What the library promises, without rounds, points or transcripts: a     *)
(* signer issues signatures, and a question put to the verifier is         *)
(* answered "accept" exactly when what is asked about was issued.          *)
(*                                                                         *)
(* Two things excuse a wrong answer.  A failing resource (obstructed)      *)
(* excuses a rejection, never an acceptance; a coincidence of the          *)
(* challenge hash (lucky) excuses an acceptance.                           *)
(***************************************************************************)
CONSTANTS
  Same(_, _),   \* the entry and the question agree in every component
  Alike(_, _)   \* they agree up to what verification cannot tell apart

VARIABLES
  issued,      \* entries issued, each with a field "marred"
  question,    \* what the verifier was last asked
  answer,      \* "accept" or "reject", or "open" until there is one
  obstructed,  \* a resource failed since the question was put
  lucky        \* challenges of two digests coincide

vars == <<issued, question, answer, obstructed, lucky>>

Init ==
  /\ issued = {} /\ answer = "reject"
  /\ obstructed = FALSE /\ lucky = FALSE

AlikeIssued(q) == \E e \in issued : Alike(e, q)
SoundlyIssuedFor(q) == \E e \in issued : Same(e, q) /\ e.marred = {}

\* A signature is issued while no question is open; nothing is ever revoked.
Issue ==
  /\ answer # "open"
  /\ issued \subseteq issued'
  /\ UNCHANGED <<question, answer, obstructed, lucky>>

Ask ==
  /\ answer # "open"
  /\ answer' = "open"
  /\ UNCHANGED <<issued, lucky>>

Accept ==
  /\ answer = "open"
  /\ AlikeIssued(question) \/ lucky
  /\ answer' = "accept"
  /\ UNCHANGED <<issued, question, obstructed, lucky>>

Reject ==
  /\ answer = "open"
  /\ ~SoundlyIssuedFor(question) \/ obstructed
  /\ answer' = "reject"
  /\ UNCHANGED <<issued, question, obstructed, lucky>>

\* Resources fail while a question is open.
Obstruct ==
  /\ answer = "open"
  /\ obstructed' = TRUE
  /\ UNCHANGED <<issued, question, answer, lucky>>

Coincide ==
  /\ lucky' = TRUE
  /\ UNCHANGED <<issued, question, answer, obstructed>>

Next == Issue \/ Ask \/ Accept \/ Reject \/ Obstruct \/ Coincide

Spec == Init /\ [][Next]_vars
=============================================================================
