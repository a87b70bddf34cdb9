-------------------------------- MODULE Chains --------------------------------
(***************************************************************************)
(* superseded_by chains: the pointers between documents, the walks along   *)
(* them, and the guard of the tools that set one                           *)
(* (src/src/curation/supersede-chains.ts).                                 *)
(*                                                                         *)
(* A pointer map gives each document the document its superseded_by        *)
(* resolves to, or None where it has none or one that does not resolve.    *)
(***************************************************************************)
EXTENDS Naturals, FiniteSets, Functions

CONSTANTS
  Docs,   \* the documents, by canonical path
  None,   \* no document
  Absent  \* what stands for a document that is not there

ASSUME ChainsAssumption == None \notin Docs /\ IsFiniteSet(Docs)

PointerMap == [Docs -> Docs \cup {None}]

\* The document n hops down the chain of s, or None past its end.
Walk(next, s) ==
  LET at[n \in 0 .. Cardinality(Docs)] ==
        IF n = 0 THEN s
        ELSE IF at[n - 1] = None THEN None ELSE next[at[n - 1]]
  IN  at

\* s and what its chain visits.
Visited(next, s) == Range(Walk(next, s)) \ {None}

OnLoop(next, s) == \E n \in 1 .. Cardinality(Docs) : Walk(next, s)[n] = s

\* An edit takes the place of what the document says now; only loops through
\* an edited document count.
ClosesLoop(next, edits) ==
  LET edited == [d \in Docs |-> IF d \in DOMAIN edits THEN edits[d] ELSE next[d]]
  IN  \E s \in DOMAIN edits : OnLoop(edited, s)
================================================================================
