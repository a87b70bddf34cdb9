----------------------------- MODULE MCSupersede -----------------------------
(* Small instances of Supersede; calls and documents are interchangeable.   *)
EXTENDS Supersede, TLC

Symmetric == Permutations(Calls) \cup Permutations(Docs)
==============================================================================
