--------------------------- MODULE MCStagedActions ---------------------------
(* Small instances of StagedActions: calls, edits and documents are model   *)
(* values, and those of a kind are interchangeable.                         *)
EXTENDS StagedActions, TLC

QueueSymmetry == Permutations(Proposals) \cup Permutations(Ratifiers)
==============================================================================
