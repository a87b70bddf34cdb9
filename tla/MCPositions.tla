----------------------------- MODULE MCPositions -----------------------------
(* Small instances of Positions; calls of a kind and principals are         *)
(* interchangeable.                                                         *)
EXTENDS Positions, TLC

PositionsSymmetry == Permutations(Asserts) \cup Permutations(Principals)
==============================================================================
