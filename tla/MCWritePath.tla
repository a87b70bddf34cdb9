---------------------------- MODULE MCWritePath ----------------------------
(* Small instances of WritePath: the calls and the documents are model     *)
(* values, and calls are interchangeable.                                  *)
EXTENDS WritePath, TLC

CallSymmetry == Permutations(Calls)
=============================================================================
