--------------------------- MODULE MCProcessLock ---------------------------
(* Small instances of ProcessLock; incarnations and process ids are        *)
(* interchangeable.                                                        *)
EXTENDS ProcessLock, TLC

ProcessSymmetry == Permutations(Procs) \cup Permutations(Pids)
=============================================================================
