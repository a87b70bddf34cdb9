SPECIFICATION Spec
CONSTANTS
  Proposals = {p1, p2}
  Ratifiers = {r1, r2}
  Edits = {e1}
  Docs = {d1}
  Sweeper = sweeper
  Nobody = nobody
  MaxFaults = 1
SYMMETRY QueueSymmetry
INVARIANT ReplayRejected
CHECK_DEADLOCK FALSE
