SPECIFICATION Spec
CONSTANTS
  Procs = {p1, p2, p3}
  Pids = {n1, n2, n3}
  Absent = absent
  MaxAttempts = 3
  MayOverstay = FALSE
SYMMETRY ProcessSymmetry
INVARIANT OneHolder
CHECK_DEADLOCK FALSE
