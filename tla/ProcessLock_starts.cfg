SPECIFICATION FairSpec
CONSTANTS
  Procs = {p1, p2}
  Pids = {n1, n2}
  Absent = absent
  MaxAttempts = 3
  MayOverstay = TRUE
INVARIANTS HolderRecorded LoneStarterServes
PROPERTY AcquireSettles
CHECK_DEADLOCK FALSE
