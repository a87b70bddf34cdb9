SPECIFICATION Spec
CONSTANTS
  Paths = {p1}
  WatchJobs = {w1}
  OwnJobs = {o1}
  PassJobs = {r1, r2}
  NoPath = NoPath
  NoManifest = NoManifest
  MaxVersion = 2
  MaxStarts = 2
CHECK_DEADLOCK FALSE
INVARIANTS IndexSettles DrainArmed
PROPERTY EventsSettle
