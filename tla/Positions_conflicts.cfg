SPECIFICATION Spec
CONSTANTS
  Asserts = {a1, a2}
  Consolidations = {k1}
  Rulings = {r1}
  Principals = {alice, bob}
  Unknown = unknown
  Free = free
  MaxLapses = 1
  MaxFaults = 1
SYMMETRY PositionsSymmetry
INVARIANTS PositionIntegrity ConflictsRecorded LedgerKeeps DissentCarried
PROPERTY PositionsKept
CHECK_DEADLOCK FALSE
