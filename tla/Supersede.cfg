SPECIFICATION Spec
CONSTANTS
  Calls = {c1, c2}
  Docs = {d1, d2, d3}
  None = None
  Absent = Absent
  MaxCrashes = 1
CHECK_DEADLOCK FALSE
INVARIANTS ChainsEnd NothingOverwritten MergeWhole
SYMMETRY Symmetric
