SPECIFICATION Spec
CONSTANTS
  Docs = {d}
  Events = {v}
  None = None
  All = All
  MaxAttempts = 2
  MaxChanges = 2
  MaxFailures = 1
  MaxCrashes = 0
CHECK_DEADLOCK FALSE
PROPERTIES FailuresRetried
