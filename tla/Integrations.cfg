SPECIFICATION Spec
CONSTANTS
  Docs = {d, e}
  Events = {v}
  None = None
  All = All
  MaxAttempts = 2
  MaxChanges = 2
  MaxFailures = 2
  MaxCrashes = 1
CHECK_DEADLOCK FALSE
INVARIANTS CursorHonest CertifiedUnlessHidden EventsServed
PROPERTIES Learns QueueSettles
