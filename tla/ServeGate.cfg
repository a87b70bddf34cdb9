SPECIFICATION Spec
CONSTANTS
  Conns = {a, b}
  Users = {"ann", "bob"}
  Remotes = {"near", "far"}
  None = None
  MaxSlots = 2
  Burst = 1
  FailureBurst = 1
  MaxEntries = 1
  IdleTicks = 1
  Kinds <- Some
  Spent = {"near"}
  MaxRequests = 3
  MaxTicks = 1
CHECK_DEADLOCK FALSE
INVARIANTS SlotsExact AuditedOnce LimitsHold QuietAfterClose
PROPERTY ServerSettles
