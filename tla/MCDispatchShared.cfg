CONSTANTS
  r1 = r1
  r2 = r2
  NoToken = NoToken
  Accounts = {a1, a2}
  Requests <- MCRequests
  Leaving <- MCRequests
  GateLimit = 2
  Slots = 2
  MaxImageAttempts = 1
  MaxSwitches = 1
  MaxAuthRetries = 1
  Errors = {"retryable", "stalled", "limited", "auth", "quota", "reference"}
SPECIFICATION Spec
SYMMETRY Interchangeable
CHECK_DEADLOCK FALSE
INVARIANTS TypeOK NothingHeldOutsideAttempt CondemnedIsGone AttemptsBounded UpstreamWithinLimits
PROPERTIES LeasesAreSlots GateIsSlots
