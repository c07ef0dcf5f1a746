CONSTANTS
  r1 = r1
  r2 = r2
  NoToken = NoToken
  Accounts = {a1, a2}
  Requests <- MCRequests
  Leaving <- MCLeaving
  GateLimit = 1
  Slots = 1
  MaxImageAttempts = 1
  MaxSwitches = 1
  MaxAuthRetries = 1
  Errors = {"quota", "stalled"}
SPECIFICATION FairSpec
CHECK_DEADLOCK FALSE
INVARIANTS NothingHeldOutsideAttempt CondemnedIsGone AttemptsBounded
PROPERTIES FirstRequestEnds
