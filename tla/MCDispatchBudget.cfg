CONSTANTS
  r1 = r1
  r2 = r2
  NoToken = NoToken
  Accounts = {a1, a2}
  Requests <- MCRequests
  Leaving <- MCRequests
  GateLimit = 2
  Slots = 2
  MaxImageAttempts = 1
  MaxSwitches = 1
  MaxAuthRetries = 1
  Errors = {"quota"}
SPECIFICATION Spec
CHECK_DEADLOCK FALSE
PROPERTIES QuotaPreservesBudget
