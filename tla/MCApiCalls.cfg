CONSTANTS
  Ids = {u1, u2}
  RawKeys = {ka, k1}
  AdminKeys = {ka}
  Limits <- SmallLimits
  Nobody = Nobody
  MaxEntries = 2
  Loop = Loop
  Ender = Ender
  Requests = {r1, r2}
  Models = {"m"}
  Counts = {0, 1, 5}
  KindsOf <- SmallKinds
  SecretsOf <- SmallSecrets
  Stored <- OneUser
  Calls <- SmallCalls
  r1 = r1
  r2 = r2
  k1 = k1
  ka = ka
  u1 = u1
  u2 = u2
  Accounts <- TwoAccounts
  a1 = a1
  a2 = a2
  MaxAttempts = 2
  WorkErrors <- SmallErrors
  MaxEvents = 1
  StabilityWindow = 1
  Admin = Admin
SPECIFICATION ApiSpec
INVARIANTS
  RefusalsAreNotFailures
  CleanHistoryIsStored
SYMMETRY AccountsAlike
CHECK_DEADLOCK FALSE
