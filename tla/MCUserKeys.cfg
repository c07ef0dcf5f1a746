CONSTANTS
  Ids = {u1, u2}
  RawKeys = {ka, k1, k2}
  AdminKeys = {ka}
  Limits <- SmallLimits
  Stored <- OneUser
  Calls <- SmallCalls
  Nobody = Nobody
  Writers = {w1}
  Worker = Worker
  Closer = Closer
  MaxCharges = 1
  MaxEvents = 2
  ka = ka
  k1 = k1
  k2 = k2
  u1 = u1
  u2 = u2
SPECIFICATION Spec
INVARIANTS
  CleanMeansStored
  UsageIsWhatWasCharged
PROPERTIES
  ChangesReachTheStore
CHECK_DEADLOCK FALSE
