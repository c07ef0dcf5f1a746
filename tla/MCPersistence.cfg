CONSTANTS
  u1 = u1
  u2 = u2
  Worker = Worker
  Closer = Closer
  Nobody = Nobody
  Updaters <- MCUpdaters
  MaxRevision = 3
SPECIFICATION PersistFairSpec
INVARIANTS CleanMeansDurable NoStrandedUpdate
PROPERTIES UpdatesReachStore CloseReturns
