CONSTANTS
  t1 = t1
  t2 = t2
  t3 = t3
  Submitted <- MCPair
  RunByCaller <- MCNone
  WorkerLimit = 1
  QueueLimit = 1
  MaxCompleted = 1
  Persistent = TRUE
  MaxCrashes = 0
SPECIFICATION Spec
CHECK_DEADLOCK FALSE
PROPERTY EvictedTaskIsInHistory
