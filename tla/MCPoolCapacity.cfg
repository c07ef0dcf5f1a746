CONSTANTS
  MaxTasks = 3
  MaxTime = 2
  Accounts = {k1, k2}
  AccountStates <- MCAccountStates
  Log1p <- MCLog1p
  Bursts = {1, 4}
  Limit = 2
  EnoughSamples = 2
  IdleFloor = 1
  MinUsable = 1
  MaxUsable = 2
  MaxInflight = 2
  TaskTimeout = 2
  PollTimeout = 4
SPECIFICATION CapacitySpec
INVARIANT ShortageIsCurable
PROPERTY WaitingNeverLowersTarget
CHECK_DEADLOCK FALSE
SYMMETRY MCSymmetry
