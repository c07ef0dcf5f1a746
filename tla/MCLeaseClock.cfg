CONSTANTS
  t1 = t1
  t2 = t2
  w1 = w1
  w2 = w2
  NoToken = NoToken
  Accounts <- OneAccount
  Workers <- MCWorkers
  Ceilings <- OneCeiling
  Modes <- Dynamic
  ClockMoves = TRUE
SPECIFICATION Spec
INVARIANTS NoLostWakeup
