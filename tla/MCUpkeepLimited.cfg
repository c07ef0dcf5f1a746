CONSTANTS
  Tokens = {t1, t2}
  Stocked = {t1}
  Runs = {r1, r2}
  Workers = 1
  Full = 2
  AuthFails = AuthFails
  LimitFails = LimitFails
  CheckFails = CheckFails
  NoAccount = NoAccount
  NoToken = NoToken
  NoAnswer = NoAnswer
  NoCount = NoCount
  MaxEvents = 3
SPECIFICATION Spec
PROPERTIES
  OnlyIdentifiedIsRemoved
CHECK_DEADLOCK FALSE
