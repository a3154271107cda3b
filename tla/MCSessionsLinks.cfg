SPECIFICATION SessionsSpec
CONSTANTS
  Nil = Nil
  AuthRequests = {1, 2}
  Tokens = {1, 2, 3}
  Links = {1, 2}
  MaxHash = 3
  MaxOff = 1
INVARIANT NoLockCycle
CHECK_DEADLOCK FALSE
