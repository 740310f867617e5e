SPECIFICATION ConnFairSpec
CONSTANTS
  Callers = {c1, c2}
  MaxAttempts = 3
  InitialDelay = 1
  MaxDelay = 3
  MaxFlaps = 3
INVARIANTS
  ConnTypeOK
  DisconnectedIsClosed
  ConnectedIsFresh
  FailedIsExhausted
  ReconnectBudget
PROPERTIES
  ReconnectReturns
