SPECIFICATION NodeFairSpec
CONSTANTS
  ExecTask = exec
  Callers = {exec}
  SecondObject = TRUE
  MaxAttempts = 3
  InitialDelay = 1
  MaxDelay = 3
  MaxFlaps = 4
INVARIANTS
  NodeTypeOK
  FailureIsEarned
  StoppedIsFailed
PROPERTIES
  LiveSessionKept
  ImplementsOutage
  LoopRecovers
CHECK_DEADLOCK FALSE
