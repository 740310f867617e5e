SPECIFICATION NodeFairSpec
CONSTANTS
  ExecTask = exec
  Callers = {exec}
  SecondObject = FALSE
  MaxAttempts = 3
  InitialDelay = 1
  MaxDelay = 3
  MaxFlaps = 4
PROPERTIES
  LostLinkNoticed
CHECK_DEADLOCK FALSE
