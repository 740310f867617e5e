SPECIFICATION ExecSpec
CONSTANTS
  Orders = {o1, o2}
  NoOrder = NoOrder
  MaxTickets = 3
  MaxDeals = 2
  MaxDay = 2
  MaxFlaps = 0
  MaxRestarts = 1
  CachedExternal = {1}
SYMMETRY OrderSymmetry
INVARIANTS
  ExecTypeOK
  EmittedOnce
  FillsRightOrder
  MapsInverse
  RejectedHasNoExposure
PROPERTIES
  ImplementsLedger
CHECK_DEADLOCK FALSE
