SPECIFICATION ExecFairSpec
CONSTANTS
  Orders = {o1}
  NoOrder = NoOrder
  MaxTickets = 3
  MaxDeals = 2
  MaxDay = 2
  MaxFlaps = 1
  MaxRestarts = 1
  CachedExternal = {1}
INVARIANTS
  PollDelivers
PROPERTIES
  ForeignUntouched
  FillsDelivered
CHECK_DEADLOCK FALSE
