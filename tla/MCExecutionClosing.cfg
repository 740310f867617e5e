SPECIFICATION ExecSpec
CONSTANTS
  Orders = {o1}
  NoOrder = NoOrder
  MaxTickets = 3
  MaxDeals = 2
  MaxDay = 1
  MaxFlaps = 0
  MaxRestarts = 0
  CachedExternal = {}
INVARIANTS
  ClosingDealsReported
CHECK_DEADLOCK FALSE
