SPECIFICATION ExecSpec
CONSTANTS
  Orders = {o1}
  NoOrder = NoOrder
  MaxTickets = 2
  MaxDeals = 1
  MaxDay = 2
  MaxFlaps = 0
  MaxRestarts = 0
  CachedExternal = {}
INVARIANTS
  NoDealLeftBehind
CHECK_DEADLOCK FALSE
