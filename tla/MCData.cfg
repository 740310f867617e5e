SPECIFICATION DataFairSpec
CONSTANTS
  s1 = s1
  s2 = s2
  S1 = S1
  Symbols <- MCSymbols
  ConfigSymbols <- MCConfigSymbols
  BarType <- MCBarType
  Upper <- MCUpper
  NoSymbol = NoSymbol
  MaxTick = 2
  MaxFlaps = 1
INVARIANTS
  DataTypeOK
  EarlySubscriptionsServed
  SuppressedWasPublished
PROPERTIES
  ImplementsFeed
  TicksTakenUp
CHECK_DEADLOCK FALSE
