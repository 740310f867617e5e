SPECIFICATION DataSpec
CONSTANTS
  s1 = s1
  s2 = s2
  S1 = S1
  Symbols <- MCSymbols
  ConfigSymbols <- MCConfigSymbols
  BarType <- MCBarType
  Upper <- MCUpperCased
  NoSymbol = NoSymbol
  MaxTick = 1
  MaxFlaps = 0
INVARIANTS
  ConfiguredSymbolsHeard
CHECK_DEADLOCK FALSE
