SPECIFICATION MCTradingSpec
CONSTANTS
  Bars <- MCBars
  MinGap = 2
  RiskReward = 2
  MaxBars = 2
  WarmupBars = 2
  WindowBars = 4
  Others <- MCOthers
  MaxEntries = 2
  Prices = {1, 2}
INVARIANTS
  MCTypeOK
  FlagTellsTruth
  StatsAgree
  
  ReportsTrue
PROPERTIES
  StopKept
CHECK_DEADLOCK FALSE
