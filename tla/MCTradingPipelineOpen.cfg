SPECIFICATION FairSpec
CONSTANTS
  Closable = {}
  MaxUpdates = 1
  MaxTrades = 1
  MaxReports = 1
  MaxStarts = 1
PROPERTIES
  StopReturns
CHECK_DEADLOCK FALSE
