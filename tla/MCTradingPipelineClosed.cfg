SPECIFICATION FairSpec
CONSTANTS
  Closable = {"bookUpdateQueue", "tradeQueue", "strategyEventQueue", "recordingEventQueue",
              "executionQueue"}
  MaxUpdates = 1
  MaxTrades = 1
  MaxReports = 1
  MaxStarts = 2
INVARIANTS
  StoppedMeansQuiet
PROPERTIES
  StopReturnsOnceClosed
CHECK_DEADLOCK FALSE
