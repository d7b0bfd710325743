SPECIFICATION StandaloneSpec
CONSTANTS
  Capacity = 2
  MaxValues = 1
  Threads = {t1}
  Cpus = {0}
  LastType = 0
  MaxCount = 1
  CountRange = 256
  MaxOpen = 2
  MaxCalls = 1
  Holders = {m1}
  AsyncQueueSize = 2
  MaxLines = 1
  WordRange = 64
  Second = 4
  Calibration = 2
  RateTicks = 5
  RateNanos = 2
  Origins = {0}
  Callers = {c1}
  MaxTime = 1
  Results = {"Success", "InvalidField"}
  MaxSize = 2
  MaxMessages = 3
  Files <- MCFiles
  Market <- MCMarket
  Other = 43
  Scale = 2
  ColumnRange = 3
INVARIANTS
  ConfiguredLimitsHold
CHECK_DEADLOCK FALSE
