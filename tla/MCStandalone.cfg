SPECIFICATION StandaloneFairSpec
CONSTANTS
  Capacity = 4
  MaxValues = 10
  Threads = {t1, t2, t3}
  Cpus = {0, 1}
  LastType = 1
  MaxCount = 2
  CountRange = 256
  MaxOpen = 4
  MaxCalls = 1
  Holders = {m1, m2}
  AsyncQueueSize = 2
  MaxLines = 6
  WordRange = 64
  Second = 4
  Calibration = 2
  RateTicks = 5
  RateNanos = 2
  Origins = {0, 93}
  Callers = {c1, c2}
  MaxTime = 8
  Results = {"Success", "InvalidField"}
  MaxSize = 2
  MaxMessages = 3
  Files <- MCFiles
  Market <- MCMarket
  Other = 43
  Scale = 2
  ColumnRange = 3
INVARIANTS
  SlotsAreOwned
  CountsAddUp
  GuardsJudgeTheirScope
  LogIsKept
  TimerIsAccurate
  MessagesArriveOnce
  OnlySoundOrdersLeave
  TextIsKept
  BytesAreKept
PROPERTIES
  ImplementsQueue
CHECK_DEADLOCK FALSE
