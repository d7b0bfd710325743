SPECIFICATION FairSpec
CONSTANTS
  Depth = 2
  Prices = {1, 2, 3}
  Quantities = {1, 2}
  InitialMarkets <- OneMarket
  Faults = {"lose", "repeat", "foreign"}
  MaxChanges = 3
  MaxBatch = 2
  MaxFaults = 1
INVARIANTS
  BookIsMarketAtSequence
  EventsQuoteTheMarket
  EventsInOrder
PROPERTIES
  BestLeavesForAReason
  ChangesWithinDepthAreAnnounced
  CatchesUp
CHECK_DEADLOCK FALSE
