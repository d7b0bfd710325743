SPECIFICATION Spec
CONSTANTS
  Depth = 2
  Prices = {1, 2, 3}
  Quantities = {1, 2}
  InitialMarkets <- OneMarket
  Faults = {}
  MaxChanges = 3
  MaxBatch = 2
  MaxFaults = 0
PROPERTIES
  BookChangesAreAnnounced
CHECK_DEADLOCK FALSE
