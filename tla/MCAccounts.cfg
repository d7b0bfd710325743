SPECIFICATION AccountSpec
CONSTANTS
  Instruments = {btc, eth}
  Watched = btc
  Prices <- MCPrices
  MarketPrices <- MCPrices
  Quantities <- MCQuantities
  MaxTrades = 4
  MaxPublic = 3
  Width = 8
  Scale = 2
INVARIANTS
  PositionIsNetQuantity
  AverageWithinEntryPrices
  CashIsAccountedFor
  NothingOverflowsButThePosition
  VolumesAreTheInstruments
CHECK_DEADLOCK FALSE
