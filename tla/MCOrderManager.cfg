SPECIFICATION FairSpec
CONSTANTS
  btc = btc
  eth = eth
  none = none
  Instruments = {btc, eth}
  NoInstrument = none
  Requests <- MCRequests
  Limits <- MCLimits
  Scale = 2
  Faults = {"foreign"}
  MaxOrders = 2
  MaxFaults = 1
INVARIANTS
  TypeOK
  PositionMatchesFills
  PositionMatchesVenueWhenQuiet
  ReportsInOrder
  ExposureBounded
PROPERTIES
  CancelledOrderEnds
  OrderNeverRegresses
  PositionMovesByOpenQuantity
CHECK_DEADLOCK FALSE
