SPECIFICATION Spec
CONSTANTS
  btc = btc
  eth = eth
  none = none
  Instruments = {btc}
  NoInstrument = none
  Requests <- TwoRequests
  Limits <- MCLimits
  Scale = 2
  Faults = {"lose", "duplicate", "reorder", "foreign"}
  MaxOrders = 2
  MaxFaults = 1
INVARIANTS
  FilledNeverAhead
  ReportsFindTheirOrder
CHECK_DEADLOCK FALSE
