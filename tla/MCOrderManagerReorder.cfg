SPECIFICATION Spec
CONSTANTS
  btc = btc
  eth = eth
  none = none
  Instruments = {btc}
  NoInstrument = none
  Requests <- TwoRequests
  Limits <- MCLimits
  Scale = 2
  Faults = {"reorder"}
  MaxOrders = 1
  MaxFaults = 0
PROPERTIES
  OrderNeverRegresses
CHECK_DEADLOCK FALSE
