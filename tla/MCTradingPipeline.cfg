SPECIFICATION FairSpec
CONSTANTS
  Closable = {}
  MaxUpdates = 2
  MaxTrades = 2
  MaxReports = 1
  MaxStarts = 1
INVARIANTS
  RecordedInOrder
  RecordedBeforeApplied
PROPERTIES
  ImplementsOrderFlow
  EventsAreRecorded
CHECK_DEADLOCK FALSE
