SPECIFICATION FairSpec
CONSTANTS
  p1 = p1
  p2 = p2
  c1 = c1
  c2 = c2
  x1 = x1
  x2 = x2
  Producers = {p1, p2}
  Consumers = {c1, c2}
  Closers = {x1, x2}
  MaxPushes = 2
INVARIANTS
  NobodyWaitsInVain
PROPERTIES
  ImplementsFairContract
  ConsumersEnd
CHECK_DEADLOCK FALSE
