SPECIFICATION Spec
CONSTANTS
  w1 = w1  w2 = w2  e1 = e1  e2 = e2  o1 = o1  o2 = o2  NoOne = NoOne
  Workers = {w1, w2}
  Events = {e1, e2}
  Orders = {o1, o2}
  Payment <- TwoOrders
  OrderData <- MCOrderData
  DelayThreshold = 2
  MaxAttempts = 1
  BatchSize = 2
  PromptRelease = FALSE
  FaultSites = {"find", "resolve", "attach", "mismatch", "mark", "ack"}
  MaxFaults = 1
  MaxExits = 0
  MaxOverruns = 0
  MaxDeliveries = 3
PROPERTY ImplementsSerial
CHECK_DEADLOCK FALSE
