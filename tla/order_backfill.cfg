SPECIFICATION Spec
CONSTANTS
  w1 = w1  w2 = w2  e1 = e1  e2 = e2  o1 = o1  o2 = o2  NoOne = NoOne
  Workers = {w1}
  Events = {e1}
  Orders = {o1}
  Payment <- OneOrder
  OrderData <- MCOrderData
  DelayThreshold = 2
  MaxAttempts = 2
  BatchSize = 1
  PromptRelease = TRUE
  FaultSites = {}
  MaxFaults = 0
  MaxExits = 0
  MaxOverruns = 0
  MaxDeliveries = 1
INVARIANT
  LateOrderIsBackfilled
CHECK_DEADLOCK FALSE
