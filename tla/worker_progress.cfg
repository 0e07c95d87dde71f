SPECIFICATION FairSpec
CONSTANTS
  w1 = w1  w2 = w2  e1 = e1  e2 = e2  o1 = o1  o2 = o2  NoOne = NoOne
  Workers = {w1, w2}
  Events = {e1, e2}
  Orders = {o1}
  Payment <- PaymentAndRefund
  OrderData <- MCOrderData
  DelayThreshold = 2
  MaxAttempts = 2
  BatchSize = 2
  PromptRelease = TRUE
  FaultSites <- RunSites
  MaxFaults = 1
  MaxExits = 0
  MaxOverruns = 0
  MaxDeliveries = 2
INVARIANTS
  NoEventStranded
  NoPelLeak
PROPERTIES
  EventuallyConcluded
  RefundFollowsPayment
CHECK_DEADLOCK FALSE
