SPECIFICATION Spec
CONSTANTS
  w1 = w1  w2 = w2  e1 = e1  e2 = e2  o1 = o1  o2 = o2  NoOne = NoOne
  Workers = {w1, w2}
  Events = {e1, e2}
  Orders = {o1}
  Payment <- OneOrder
  OrderData <- MCOrderData
  DelayThreshold = 2
  MaxAttempts = 2
  BatchSize = 2
  PromptRelease = FALSE
  FaultSites <- Sites
  MaxFaults = 2
  MaxExits = 1
  MaxOverruns = 1
  MaxDeliveries = 2
SYMMETRY Interchangeable
INVARIANTS
  OnePairPerWorker
  TypeOK
  LockExclusion
  AtMostOneBooking
  VerdictHasEvidence
  PaidIsTraceable
PROPERTIES
  OwnerKeepsLock
CONSTRAINT FewTroubles
CHECK_DEADLOCK FALSE
