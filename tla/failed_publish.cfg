SPECIFICATION Spec
CONSTANTS
  e1 = e1  e2 = e2  o1 = o1  NoRow = NoRow
  Events = {e1}
  Orders = {o1}
  OrderOf <- MCOrderOf
  MaxAttempts = 2
  FaultSites = {"publish"}
  MaxFaults = 1
  MaxLosses = 0
  MaxExpiries = 0
  MaxCrashes = 0
  MaxStops = 0
INVARIANTS
  FailedPublishIsRedelivered
CHECK_DEADLOCK FALSE
