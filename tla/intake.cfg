SPECIFICATION FairSpec
CONSTANTS
  e1 = e1  e2 = e2  o1 = o1  NoRow = NoRow
  Events = {e1}
  Orders = {o1}
  OrderOf <- MCOrderOf
  MaxAttempts = 2
  FaultSites <- Sites
  MaxFaults = 1
  MaxLosses = 2
  MaxExpiries = 1
  MaxCrashes = 1
  MaxStops = 1
INVARIANTS
  TypeOK
  PublishedOncePerKey
  PublishedIsStored
  DeliveredIsCarried
PROPERTIES
  ImplementsDelivery
  EventuallyPublished
CHECK_DEADLOCK FALSE
