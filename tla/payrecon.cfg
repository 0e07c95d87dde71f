SPECIFICATION Spec
CONSTANTS
  e1 = e1  e2 = e2  e3 = e3  e4 = e4  e5 = e5  e6 = e6  o1 = o1  o2 = o2  f1 = f1  q1 = q1
  NoRow = NoRow  NoBatch = NoBatch  Pending = Pending  Delivered = "delivered"
  Events = {e1, e2, e3, e4, e5, e6}
  Orders = {o1, o2}
  External = {e3, e4, e5}
  Watched = {e1, e2, e6}
  Payment <- MCPayment
  OrderData <- MCOrderData
  DelayThreshold = 2
  Files = {f1}
  Rows <- MCRows
  Malformed = {}
  Requests = {q1}
  Limit = 1
  MaxBookings = 2
  MaxLosses = 1
INVARIANTS
  NetBooking
  BalanceFollowsOrders
  BothReconciliationsAgree
PROPERTIES
  ButtonStaysGone
  PublishedIsShown
CHECK_DEADLOCK FALSE
