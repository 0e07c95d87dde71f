SPECIFICATION Spec
CONSTANTS
  e1 = e1  e2 = e2  f1 = f1  f2 = f2  f3 = f3  q1 = q1  q2 = q2  q3 = q3
  NoBatch = NoBatch  Pending = Pending
  Events = {e1, e2}
  Payment <- MCPayment
  Files = {f1}
  Rows <- MCRows
  Malformed = {}
  Requests = {q1}
  MaxBookings = 1
  MaxFaults = 0
INVARIANTS
  MatchedIsSettled
CHECK_DEADLOCK FALSE
