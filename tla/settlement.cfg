SPECIFICATION Spec
CONSTANTS
  e1 = e1  e2 = e2  f1 = f1  f2 = f2  f3 = f3  q1 = q1  q2 = q2  q3 = q3
  NoBatch = NoBatch  Pending = Pending
  Events = {e1, e2}
  Payment <- MCPayment
  Files = {f1, f2, f3}
  Rows <- MCRows
  Malformed = {f3}
  Requests = {q1, q2, q3}
  MaxBookings = 2
  MaxFaults = 1
SYMMETRY Interchangeable
INVARIANTS
  TypeOK
  ProcessedOnce
  CompletedIsWhole
  SettledIsConfirmed
PROPERTIES
  FirstSettlementWins
CHECK_DEADLOCK FALSE
