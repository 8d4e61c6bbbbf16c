CONSTANTS
  NoOrder = NoOrder
  NoTotal = NoTotal
  NoPayment = NoPayment
  NoRow = NoRow
  Refused = Refused
  Orders = {o1}
  Payments = {p1, p2}
  Refunds = {f1}
  PayReqs = {r1, r2}
  Totals = {0, 1}
  Keys = {k1, j1}
  RefundKeys = {j1}
SPECIFICATION Spec
INVARIANT
  RefundedOnce
CHECK_DEADLOCK FALSE
