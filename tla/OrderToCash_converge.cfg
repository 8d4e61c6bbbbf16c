CONSTANTS
  NoOrder = NoOrder
  NoTotal = NoTotal
  Unweighed = Unweighed
  Idle = Idle
  Orders = {o1}
  NoPayment = NoPayment
  Items = {i1}
  Weights = {1}
  Fees = {0}
  TaxRates = {0}
  Bill <- SumBill
  CoreReqs = {c1}
  Consumers = {k1}
  Payments = {p1}
  Refunds = {f1}
  PayReqs = {r1}
SPECIFICATION Spec
INVARIANT
  RefundIsProjected
CHECK_DEADLOCK FALSE
