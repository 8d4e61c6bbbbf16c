CONSTANTS
  NoOrder = NoOrder
  NoTotal = NoTotal
  Unweighed = Unweighed
  Idle = Idle
  Orders = {o1}
  NoPayment = NoPayment
  Items = {i1}
  Weights = {2}
  Fees = {0}
  TaxRates = {0, 10, 20}
  Bill <- DiscountedBill
  CoreReqs = {c1}
  Consumers = {k1, k2}
  Payments = {p1}
  Refunds = {f1}
  PayReqs = {r1}
SPECIFICATION Spec
SYMMETRY Symmetry
INVARIANTS
  TypeOK
  WorkOnlyIfCharged
  PaidSticks
  TrailIsConnected
  RefundedIsReal
  LateCancelIsRefund
  AmountWasBilled
  ChargeIsProjected
PROPERTIES
  ImplementsLedger
CHECK_DEADLOCK FALSE
