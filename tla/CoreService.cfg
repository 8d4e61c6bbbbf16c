CONSTANTS
  NoOrder = NoOrder
  NoTotal = NoTotal
  Unweighed = Unweighed
  Idle = Idle
  Orders = {o1}
  Items = {i1}
  Weights = {1}
  Fees = {0}
  TaxRates = {0}
  Bill <- RejectedBill
  CoreReqs = {c1, c2}
  Consumers = {k1}
  PaymentEvts <- PaidThenRefunded
SPECIFICATION Spec
SYMMETRY Symmetry
VIEW WithoutTrail
INVARIANTS
  TypeOK
  WorkOnlyAfterPaid
  FulfilmentMovesOrder
CHECK_DEADLOCK FALSE
