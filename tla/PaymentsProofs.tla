-------------------------- MODULE PaymentsProofs ---------------------------
(***************************************************************************)
(* What every step of the Payment service preserves, whatever Core answers *)
(* it.  PaymentServiceProofs and OrderToCashProofs, which know what Core   *)
(* may answer, turn these lemmas into theorems of their specifications.    *)
(***************************************************************************)
EXTENDS Payments, TLAPS

\* A row that was not inserted has no order and no events; one that was has an order.
RowsAreWhole ==
  \A p \in Payments :
    IF pStatus[p] = "NONE"
      THEN pOrder[p] = NoOrder /\ \A t \in EventTypes : emitted[t][p] = 0
      ELSE pOrder[p] \in Orders

\* A handler remembers rows that exist, and a refund a payment that was charged.
RequestsAreReal ==
  \A q \in payReqs :
    /\ q.kind = "callback" => pStatus[q.payment] # "NONE"
    /\ q.kind = "refund"   => pStatus[q.payment] # "NONE" /\ Charges(q.payment) > 0
    /\ q.kind = "approve"  => rStatus[q.refund] # "NONE"

RefundsAreReal ==
  \A f \in Refunds : rStatus[f] # "NONE" =>
    /\ rPayment[f] \in Payments
    /\ pStatus[rPayment[f]] # "NONE"
    /\ Charges(rPayment[f]) > 0

\* What the partial unique index guarantees.
OnePaidRow ==
  \A p1, p2 \in Payments :
    p1 # p2 /\ pStatus[p1] = "PAID" /\ pStatus[p2] = "PAID" => pOrder[p1] # pOrder[p2]

\* A charged payment is PAID until a refund or a failed callback overwrites it.
ChargeLeavesMark ==
  \A p \in Payments : Charges(p) > 0 =>
    pStatus[p] = "PAID" \/ PaidBack(p) > 0 \/ emitted["payment.failed"][p] > 0

PayInv ==
  /\ PayTypes
  /\ RowsAreWhole
  /\ RequestsAreReal
  /\ RefundsAreReal
  /\ RefundBacked
  /\ RefundOnlyIfCharged
  /\ OnePaidRow
  /\ ChargeLeavesMark

\* What Payment relies on in Core's answers.
GoodView(view) == \A o \in Orders : view[o].total \in Nat \cup {NoTotal}

-----------------------------------------------------------------------------
\* The initial rows satisfy the invariant.
LEMMA PayInitInv == PayInit => PayInv
  BY NoneAssumption, SMTT(30)
  DEF PayInit, PayInv, PayTypes, RowsAreWhole, RequestsAreReal, RefundsAreReal, RefundBacked,
      RefundOnlyIfCharged, OnePaidRow, ChargeLeavesMark, Charges, PaidBack, EventTypes,
      PaymentRowStatuses, RefundStatuses

-----------------------------------------------------------------------------
(***************************************************************************)
(* Handlers that only read: they change payReqs alone.                     *)
(***************************************************************************)

\* What a handler may remember of the rows it read.
RealRequest(q) ==
  /\ q \in PayRequest
  /\ q.kind = "callback" => pStatus[q.payment] # "NONE"
  /\ q.kind = "refund"   => pStatus[q.payment] # "NONE" /\ Charges(q.payment) > 0
  /\ q.kind = "approve"  => rStatus[q.refund] # "NONE"

\* A step that writes no row, and remembers only what the rows say, keeps the invariant.
LEMMA OnlyRequests ==
  ASSUME PayInv,
         UNCHANGED paymentVars,
         \A q \in payReqs' : q \in payReqs \/ RealRequest(q)
  PROVE  PayInv'
<1>1. PayTypes' /\ RequestsAreReal'
  BY DEF PayInv, PayTypes, RequestsAreReal, RealRequest, paymentVars, Charges
<1>2. RowsAreWhole' /\ RefundsAreReal' /\ RefundBacked'
  BY DEF PayInv, RowsAreWhole, RefundsAreReal, RefundBacked, paymentVars, Charges
<1>3. RefundOnlyIfCharged' /\ OnePaidRow' /\ ChargeLeavesMark'
  BY DEF PayInv, RefundOnlyIfCharged, OnePaidRow, ChargeLeavesMark, paymentVars, Charges, PaidBack
<1>4. QED
  BY <1>1, <1>2, <1>3 DEF PayInv

\* Asking Core about the order of a payment or of a refund.
LEMMA AskCoreInv ==
  ASSUME PayInv, NEW view, GoodView(view), AskCore(view)
  PROVE  PayInv'
<1>1. CASE \E r \in PayReqs, o \in Orders, m \in {"CASH", "QRIS"} : FetchForPayment(r, o, m, view)
  <2>1. PICK r \in PayReqs, o \in Orders, m \in {"CASH", "QRIS"} : FetchForPayment(r, o, m, view)
    BY <1>1
  <2>2. view[o].total \in Nat \ {0}
    BY <2>1, NoneAssumption DEF FetchForPayment, GoodView
  <2>3. \A q \in payReqs' : q \in payReqs \/ RealRequest(q)
    BY <2>1, <2>2 DEF FetchForPayment, ServePay, RealRequest, PayRequest
  <2>4. QED
    BY <2>1, <2>3, OnlyRequests DEF FetchForPayment
<1>2. CASE \E q \in payReqs : FetchForRefund(q, view)
  <2>1. PICK q \in payReqs : FetchForRefund(q, view)
    BY <1>2
  <2>2. RealRequest([q EXCEPT !.stage = "check"])
    BY <2>1 DEF FetchForRefund, RealRequest, PayInv, PayTypes, RequestsAreReal, PayRequest
  <2>3. QED
    BY <2>1, <2>2, OnlyRequests DEF FetchForRefund, Advance
<1>3. QED
  BY <1>1, <1>2 DEF AskCore

\* The reads that start a handler on Payment's own rows.
LEMMA StartPayRequestInv ==
  ASSUME PayInv, NEW r \in PayReqs, StartPayRequest(r)
  PROVE  PayInv'
<1>1. ASSUME NEW p \in Payments, NEW outcome \in {"PAID", "FAILED"}, ReadForCallback(r, p, outcome)
      PROVE  PayInv'
  <2>1. \A q \in payReqs' : q \in payReqs \/ RealRequest(q)
    BY <1>1 DEF ReadForCallback, ServePay, RealRequest, PayRequest
  <2>2. QED
    BY <1>1, <2>1, OnlyRequests DEF ReadForCallback
<1>2. ASSUME NEW p \in Payments, ReadForRefund(r, p)
      PROVE  PayInv'
  <2>1. Charges(p) > 0
    BY <1>2 DEF ReadForRefund, PayInv, RefundOnlyIfCharged
  <2>2. \A q \in payReqs' : q \in payReqs \/ RealRequest(q)
    BY <1>2, <2>1 DEF ReadForRefund, ServePay, RealRequest, PayRequest
  <2>3. QED
    BY <1>2, <2>2, OnlyRequests DEF ReadForRefund
<1>3. ASSUME NEW f \in Refunds, ReadForApproval(r, f)
      PROVE  PayInv'
  <2>1. \A q \in payReqs' : q \in payReqs \/ RealRequest(q)
    BY <1>3 DEF ReadForApproval, ServePay, RealRequest, PayRequest
  <2>2. QED
    BY <1>3, <2>1, OnlyRequests DEF ReadForApproval
<1>4. QED
  BY <1>1, <1>2, <1>3 DEF StartPayRequest

\* CheckForRefund passes a request on; an aborted one is forgotten.
LEMMA CheckAndAbortInv ==
  ASSUME PayInv, NEW q \in payReqs, CheckForRefund(q) \/ AbortPayRequest(q)
  PROVE  PayInv'
<1>1. CASE CheckForRefund(q)
  <2>1. RealRequest([q EXCEPT !.stage = "insert"])
    BY <1>1 DEF CheckForRefund, RealRequest, PayInv, PayTypes, RequestsAreReal, PayRequest
  <2>2. QED
    BY <1>1, <2>1, OnlyRequests DEF CheckForRefund, Advance
<1>2. CASE AbortPayRequest(q)
  BY <1>2, OnlyRequests DEF AbortPayRequest, FinishPay
<1>3. QED
  BY <1>1, <1>2

-----------------------------------------------------------------------------
(***************************************************************************)
(* Handlers that write.                                                    *)
(***************************************************************************)

\* CreatePayment's transaction.  The row is new, so it has no events and no
\* request or refund knows it; if it is PAID, the unique index let it in.
LEMMA CommitPaymentInv ==
  ASSUME PayInv, NEW q \in payReqs, NEW p \in Payments, CommitPayment(q, p)
  PROVE  PayInv'
<1>1. CASE q.method = "CASH" /\ PaidByOther(q.order, p)
  BY <1>1, OnlyRequests DEF CommitPayment, FinishPay
<1>2. CASE ~(q.method = "CASH" /\ PaidByOther(q.order, p))
  <2> USE <1>2 DEF CommitPayment, FinishPay, refundVars
  <2>1. /\ q.order \in Orders /\ q.amount \in Nat
        /\ pStatus[p] = "NONE" /\ pOrder[p] = NoOrder
        /\ \A t \in EventTypes : emitted[t][p] = 0
    BY DEF PayInv, PayTypes, PayRequest, RowsAreWhole
  <2>2. /\ pStatus' \in [Payments -> PaymentRowStatuses] /\ pStatus'[p] \in {"PAID", "PENDING"}
        /\ \A x \in Payments \ {p} : pStatus'[x] = pStatus[x]
    BY DEF PayInv, PayTypes, PaymentRowStatuses
  <2>3. /\ emitted' \in [EventTypes -> [Payments -> Nat]]
        /\ \A t \in EventTypes, x \in Payments \ {p} : emitted'[t][x] = emitted[t][x]
        /\ emitted'["payment.paid"][p] = IF pStatus'[p] = "PAID" THEN 1 ELSE 0
        /\ emitted'["payment.refunded"][p] = 0
    BY <2>1, <2>2 DEF PayInv, PayTypes, Emit, EventTypes
  <2>4. /\ pOrder' \in [Payments -> Orders \cup {NoOrder}] /\ pOrder'[p] = q.order
        /\ \A x \in Payments \ {p} : pOrder'[x] = pOrder[x]
    BY <2>1 DEF PayInv, PayTypes
  <2>5. PayTypes'
    BY <2>1, <2>2, <2>3, <2>4 DEF PayInv, PayTypes
  <2>6. RowsAreWhole' /\ RefundBacked'
    BY <2>1, <2>2, <2>3, <2>4 DEF PayInv, RowsAreWhole, RefundBacked
  <2>7. RequestsAreReal'
    BY <2>1, <2>2, <2>3 DEF PayInv, PayTypes, PayRequest, RequestsAreReal, Charges, EventTypes
  <2>8. RefundsAreReal'
    BY <2>1, <2>2, <2>3 DEF PayInv, RefundsAreReal, Charges, EventTypes
  <2>9. RefundOnlyIfCharged' /\ ChargeLeavesMark'
    BY <2>2, <2>3 DEF PayInv, RefundOnlyIfCharged, ChargeLeavesMark, Charges, PaidBack, EventTypes
  <2>10. pStatus'[p] = "PAID" => \A x \in Payments \ {p} : pStatus[x] = "PAID" => pOrder[x] # q.order
    BY DEF PaidByOther, PayInv, PayTypes
  <2>11. OnePaidRow'
    BY <2>2, <2>4, <2>10 DEF PayInv, OnePaidRow
  <2>12. QED
    BY <2>5, <2>6, <2>7, <2>8, <2>9, <2>11 DEF PayInv
<1>3. QED
  BY <1>1, <1>2

\* The gateway's callback overwrites the status of a row that exists.  The row
\* may be PAID, FAILED or REFUNDED by then: the events say what it was.
LEMMA CommitCallbackInv ==
  ASSUME PayInv, NEW q \in payReqs, CommitCallback(q)
  PROVE  PayInv'
<1>1. CASE q.outcome = "PAID" /\ PaidByOther(pOrder[q.payment], q.payment)
  BY <1>1, OnlyRequests DEF CommitCallback, FinishPay
<1>2. CASE ~(q.outcome = "PAID" /\ PaidByOther(pOrder[q.payment], q.payment))
  <2> DEFINE p == q.payment
  <2> USE <1>2 DEF CommitCallback, FinishPay, refundVars
  <2>1. p \in Payments /\ q.outcome \in {"PAID", "FAILED"} /\ pStatus[p] # "NONE"
    BY DEF PayInv, PayTypes, PayRequest, RequestsAreReal
  <2>2. /\ pStatus' \in [Payments -> PaymentRowStatuses] /\ pStatus'[p] = q.outcome
        /\ \A x \in Payments \ {p} : pStatus'[x] = pStatus[x]
    BY <2>1 DEF PayInv, PayTypes, PaymentRowStatuses
  <2>3. /\ emitted' \in [EventTypes -> [Payments -> Nat]]
        /\ \A t \in EventTypes, x \in Payments : emitted'[t][x] >= emitted[t][x]
        /\ \A t \in EventTypes, x \in Payments \ {p} : emitted'[t][x] = emitted[t][x]
        /\ q.outcome = "PAID" => emitted'["payment.paid"][p] > 0
        /\ q.outcome = "FAILED" => /\ emitted'["payment.failed"][p] > 0
                                   /\ emitted'["payment.paid"][p] = emitted["payment.paid"][p]
        /\ emitted'["payment.refunded"][p] = emitted["payment.refunded"][p]
    BY <2>1 DEF PayInv, PayTypes, Emit, EventTypes
  <2>4. PayTypes'
    BY <2>2, <2>3 DEF PayInv, PayTypes
  <2>5. RowsAreWhole' /\ RefundBacked'
    BY <2>1, <2>2, <2>3 DEF PayInv, RowsAreWhole, RefundBacked
  <2>6. RequestsAreReal' /\ RefundsAreReal'
    BY <2>1, <2>2, <2>3
    DEF PayInv, PayTypes, PayRequest, RequestsAreReal, RefundsAreReal, Charges, EventTypes
  <2>7. RefundOnlyIfCharged' /\ ChargeLeavesMark'
    BY <2>1, <2>2, <2>3
    DEF PayInv, PayTypes, RefundOnlyIfCharged, ChargeLeavesMark, Charges, PaidBack, EventTypes
  <2>8. pStatus'[p] = "PAID" => \A x \in Payments \ {p} : pStatus[x] = "PAID" => pOrder[x] # pOrder[p]
    BY <2>1, <2>2 DEF PaidByOther
  <2>9. OnePaidRow'
    BY <2>1, <2>2, <2>8 DEF PayInv, OnePaidRow
  <2>10. QED
    BY <2>4, <2>5, <2>6, <2>7, <2>9 DEF PayInv
<1>3. QED
  BY <1>1, <1>2

\* CreateRefund's INSERT: the refund is new, its payment was charged when it was read.
LEMMA InsertRefundInv ==
  ASSUME PayInv, NEW q \in payReqs, NEW f \in Refunds, InsertRefund(q, f)
  PROVE  PayInv'
<1> USE DEF InsertRefund, FinishPay
<1>1. q.payment \in Payments /\ pStatus[q.payment] # "NONE" /\ Charges(q.payment) > 0
  BY DEF PayInv, PayTypes, PayRequest, RequestsAreReal
<1>2. /\ rStatus' \in [Refunds -> RefundStatuses] /\ rStatus'[f] = "REQUESTED"
      /\ rPayment' \in [Refunds -> Payments \cup {NoPayment}] /\ rPayment'[f] = q.payment
      /\ \A g \in Refunds \ {f} : rStatus'[g] = rStatus[g] /\ rPayment'[g] = rPayment[g]
  BY <1>1 DEF PayInv, PayTypes, RefundStatuses
<1>3. PayTypes' /\ RowsAreWhole'
  BY <1>2 DEF PayInv, PayTypes, RowsAreWhole
<1>4. RequestsAreReal' /\ RefundsAreReal'
  BY <1>1, <1>2 DEF PayInv, PayTypes, PayRequest, RequestsAreReal, RefundsAreReal, Charges
<1>5. RefundBacked'
  BY <1>2 DEF PayInv, RefundBacked
<1>6. RefundOnlyIfCharged' /\ OnePaidRow' /\ ChargeLeavesMark'
  BY DEF PayInv, RefundOnlyIfCharged, OnePaidRow, ChargeLeavesMark, Charges, PaidBack
<1>7. QED
  BY <1>3, <1>4, <1>5, <1>6 DEF PayInv

\* ApproveRefund's writes, whatever the refund and the payment are by now.
LEMMA CommitApprovalInv ==
  ASSUME PayInv, NEW q \in payReqs, CommitApproval(q)
  PROVE  PayInv'
<1> DEFINE f == q.refund
           p == rPayment[f]
<1> USE DEF CommitApproval, FinishPay
<1>1. f \in Refunds /\ rStatus[f] # "NONE" /\ p \in Payments /\ pStatus[p] # "NONE" /\ Charges(p) > 0
  BY DEF PayInv, PayTypes, PayRequest, RequestsAreReal, RefundsAreReal
<1>2. /\ pStatus' \in [Payments -> PaymentRowStatuses] /\ pStatus'[p] = "REFUNDED"
      /\ \A x \in Payments \ {p} : pStatus'[x] = pStatus[x]
  BY <1>1 DEF PayInv, PayTypes, PaymentRowStatuses
<1>3. /\ rStatus' \in [Refunds -> RefundStatuses] /\ rStatus'[f] = "COMPLETED"
      /\ \A g \in Refunds \ {f} : rStatus'[g] = rStatus[g]
  BY <1>1 DEF PayInv, PayTypes, RefundStatuses
<1>4. /\ emitted' \in [EventTypes -> [Payments -> Nat]]
      /\ \A t \in EventTypes \ {"payment.refunded"} : emitted'[t] = emitted[t]
      /\ \A x \in Payments \ {p} : emitted'["payment.refunded"][x] = emitted["payment.refunded"][x]
      /\ emitted'["payment.refunded"][p] > 0
  BY <1>1 DEF PayInv, PayTypes, Emit, EventTypes
<1>5. PayTypes'
  BY <1>2, <1>3, <1>4 DEF PayInv, PayTypes
<1>6. RowsAreWhole'
  BY <1>1, <1>2, <1>4 DEF PayInv, RowsAreWhole
<1>7. RequestsAreReal' /\ RefundsAreReal'
  BY <1>1, <1>2, <1>3, <1>4
  DEF PayInv, PayTypes, PayRequest, RequestsAreReal, RefundsAreReal, Charges, EventTypes
<1>8. RefundBacked'
  BY <1>1, <1>2, <1>3 DEF PayInv, RefundBacked
<1>9. RefundOnlyIfCharged' /\ ChargeLeavesMark'
  BY <1>1, <1>2, <1>4 DEF PayInv, RefundOnlyIfCharged, ChargeLeavesMark, Charges, PaidBack, EventTypes
<1>10. OnePaidRow'
  BY <1>1, <1>2 DEF PayInv, OnePaidRow
<1>11. QED
  BY <1>5, <1>6, <1>7, <1>8, <1>9, <1>10 DEF PayInv

\* RejectRefund writes only a refund that is REQUESTED, so no COMPLETED one is lost.
LEMMA RejectRefundInv ==
  ASSUME PayInv, NEW f \in Refunds, RejectRefund(f)
  PROVE  PayInv'
<1> USE DEF RejectRefund
<1>1. /\ rStatus' \in [Refunds -> RefundStatuses] /\ rStatus'[f] = "REJECTED"
      /\ \A g \in Refunds \ {f} : rStatus'[g] = rStatus[g]
  BY DEF PayInv, PayTypes, RefundStatuses
<1>2. PayTypes' /\ RowsAreWhole'
  BY <1>1 DEF PayInv, PayTypes, RowsAreWhole
<1>3. RequestsAreReal' /\ RefundsAreReal'
  BY <1>1 DEF PayInv, PayTypes, PayRequest, RequestsAreReal, RefundsAreReal, Charges
<1>4. RefundBacked'
  BY <1>1 DEF PayInv, RefundBacked
<1>5. RefundOnlyIfCharged' /\ OnePaidRow' /\ ChargeLeavesMark'
  BY DEF PayInv, RefundOnlyIfCharged, OnePaidRow, ChargeLeavesMark, Charges, PaidBack
<1>6. QED
  BY <1>2, <1>3, <1>4, <1>5 DEF PayInv

-----------------------------------------------------------------------------
\* Every step of the Payment service keeps the invariant.
LEMMA PayStepInv ==
  ASSUME PayInv, PayLocal
  PROVE  PayInv'
<1>1. CASE \E r \in PayReqs : StartPayRequest(r)
  BY <1>1, StartPayRequestInv
<1>2. ASSUME NEW q \in payReqs, StepPayRequest(q)
      PROVE  PayInv'
  BY <1>2, CommitPaymentInv, CommitCallbackInv, CheckAndAbortInv, InsertRefundInv, CommitApprovalInv
  DEF StepPayRequest
<1>3. CASE \E f \in Refunds : RejectRefund(f)
  BY <1>3, RejectRefundInv
<1>4. QED
  BY <1>1, <1>2, <1>3 DEF PayLocal

\* A step of Core alone keeps Payment's invariant.
LEMMA PayStutterInv == PayInv /\ UNCHANGED payVars => PayInv'
  BY OnlyRequests DEF payVars, paymentVars

\* The invariant leaves no way to charge two payments of an order and keep both.
LEMMA DoubleChargeFollows == PayInv => DoubleChargeNeedsReversal
  BY NoneAssumption
  DEF PayInv, RowsAreWhole, OnePaidRow, ChargeLeavesMark, DoubleChargeNeedsReversal, Charges, PaidBack,
      EventTypes

-----------------------------------------------------------------------------
(***************************************************************************)
(* The effects of a step that Core's side relies on: the ledger of events  *)
(* only grows, and an amount comes from what Core answered.                *)
(***************************************************************************)
LedgerGrows ==
  \A p \in Payments :
    /\ \A t \in EventTypes : emitted'[t][p] \in Nat /\ emitted'[t][p] >= emitted[t][p]
    /\ pOrder'[p] = pOrder[p] \/ pStatus[p] = "NONE"

AmountsComeFrom(view) ==
  /\ \A q \in payReqs' : q.kind = "pay" =>
       q \in payReqs \/ (q.amount = view[q.order].total /\ q.amount # NoTotal)
  /\ \A p \in Payments : pStatus'[p] # "NONE" =>
       \/ pStatus[p] # "NONE" /\ pOrder'[p] = pOrder[p] /\ pAmount'[p] = pAmount[p]
       \/ \E q \in payReqs : q.kind = "pay" /\ pOrder'[p] = q.order /\ pAmount'[p] = q.amount

\* A step that changes only the requests under way writes nothing to the ledger.
LEMMA OnlyRequestsEffects ==
  ASSUME PayInv, UNCHANGED paymentVars
  PROVE  LedgerGrows /\ \A p \in Payments : pStatus'[p] = pStatus[p] /\ pOrder'[p] = pOrder[p] /\ pAmount'[p] = pAmount[p]
  BY DEF PayInv, PayTypes, LedgerGrows, paymentVars

\* Writing to the outbox never takes a row away.
LEMMA EmitGrows ==
  ASSUME PayInv, NEW types, NEW p, Emit(types, p)
  PROVE  \A t \in EventTypes, x \in Payments : emitted'[t][x] \in Nat /\ emitted'[t][x] >= emitted[t][x]
  BY DEF PayInv, PayTypes, Emit

\* Asking Core writes nothing to the ledger, and keeps the amounts it answered.
LEMMA AskCoreEffects ==
  ASSUME PayInv, NEW view, AskCore(view)
  PROVE  LedgerGrows /\ AmountsComeFrom(view)
<1>1. UNCHANGED paymentVars
  BY DEF AskCore, FetchForPayment, FetchForRefund
<1>2. \A q \in payReqs' : q.kind = "pay" =>
        q \in payReqs \/ (q.amount = view[q.order].total /\ q.amount # NoTotal)
  <2>1. ASSUME NEW r \in PayReqs, NEW o \in Orders, NEW m \in {"CASH", "QRIS"}, FetchForPayment(r, o, m, view),
               NEW q \in payReqs', q \notin payReqs
        PROVE  q.amount = view[q.order].total /\ q.amount # NoTotal
    BY <2>1 DEF FetchForPayment, ServePay
  <2>2. ASSUME NEW x \in payReqs, FetchForRefund(x, view), NEW q \in payReqs', q \notin payReqs
        PROVE  q.kind # "pay"
    <3>1. [x EXCEPT !.stage = "check"].kind = "refund"
      BY <2>2 DEF FetchForRefund, PayInv, PayTypes, PayRequest
    <3>2. QED
      BY <2>2, <3>1 DEF FetchForRefund, Advance
  <2>3. QED
    BY <2>1, <2>2 DEF AskCore
<1>3. QED
  BY <1>1, <1>2, OnlyRequestsEffects DEF AmountsComeFrom

\* What a local step of Payment may do to the ledger.
LEMMA PayLocalEffects ==
  ASSUME PayInv, NEW view, PayLocal
  PROVE  LedgerGrows /\ AmountsComeFrom(view)
<1>1. CASE \E r \in PayReqs : StartPayRequest(r)
  <2>1. UNCHANGED paymentVars /\ \A q \in payReqs' : q.kind = "pay" => q \in payReqs
    BY <1>1 DEF StartPayRequest, ReadForCallback, ReadForRefund, ReadForApproval, ServePay
  <2>2. QED
    BY <2>1, OnlyRequestsEffects DEF AmountsComeFrom
<1>2. ASSUME NEW q \in payReqs, CheckForRefund(q) \/ AbortPayRequest(q)
      PROVE  LedgerGrows /\ AmountsComeFrom(view)
  <2>1. UNCHANGED paymentVars
    BY <1>2 DEF CheckForRefund, AbortPayRequest
  <2>2. CheckForRefund(q) => [q EXCEPT !.stage = "insert"].kind = "refund"
    BY DEF CheckForRefund, PayInv, PayTypes, PayRequest
  <2>3. \A x \in payReqs' : x.kind = "pay" => x \in payReqs
    BY <1>2, <2>2 DEF CheckForRefund, AbortPayRequest, Advance, FinishPay
  <2>4. QED
    BY <2>1, <2>3, OnlyRequestsEffects DEF AmountsComeFrom
<1>3. ASSUME NEW q \in payReqs, NEW p \in Payments, CommitPayment(q, p)
      PROVE  LedgerGrows /\ AmountsComeFrom(view)
  <2>1. CASE q.method = "CASH" /\ PaidByOther(q.order, p)
    BY <1>3, <2>1, OnlyRequestsEffects DEF CommitPayment, FinishPay, AmountsComeFrom
  <2>2. CASE ~(q.method = "CASH" /\ PaidByOther(q.order, p))
    <3>1. LedgerGrows
      BY <1>3, <2>2, EmitGrows DEF CommitPayment, LedgerGrows, PayInv, PayTypes
    <3>2. AmountsComeFrom(view)
      BY <1>3, <2>2 DEF CommitPayment, FinishPay, AmountsComeFrom, PayInv, PayTypes
    <3>3. QED
      BY <3>1, <3>2
  <2>3. QED
    BY <2>1, <2>2
<1>4. ASSUME NEW q \in payReqs, CommitCallback(q)
      PROVE  LedgerGrows /\ AmountsComeFrom(view)
  <2>1. CASE q.outcome = "PAID" /\ PaidByOther(pOrder[q.payment], q.payment)
    BY <1>4, <2>1, OnlyRequestsEffects DEF CommitCallback, FinishPay, AmountsComeFrom
  <2>2. CASE ~(q.outcome = "PAID" /\ PaidByOther(pOrder[q.payment], q.payment))
    <3>1. LedgerGrows
      BY <1>4, <2>2, EmitGrows DEF CommitCallback, LedgerGrows
    <3>2. pStatus[q.payment] # "NONE"
      BY <1>4 DEF CommitCallback, PayInv, RequestsAreReal
    <3>3. AmountsComeFrom(view)
      BY <1>4, <2>2, <3>2 DEF CommitCallback, FinishPay, AmountsComeFrom, PayInv, PayTypes
    <3>4. QED
      BY <3>1, <3>3
  <2>3. QED
    BY <2>1, <2>2
<1>5. ASSUME NEW q \in payReqs, NEW f \in Refunds, InsertRefund(q, f)
      PROVE  LedgerGrows /\ AmountsComeFrom(view)
  BY <1>5 DEF InsertRefund, FinishPay, LedgerGrows, AmountsComeFrom, PayInv, PayTypes
<1>6. ASSUME NEW q \in payReqs, CommitApproval(q)
      PROVE  LedgerGrows /\ AmountsComeFrom(view)
  <2>1. LedgerGrows
    BY <1>6, EmitGrows DEF CommitApproval, LedgerGrows
  <2>2. pStatus[rPayment[q.refund]] # "NONE"
    BY <1>6 DEF CommitApproval, PayInv, PayTypes, PayRequest, RequestsAreReal, RefundsAreReal
  <2>3. AmountsComeFrom(view)
    BY <1>6, <2>2 DEF CommitApproval, FinishPay, AmountsComeFrom, PayInv, PayTypes
  <2>4. QED
    BY <2>1, <2>3
<1>7. ASSUME NEW f \in Refunds, RejectRefund(f)
      PROVE  LedgerGrows /\ AmountsComeFrom(view)
  BY <1>7 DEF RejectRefund, LedgerGrows, AmountsComeFrom, PayInv, PayTypes
<1>8. QED
  BY <1>1, <1>2, <1>3, <1>4, <1>5, <1>6, <1>7 DEF PayLocal, StepPayRequest

\* A transaction writes one row of payments, and its charge or its refund, never both.
OneRow(p) ==
  /\ \A x \in Payments \ {p} : pOrder'[x] = pOrder[x] /\ \A t \in EventTypes : emitted'[t][x] = emitted[t][x]
  /\ pOrder'[p] \in Orders
  /\ \E t \in {"payment.paid", "payment.refunded"} : emitted'[t][p] = emitted[t][p]

LEMMA OneRowAtATime ==
  ASSUME PayInv, PayLocal
  PROVE  UNCHANGED <<pOrder, emitted>> \/ \E p \in Payments : OneRow(p)
<1>1. CASE \E r \in PayReqs : StartPayRequest(r)
  BY <1>1 DEF StartPayRequest, ReadForCallback, ReadForRefund, ReadForApproval, paymentVars
<1>2. CASE \E f \in Refunds : RejectRefund(f)
  BY <1>2 DEF RejectRefund
<1>3. ASSUME NEW q \in payReqs,
             CheckForRefund(q) \/ AbortPayRequest(q) \/ \E f \in Refunds : InsertRefund(q, f)
      PROVE  UNCHANGED <<pOrder, emitted>>
  BY <1>3 DEF CheckForRefund, AbortPayRequest, InsertRefund, paymentVars
<1>4. ASSUME NEW q \in payReqs, NEW p \in Payments, CommitPayment(q, p)
      PROVE  UNCHANGED <<pOrder, emitted>> \/ OneRow(p)
  <2>1. CASE q.method = "CASH" /\ PaidByOther(q.order, p)
    BY <1>4, <2>1 DEF CommitPayment, paymentVars
  <2>2. CASE ~(q.method = "CASH" /\ PaidByOther(q.order, p))
    <3>1. q.order \in Orders
      BY <1>4 DEF CommitPayment, PayInv, PayTypes, PayRequest
    <3>2. OneRow(p)
      BY <1>4, <2>2, <3>1 DEF CommitPayment, Emit, OneRow, EventTypes, PayInv, PayTypes
    <3>3. QED
      BY <3>2
  <2>3. QED
    BY <2>1, <2>2
<1>5. ASSUME NEW q \in payReqs, CommitCallback(q)
      PROVE  UNCHANGED <<pOrder, emitted>> \/ \E p \in Payments : OneRow(p)
  <2>1. q.payment \in Payments /\ pOrder[q.payment] \in Orders
    BY <1>5 DEF CommitCallback, PayInv, PayTypes, PayRequest, RequestsAreReal, RowsAreWhole
  <2>2. CASE q.outcome = "PAID" /\ PaidByOther(pOrder[q.payment], q.payment)
    BY <1>5, <2>2 DEF CommitCallback, paymentVars
  <2>3. CASE ~(q.outcome = "PAID" /\ PaidByOther(pOrder[q.payment], q.payment))
    <3>1. OneRow(q.payment)
      BY <1>5, <2>1, <2>3 DEF CommitCallback, Emit, OneRow, EventTypes, PayInv, PayTypes
    <3>2. QED
      BY <2>1, <3>1
  <2>4. QED
    BY <2>2, <2>3
<1>6. ASSUME NEW q \in payReqs, CommitApproval(q)
      PROVE  \E p \in Payments : OneRow(p)
  <2> DEFINE p == rPayment[q.refund]
  <2>1. p \in Payments /\ pOrder[p] \in Orders
    BY <1>6 DEF CommitApproval, PayInv, PayTypes, PayRequest, RequestsAreReal, RefundsAreReal, RowsAreWhole
  <2>2. OneRow(p)
    BY <1>6, <2>1 DEF CommitApproval, Emit, OneRow, EventTypes, PayInv, PayTypes
  <2>3. QED
    BY <2>1, <2>2
<1>7. QED
  BY <1>1, <1>2, <1>3, <1>4, <1>5, <1>6 DEF PayLocal, StepPayRequest

\* Events stay in the outbox: rows are never deleted.
LEMMA EventsStay ==
  ASSUME PayInv, LedgerGrows
  PROVE  PaymentEvents \subseteq PaymentEvents'
<1> SUFFICES ASSUME NEW e \in PaymentEvents
             PROVE  e \in PaymentEvents'
  OBVIOUS
<1>1. PICK t \in EventTypes, p \in Payments : e \in EventsOf(t, p)
  BY DEF PaymentEvents
<1>2. emitted[t][p] \in Nat /\ emitted[t][p] >= 1
  BY <1>1 DEF EventsOf, PayInv, PayTypes
<1>3. pOrder'[p] = pOrder[p]
  BY <1>2 DEF LedgerGrows, PayInv, RowsAreWhole
<1>4. 1..emitted[t][p] \subseteq 1..emitted'[t][p]
  BY <1>2 DEF LedgerGrows
<1>5. e \in EventsOf(t, p)'
  BY <1>1, <1>3, <1>4 DEF EventsOf
<1>6. QED
  BY <1>5 DEF PaymentEvents

\* An event names a payment that exists, its order, and something that happened.
LEMMA EventFacts ==
  ASSUME PayInv, NEW e \in PaymentEvents
  PROVE  /\ e \in [type : EventTypes, payment : Payments, order : Orders, n : Nat \ {0}]
         /\ pOrder[e.payment] = e.order
         /\ emitted[e.type][e.payment] > 0
<1>1. PICK t \in EventTypes, p \in Payments : e \in EventsOf(t, p)
  BY DEF PaymentEvents
<1>2. emitted[t][p] \in Nat /\ emitted[t][p] >= 1
  BY <1>1 DEF EventsOf, PayInv, PayTypes
<1>3. pOrder[p] \in Orders
  BY <1>2 DEF PayInv, RowsAreWhole
<1>4. QED
  BY <1>1, <1>2, <1>3 DEF EventsOf

\* The first event of a type is in the outbox as soon as the ledger counts one.
LEMMA FirstEvent ==
  ASSUME PayInv, NEW t \in EventTypes, NEW p \in Payments, emitted[t][p] > 0
  PROVE  [type |-> t, payment |-> p, order |-> pOrder[p], n |-> 1] \in PaymentEvents
<1>1. [type |-> t, payment |-> p, order |-> pOrder[p], n |-> 1] \in EventsOf(t, p)
  BY DEF EventsOf, PayInv, PayTypes
<1>2. QED
  BY <1>1 DEF PaymentEvents
=============================================================================
