----------------------------- MODULE Payments ------------------------------
(***************************************************************************)
(* The Payment service: charging an order, the dummy gateway's callback,   *)
(* and the refund workflow.                                                *)
(*                                                                         *)
(* As in Core, each handler reads first and writes later from what it      *)
(* read; only RejectRefund tests and writes in one statement.  The one     *)
(* guard the database adds is the partial unique index on (order_id)       *)
(* WHERE status = 'PAID'.                                                  *)
(*                                                                         *)
(* A handler that asks Core about an order gets `view`, a function from    *)
(* orders to the record GetOrderInternal answers (status NoOrder: a 404).  *)
(***************************************************************************)
EXTENDS OrderStatus

CONSTANTS
  Payments,  \* rows of table payments
  Refunds,   \* rows of table refunds
  PayReqs,   \* HTTP requests Payment serves at once
  NoPayment  \* no payment

ASSUME NoPaymentAssumption == NoPayment \notin Payments

PaymentRowStatuses == {"NONE", "PENDING", "PAID", "FAILED", "REFUNDED"}
RefundStatuses     == {"NONE", "REQUESTED", "COMPLETED", "REJECTED"}
EventTypes         == {"payment.created", "payment.paid", "payment.failed", "payment.refunded"}

VARIABLES
  pStatus,   \* payments.status, "NONE" before the row is inserted
  pOrder,    \* payments.order_id
  pAmount,   \* payments.amount
  rStatus,   \* refunds.status, "NONE" before the row is inserted
  rPayment,  \* refunds.payment_id
  emitted,   \* number of outbox rows of each type written for each payment
  payReqs    \* snapshots of the HTTP handlers between a read and a commit

payVars == <<pStatus, pOrder, pAmount, rStatus, rPayment, emitted, payReqs>>
paymentVars == <<pStatus, pOrder, pAmount, rStatus, rPayment, emitted>>
refundVars  == <<rStatus, rPayment>>

\* Every outbox row ever written; the index n tells repeated rows apart.  A
\* payment.paid row is written with one successful CHARGE in the transaction
\* log and a payment.refunded row with one REFUND, so `emitted` counts those.
EventsOf(t, p) == [type : {t}, payment : {p}, order : {pOrder[p]}, n : 1..emitted[t][p]]
PaymentEvents  == UNION {EventsOf(t, p) : t \in EventTypes, p \in Payments}

Charges(p)  == emitted["payment.paid"][p]
PaidBack(p) == emitted["payment.refunded"][p]

\* Mutant: there is no unique index.
NoOtherPaid(o, p) == FALSE

\* Some row of order o other than p holds the partial unique index.
PaidByOther(o, p) == \E x \in Payments \ {p} : pStatus[x] = "PAID" /\ pOrder[x] = o

BusyPay(r)   == \E q \in payReqs : q.req = r
ServePay(q)  == payReqs' = payReqs \cup {q}
FinishPay(q) == payReqs' = payReqs \ {q}

PayInit ==
  /\ pStatus  = [p \in Payments |-> "NONE"]
  /\ pOrder   = [p \in Payments |-> NoOrder]
  /\ pAmount  = [p \in Payments |-> 0]
  /\ rStatus  = [f \in Refunds |-> "NONE"]
  /\ rPayment = [f \in Refunds |-> NoPayment]
  /\ emitted  = [t \in EventTypes |-> [p \in Payments |-> 0]]
  /\ payReqs  = {}

\* writeOutboxEvent, inside the caller's transaction.
Emit(types, p) ==
  emitted' = [t \in EventTypes |->
                IF t \in types THEN [emitted[t] EXCEPT ![p] = @ + 1] ELSE emitted[t]]

\* Mutant: the client's amount is not compared with the order's total.
FetchTrustingAmount(r, o, method, view) ==
  /\ ~BusyPay(r)
  /\ view[o].status = "WEIGHING"
  /\ view[o].total # NoTotal
  /\ view[o].payStatus # "PAID"
  /\ \E amount \in 1..2 :
       ServePay([kind |-> "pay", req |-> r, order |-> o, amount |-> amount, method |-> method])
  /\ UNCHANGED paymentVars

\* CreatePayment asks Core for the order and checks it; the client must name
\* exactly the order's total, and a positive one.
FetchForPayment(r, o, method, view) ==
  /\ ~BusyPay(r)
  /\ view[o].status = "WEIGHING"
  /\ view[o].total # NoTotal
  /\ view[o].total > 0
  /\ view[o].payStatus # "PAID"
  /\ ServePay([kind |-> "pay", req |-> r, order |-> o, amount |-> view[o].total, method |-> method])
  /\ UNCHANGED paymentVars

\* Mutant: the row is inserted UNPAID, a status payments.status does not have.
CommitPaymentUnpaid(q, p) ==
  /\ q.kind = "pay"
  /\ pStatus[p] = "NONE"
  /\ pStatus' = [pStatus EXCEPT ![p] = "UNPAID"]
  /\ pOrder'  = [pOrder EXCEPT ![p] = q.order]
  /\ pAmount' = [pAmount EXCEPT ![p] = q.amount]
  /\ Emit({"payment.created"}, p)
  /\ FinishPay(q)
  /\ UNCHANGED refundVars

\* A CASH payment is PAID at once; the dummy gateway leaves it PENDING.  The
\* unique index refuses a second PAID row (409) and the transaction rolls back.
CommitPayment(q, p) ==
  /\ q.kind = "pay"
  /\ pStatus[p] = "NONE"
  /\ IF q.method = "CASH" /\ PaidByOther(q.order, p)
       THEN UNCHANGED paymentVars
       ELSE /\ pStatus' = [pStatus EXCEPT ![p] = IF q.method = "CASH" THEN "PAID" ELSE "PENDING"]
            /\ pOrder'  = [pOrder EXCEPT ![p] = q.order]
            /\ pAmount' = [pAmount EXCEPT ![p] = q.amount]
            /\ Emit(IF q.method = "CASH" THEN {"payment.created", "payment.paid"} ELSE {"payment.created"}, p)
            /\ UNCHANGED refundVars
  /\ FinishPay(q)

\* SimulateGatewayCallback reads the payment outside its transaction; only a
\* gateway payment is ever PENDING.
ReadForCallback(r, p, outcome) ==
  /\ ~BusyPay(r)
  /\ pStatus[p] = "PENDING"
  /\ ServePay([kind |-> "callback", req |-> r, payment |-> p, outcome |-> outcome])
  /\ UNCHANGED paymentVars

CommitCallback(q) ==
  /\ q.kind = "callback"
  /\ IF q.outcome = "PAID" /\ PaidByOther(pOrder[q.payment], q.payment)
       THEN UNCHANGED paymentVars
       ELSE /\ pStatus' = [pStatus EXCEPT ![q.payment] = q.outcome]
            /\ Emit({IF q.outcome = "PAID" THEN "payment.paid" ELSE "payment.failed"}, q.payment)
            /\ UNCHANGED <<pOrder, pAmount, refundVars>>
  /\ FinishPay(q)

(***************************************************************************)
(* CreateRefund: read the payment, ask Core, look for a live refund, and   *)
(* insert: four statements, no transaction around them.                    *)
(***************************************************************************)
\* Mutant: a payment still PENDING can be refunded.
ReadForRefundOfPending(r, p) ==
  /\ ~BusyPay(r)
  /\ pStatus[p] \in {"PENDING", "PAID"}
  /\ ServePay([kind |-> "refund", req |-> r, payment |-> p, stage |-> "fetch"])
  /\ UNCHANGED paymentVars

ReadForRefund(r, p) ==
  /\ ~BusyPay(r)
  /\ pStatus[p] = "PAID"
  /\ ServePay([kind |-> "refund", req |-> r, payment |-> p, stage |-> "fetch"])
  /\ UNCHANGED paymentVars

\* The request q moves on to its next statement.
Advance(q, stage) == payReqs' = (payReqs \ {q}) \cup {[q EXCEPT !.stage = stage]}

FetchForRefund(q, view) ==
  /\ q.kind = "refund" /\ q.stage = "fetch"
  /\ view[pOrder[q.payment]].status # "CANCELLED"
  /\ Advance(q, "check")
  /\ UNCHANGED paymentVars

LiveRefund(p) == \E f \in Refunds : rPayment[f] = p /\ rStatus[f] \notin {"NONE", "REJECTED"}

CheckForRefund(q) ==
  /\ q.kind = "refund" /\ q.stage = "check"
  /\ ~LiveRefund(q.payment)
  /\ Advance(q, "insert")
  /\ UNCHANGED paymentVars

InsertRefund(q, f) ==
  /\ q.kind = "refund" /\ q.stage = "insert"
  /\ rStatus[f] = "NONE"
  /\ rStatus'  = [rStatus EXCEPT ![f] = "REQUESTED"]
  /\ rPayment' = [rPayment EXCEPT ![f] = q.payment]
  /\ FinishPay(q)
  /\ UNCHANGED <<pStatus, pOrder, pAmount, emitted>>

\* ApproveRefund reads the refund without a lock, then writes the refund, the
\* payment, the transaction log and the outbox whatever the refund is by then.
ReadForApproval(r, f) ==
  /\ ~BusyPay(r)
  /\ rStatus[f] = "REQUESTED"
  /\ ServePay([kind |-> "approve", req |-> r, refund |-> f])
  /\ UNCHANGED paymentVars

CommitApproval(q) ==
  /\ q.kind = "approve"
  /\ rStatus' = [rStatus EXCEPT ![q.refund] = "COMPLETED"]
  /\ pStatus' = [pStatus EXCEPT ![rPayment[q.refund]] = "REFUNDED"]
  /\ Emit({"payment.refunded"}, rPayment[q.refund])
  /\ FinishPay(q)
  /\ UNCHANGED <<pOrder, pAmount, rPayment>>

\* Mutant: the UPDATE of RejectRefund has no status in its WHERE.
RejectAnyRefund(f) ==
  /\ rStatus[f] # "NONE"
  /\ rStatus' = [rStatus EXCEPT ![f] = "REJECTED"]
  /\ UNCHANGED <<pStatus, pOrder, pAmount, rPayment, emitted, payReqs>>

\* RejectRefund: UPDATE ... WHERE id AND status = 'REQUESTED'.
RejectRefund(f) ==
  /\ rStatus[f] = "REQUESTED"
  /\ rStatus' = [rStatus EXCEPT ![f] = "REJECTED"]
  /\ UNCHANGED <<pStatus, pOrder, pAmount, rPayment, emitted, payReqs>>

\* A guard fails, the client goes away, Core or the database does not answer.
AbortPayRequest(q) ==
  /\ FinishPay(q)
  /\ UNCHANGED paymentVars

\* The steps that ask Core about an order ...
AskCore(view) ==
  \/ \E r \in PayReqs, o \in Orders, m \in {"CASH", "QRIS"} : FetchForPayment(r, o, m, view)
  \/ \E q \in payReqs : FetchForRefund(q, view)

\* ... and those that concern Payment's own rows only.
StartPayRequest(r) ==
  \/ \E p \in Payments, outcome \in {"PAID", "FAILED"} : ReadForCallback(r, p, outcome)
  \/ \E p \in Payments : ReadForRefund(r, p)
  \/ \E f \in Refunds : ReadForApproval(r, f)

StepPayRequest(q) ==
  \/ \E p \in Payments : CommitPayment(q, p)
  \/ CommitCallback(q)
  \/ CheckForRefund(q)
  \/ \E f \in Refunds : InsertRefund(q, f)
  \/ CommitApproval(q)
  \/ AbortPayRequest(q)

PayLocal ==
  \/ \E r \in PayReqs : StartPayRequest(r)
  \/ \E q \in payReqs : StepPayRequest(q)
  \/ \E f \in Refunds : RejectRefund(f)

-----------------------------------------------------------------------------
PayRequest ==
  [kind : {"pay"}, req : PayReqs, order : Orders, amount : Nat \ {0}, method : {"CASH", "QRIS"}]
    \cup [kind : {"callback"}, req : PayReqs, payment : Payments, outcome : {"PAID", "FAILED"}]
    \cup [kind : {"refund"}, req : PayReqs, payment : Payments, stage : {"fetch", "check", "insert"}]
    \cup [kind : {"approve"}, req : PayReqs, refund : Refunds]

\* The type of the Payment variables.
PayTypes ==
  /\ pStatus \in [Payments -> PaymentRowStatuses]
  /\ pOrder \in [Payments -> Orders \cup {NoOrder}]
  /\ pAmount \in [Payments -> Nat]
  /\ rStatus \in [Refunds -> RefundStatuses]
  /\ rPayment \in [Refunds -> Payments \cup {NoPayment}]
  /\ emitted \in [EventTypes -> [Payments -> Nat]]
  /\ payReqs \subseteq PayRequest

\* docs/10 section 3.2: a payment is REFUNDED only through a COMPLETED refund on
\* that payment, although approval, rejection and callbacks all write it blindly.
RefundBacked ==
  \A p \in Payments : pStatus[p] = "REFUNDED" =>
    \E f \in Refunds : rPayment[f] = p /\ rStatus[f] = "COMPLETED"

\* Money is paid back only from a payment that was charged, and a payment that
\* is PAID was charged.
RefundOnlyIfCharged ==
  \A p \in Payments : PaidBack(p) > 0 \/ pStatus[p] = "PAID" => Charges(p) > 0

\* Two payments of one order are both charged only if one of them was refunded
\* or overtaken by a failed callback: the partial unique index admits no other
\* way, whatever requests race (CreatePayment, SimulateGatewayCallback).  That it
\* admits these two is OnePaidEver's disagreement with the schema.
DoubleChargeNeedsReversal ==
  \A p1, p2 \in Payments :
    p1 # p2 /\ pOrder[p1] = pOrder[p2] /\ Charges(p1) > 0 /\ Charges(p2) > 0 =>
      \E p \in {p1, p2} : PaidBack(p) > 0 \/ emitted["payment.failed"][p] > 0

-----------------------------------------------------------------------------
(***************************************************************************)
(* Stated by a comment or a document, and not so.                          *)
(***************************************************************************)

\* docs/10 section 3.1: refunds are tied 1:1 to the order's single payment.
RefundedOnce == \A p \in Payments : PaidBack(p) <= 1

\* The migration and docs/06: only one row per order can ever reach PAID.
OnePaidEver ==
  \A p1, p2 \in Payments :
    p1 # p2 /\ pOrder[p1] = pOrder[p2] => ~ (Charges(p1) > 0 /\ Charges(p2) > 0)
=============================================================================
