---------------------------- MODULE OrderToCash ----------------------------
(***************************************************************************)
(* Core and Payment together.  Payment asks Core about an order over HTTP  *)
(* (it sees the committed row); Core learns of payments only through the   *)
(* events of Payment's outbox, each of which the broker may deliver at any *)
(* time, in any order and again after a failure.                           *)
(***************************************************************************)
EXTENDS CoreOrders, Payments

vars == <<coreVars, payVars>>

CoreView == [o \in Orders |-> OrderView(o)]

Init == CoreInit /\ PayInit

Next ==
  \/ CoreHttpNext /\ UNCHANGED payVars
  \/ CoreEventNext(PaymentEvents) /\ UNCHANGED payVars
  \/ (AskCore(CoreView) \/ PayLocal) /\ UNCHANGED coreVars

Spec == Init /\ [][Next]_vars

(***************************************************************************)
(* Fairness.  The relay polls for ever and each instance reads its queue   *)
(* for ever, so an event waiting for delivery is received again and again; *)
(* strong fairness because another event may be taken first.  A handler    *)
(* that keeps being retried eventually commits (its faults are transient). *)
(* Clients promise nothing.                                                *)
(***************************************************************************)
EventNos == 1..(Cardinality(PayReqs) * (Cardinality(Refunds) + 1))

Fairness ==
  /\ \A t \in EventTypes, p \in Payments, o \in Orders, n \in EventNos :
       LET e == [type |-> t, payment |-> p, order |-> o, n |-> n]
       IN  SF_vars(e \in PaymentEvents /\ (\E c \in Consumers : ReceiveEvent(c, e)) /\ UNCHANGED payVars)
  /\ \A c \in Consumers :
       /\ SF_vars(HandleEvent(c) /\ UNCHANGED payVars)
       /\ SF_vars(HandlePaymentRefunded(c) /\ UNCHANGED payVars)

FairSpec == Spec /\ Fairness

-----------------------------------------------------------------------------
Event == [type : EventTypes, payment : Payments, order : Orders, n : Nat \ {0}]

\* Every variable of the two services keeps its type.
TypeOK == CoreTypes(Event, CoreRequest) /\ PayTypes

-----------------------------------------------------------------------------
(***************************************************************************)
(* Safety.                                                                 *)
(***************************************************************************)
Charged(o) == \E p \in Payments : pOrder[p] = o /\ Charges(p) > 0
GaveBack(o) == \E p \in Payments : pOrder[p] = o /\ PaidBack(p) > 0

\* BR-02: the laundry never works on an order, let alone completes it, unless
\* some payment of that order was charged, however events, stale status
\* changes and refunds interleave (handlePaymentPaid is the only way in).
WorkOnlyIfCharged == \A o \in Orders : status[o] \in WorkStarted => Charged(o)

\* Core shows REFUNDED only for an order one of whose payments gave money back.
RefundedIsReal == \A o \in Orders : payStatus[o] = "REFUNDED" => GaveBack(o)

Worked(o) == \E h \in RowsOf(o) : h.to \in WorkStarted \cup {"ON_HOLD"}

\* An order that the laundry has worked on, or put on hold, is cancelled only by a
\* refund that gave the money back (handlePaymentRefunded; ChangeOrderStatus has no
\* such transition), as long as no commit has overwritten a status it had not read.
\* One that has may cancel it for nothing: ChangeOrderStatus reads WEIGHING, the
\* payment is processed and work starts, and then the change commits CANCELLED.
\* Even so no history row takes an order from work or hold to CANCELLED without a
\* refund.
LateCancelIsRefund ==
  /\ \A o \in Orders \ stale : status[o] = "CANCELLED" /\ Worked(o) => GaveBack(o)
  /\ \A h \in trail : h.to = "CANCELLED" /\ h.from \in WorkStarted \cup {"ON_HOLD"} => GaveBack(h.order)

\* Every payment is for an amount some finalize-weighing billed for its order,
\* although the amount was read over HTTP before the payment was inserted.
AmountWasBilled ==
  \A p \in Payments : pStatus[p] # "NONE" => [order |-> pOrder[p], amount |-> pAmount[p]] \in billed

\* Once no event of an order is left to process, Core shows a charged order as
\* PAID or REFUNDED: delivery order and redelivery do not matter for that much.
ChargeIsProjected ==
  \A o \in Orders :
    Charged(o) /\ (\A e \in PaymentEvents : e.order = o => e \in processed) =>
      payStatus[o] \in {"PAID", "REFUNDED"}

-----------------------------------------------------------------------------
(***************************************************************************)
(* The abstract specification that the two services implement.             *)
(***************************************************************************)
L == INSTANCE Ledger WITH
  charged  <- {o \in Orders : Charged(o)},
  returned <- {o \in Orders : GaveBack(o)},
  shown    <- payStatus,
  worked   <- {o \in Orders : status[o] \in WorkStarted}

\* Core and Payment keep the ledger of an order, though no transaction spans
\* them: no step of one moves the other's side, Core never shows a payment or a
\* refund and never starts on an order before the money moved, and a status
\* PAID or REFUNDED is not taken back by an event that comes late or again.
ImplementsLedger == L!Spec

-----------------------------------------------------------------------------
(***************************************************************************)
(* Liveness.                                                               *)
(***************************************************************************)

\* A charge reaches Core: the order it paid for comes to show PAID (or already
\* REFUNDED), whatever else is delivered and however often consumers fail.
ChargeReachesCore ==
  \A p \in Payments, o \in Orders :
    (pOrder[p] = o /\ Charges(p) > 0) ~> (payStatus[o] \in {"PAID", "REFUNDED"})

\* A completed refund reaches Core: once payment.refunded is written, Core comes
\* to record a cancellation of the order.
RefundCancelsOrder ==
  \A p \in Payments, o \in Orders :
    (pOrder[p] = o /\ PaidBack(p) > 0) ~> (\E h \in trail : h.order = o /\ h.to = "CANCELLED")

-----------------------------------------------------------------------------
(***************************************************************************)
(* What the documentation states and the code does not do; each is         *)
(* violated by the run that names it.                                      *)
(***************************************************************************)

\* BR-05: once payment is completed the order's total is immutable.
TotalFrozenAfterPayment ==
  [][\A o \in Orders : payStatus[o] = "PAID" => total'[o] = total[o]]_vars

\* payment_events.go: processing the events in either order converges on the
\* same final state, so when nothing is left to process and no payment of the
\* order is still PAID, an order that was given its money back shows REFUNDED.
RefundIsProjected ==
  \A o \in Orders :
    /\ GaveBack(o)
    /\ \A p \in Payments : pOrder[p] = o => pStatus[p] = "REFUNDED"
    /\ \A e \in PaymentEvents : e.order = o => e \in processed
    => payStatus[o] = "REFUNDED"
=============================================================================
