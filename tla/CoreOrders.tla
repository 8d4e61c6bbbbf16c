---------------------------- MODULE CoreOrders -----------------------------
(***************************************************************************)
(* The Core service's orders: the HTTP handlers that weigh, bill and move  *)
(* an order through its life, and the consumer that projects Payment's     *)
(* events onto it.                                                         *)
(*                                                                         *)
(* PostgreSQL runs every transaction at READ COMMITTED and no handler      *)
(* takes a lock when it reads, so a handler is two or more actions: the    *)
(* reads, whose result it keeps in `coreReqs`, and the commit, which       *)
(* writes from that snapshot whatever has been committed meanwhile.  A     *)
(* statement that tests and writes a row at once is one action.            *)
(*                                                                         *)
(* Data: an item's weight is a member of Weights, and Bill stands for the  *)
(* arithmetic of finalize-weighing (unit prices, discount, tax and fees),  *)
(* with the tax rate that is active when the request reads it.             *)
(***************************************************************************)
EXTENDS OrderStatus

CONSTANTS
  Items,       \* line items of each order
  Weights,     \* the weights an item can be given
  Fees,        \* pickup/delivery fee a finalize request can carry
  TaxRates,    \* the rates that can be active when an order is finalized
  Bill(_, _, _), \* total_amount as a function of the weights, the fee and the rate
  CoreReqs,    \* HTTP requests Core serves at once
  Consumers,   \* Core instances consuming Payment's events
  Unweighed,   \* the weight of an item that has not been weighed
  Idle         \* what a consumer without an event is handling

ASSUME ItemsAssumption == Items # {}
ASSUME FeesAssumption == 0 \in Fees
ASSUME BillAssumption ==
  \A w \in [Items -> Weights], f \in Fees, t \in TaxRates : Bill(w, f, t) \in Int
ASSUME UnweighedAssumption == Unweighed \notin Weights

VARIABLES
  status,     \* orders.status, NoOrder before the order is inserted
  payStatus,  \* orders.payment_status
  weight,     \* order_items.actual_weight_kg (and the subtotal it determines)
  fee,        \* orders.pickup_fee + orders.delivery_fee
  total,      \* orders.total_amount
  trail,      \* order_status_history rows, each with its outbox event
  stale,      \* history: orders whose status a commit has overwritten without having read it
  billed,     \* order.weighed outbox rows
  coreReqs,   \* snapshots of the HTTP handlers between a read and a commit
  processed,  \* processed_events
  consuming   \* the event each consumer is handling

coreVars == <<status, payStatus, weight, fee, total, trail, stale, billed, coreReqs, processed, consuming>>
orderVars == <<status, payStatus, weight, fee, total, trail, stale, billed>>
consumerVars == <<processed, consuming>>

AllWeighed(o) == \A i \in Items : weight[o][i] # Unweighed

\* What GetOrderInternal answers for an order that exists.
OrderView(o) == [status |-> status[o], payStatus |-> payStatus[o], total |-> total[o]]

BusyCore(r) == \E q \in coreReqs : q.req = r
Serve(q)    == coreReqs' = coreReqs \cup {q}
Finish(q)   == coreReqs' = coreReqs \ {q}

CoreInit ==
  /\ status    = [o \in Orders |-> NoOrder]
  /\ payStatus = [o \in Orders |-> "UNPAID"]
  /\ weight    = [o \in Orders |-> [i \in Items |-> Unweighed]]
  /\ fee       = [o \in Orders |-> 0]
  /\ total     = [o \in Orders |-> NoTotal]
  /\ trail     = {}
  /\ stale     = {}
  /\ billed    = {}
  /\ coreReqs  = {}
  /\ processed = {}
  /\ consuming = [c \in Consumers |-> Idle]

\* Mutant: the history row has its two statuses swapped.
TransitionSwapped(o, from, to) ==
  /\ status' = [status EXCEPT ![o] = to]
  /\ trail'  = trail \cup {[order |-> o, from |-> to, to |-> from]}
  /\ stale'  = IF from = status[o] THEN stale ELSE stale \cup {o}

(***************************************************************************)
(* transitionStatusTx: the unconditional UPDATE of the status, the history *)
(* row and the outbox event, in the caller's transaction.                  *)
(***************************************************************************)
TransitionStatus(o, from, to) ==
  /\ status' = [status EXCEPT ![o] = to]
  /\ trail'  = trail \cup {[order |-> o, from |-> from, to |-> to]}
  /\ stale'  = IF from = status[o] THEN stale ELSE stale \cup {o}

\* CreateOrder's transaction; the prices it snapshots are Bill's.
CreateOrder(o) ==
  /\ status[o] = NoOrder
  /\ TransitionStatus(o, NoOrder, "CREATED")
  /\ UNCHANGED <<payStatus, weight, fee, total, billed, coreReqs, processed, consuming>>

\* ChangeOrderStatus reads the order outside the transaction and evaluates its
\* guards, for a caller whose role may ask for the change and who gives a reason.
ReadForStatusChange(r, o, to) ==
  /\ ~BusyCore(r)
  /\ status[o] # NoOrder
  /\ ~(status[o] = "WEIGHING" /\ to = "WASHING")
  /\ IsValidTransition(status[o], to)
  /\ RequiresPaidBeforeCompleting(to) => payStatus[o] = "PAID"
  /\ Serve([kind |-> "change", req |-> r, order |-> o, from |-> status[o], to |-> to])
  /\ UNCHANGED <<orderVars, consumerVars>>

CommitStatusChange(q) ==
  /\ q.kind = "change"
  /\ TransitionStatus(q.order, q.from, q.to)
  /\ Finish(q)
  /\ UNCHANGED <<payStatus, weight, fee, total, billed, consumerVars>>

\* WeighItem reads the order's status, then writes the item and, if it read
\* RECEIVED, moves the order to WEIGHING.  (No code sets is_locked.)
ReadForWeighing(r, o, i, kg) ==
  /\ ~BusyCore(r)
  /\ status[o] \in {"RECEIVED", "WEIGHING"}
  /\ Serve([kind |-> "weigh", req |-> r, order |-> o, item |-> i, kg |-> kg, from |-> status[o]])
  /\ UNCHANGED <<orderVars, consumerVars>>

CommitWeight(q) ==
  /\ q.kind = "weigh"
  /\ weight' = [weight EXCEPT ![q.order][q.item] = q.kg]
  /\ IF q.from = "RECEIVED"
       THEN TransitionStatus(q.order, "RECEIVED", "WEIGHING")
       ELSE UNCHANGED <<status, trail, stale>>
  /\ Finish(q)
  /\ UNCHANGED <<payStatus, fee, total, billed, consumerVars>>

\* FinalizeWeighing checks that every item is weighed (which then stays true),
\* sums the subtotals, reads the active tax rate and the stored fees, and then
\* writes the bill.  It never looks at the order's status.  A request without fees
\* keeps the stored ones.
ReadForFinalize(r, o, f, t) ==
  /\ ~BusyCore(r)
  /\ status[o] # NoOrder
  /\ AllWeighed(o)
  /\ Serve([kind |-> "finalize", req |-> r, order |-> o, fee |-> f, rate |-> t, weights |-> weight[o]])
  /\ UNCHANGED <<orderVars, consumerVars>>

\* Mutant: no CHECK on total_amount.
CommitFinalizeUnchecked(q) ==
  /\ q.kind = "finalize"
  /\ fee'    = [fee EXCEPT ![q.order] = q.fee]
  /\ total'  = [total EXCEPT ![q.order] = Bill(q.weights, q.fee, q.rate)]
  /\ billed' = billed \cup {[order |-> q.order, amount |-> Bill(q.weights, q.fee, q.rate)]}
  /\ Finish(q)
  /\ UNCHANGED <<status, payStatus, weight, trail, stale, consumerVars>>

\* A total below zero breaks a CHECK constraint and rolls the transaction back.
CommitFinalize(q) ==
  /\ q.kind = "finalize"
  /\ LET amount == Bill(q.weights, q.fee, q.rate)
     IN  IF amount >= 0
           THEN /\ fee'    = [fee EXCEPT ![q.order] = q.fee]
                /\ total'  = [total EXCEPT ![q.order] = amount]
                /\ billed' = billed \cup {[order |-> q.order, amount |-> amount]}
           ELSE UNCHANGED <<fee, total, billed>>
  /\ Finish(q)
  /\ UNCHANGED <<status, payStatus, weight, trail, stale, consumerVars>>

\* The client goes away, the database fails or the process dies before the commit.
AbortCoreRequest(q) ==
  /\ Finish(q)
  /\ UNCHANGED <<orderVars, consumerVars>>

CoreRequest ==
  [kind : {"change"}, req : CoreReqs, order : Orders, from : OrderStatuses, to : OrderStatuses]
    \cup [kind : {"weigh"}, req : CoreReqs, order : Orders, item : Items, kg : Weights,
          from : {"RECEIVED", "WEIGHING"}]
    \cup [kind : {"finalize"}, req : CoreReqs, order : Orders, fee : Fees, rate : TaxRates,
          weights : [Items -> Weights]]

(***************************************************************************)
(* The consumer of Payment's events.  An event is a record with a type and *)
(* the order in its payload; delivery is at least once, in any order.      *)
(***************************************************************************)

\* The dedup check of handlePaymentEvent; an event already processed is acked.
ReceiveEvent(c, e) ==
  /\ consuming[c] = Idle
  /\ e \notin processed
  /\ consuming' = [consuming EXCEPT ![c] = [event |-> e, stage |-> "handle", pay |-> "UNPAID", status |-> NoOrder]]
  /\ UNCHANGED <<orderVars, coreReqs, processed>>

Handling(c, type) ==
  /\ consuming[c] # Idle
  /\ consuming[c].event.type = type

MarkProcessed(c) ==
  /\ processed' = processed \cup {consuming[c].event}
  /\ consuming' = [consuming EXCEPT ![c] = Idle]

\* projectPaymentStatusIf: UPDATE ... WHERE payment_status = ANY(behind).
ProjectPaymentStatusIf(c, new, behind) ==
  LET o == consuming[c].event.order
  IN  /\ payStatus' = IF payStatus[o] \in behind THEN [payStatus EXCEPT ![o] = new] ELSE payStatus
      /\ MarkProcessed(c)
      /\ UNCHANGED <<status, weight, fee, total, trail, stale, billed, coreReqs>>

\* Mutant: the projection of payment.created is unconditional.
HandleCreatedBlindly(c) ==
  /\ Handling(c, "payment.created")
  /\ ProjectPaymentStatusIf(c, "PENDING", PaymentStatuses)

HandlePaymentCreated(c) ==
  /\ Handling(c, "payment.created")
  /\ ProjectPaymentStatusIf(c, "PENDING", {"UNPAID"})

\* Mutant: a failed payment is projected as a refunded one.
HandleFailedAsRefunded(c) ==
  /\ Handling(c, "payment.failed")
  /\ ProjectPaymentStatusIf(c, "REFUNDED", {"UNPAID", "PENDING"})

HandlePaymentFailed(c) ==
  /\ Handling(c, "payment.failed")
  /\ ProjectPaymentStatusIf(c, "FAILED", {"UNPAID", "PENDING"})

\* Mutant: PAID is projected only onto an order that shows PENDING.
HandlePaidIfPending(c) ==
  /\ Handling(c, "payment.paid")
  /\ ProjectPaymentStatusIf(c, "PAID", {"PENDING"})

\* Mutant: the laundry starts on the order when a payment is created.
HandlePaidOnCreated(c) ==
  /\ Handling(c, "payment.created")
  /\ LET o == consuming[c].event.order
     IN  IF status[o] = "WEIGHING"
           THEN TransitionStatus(o, "WEIGHING", "WASHING")
           ELSE UNCHANGED <<status, trail, stale>>
  /\ MarkProcessed(c)
  /\ UNCHANGED <<payStatus, weight, fee, total, billed, coreReqs>>

\* The UPDATE of payment_status comes first and locks the row, so the status
\* read after it is the one the transition leaves.
HandlePaymentPaid(c) ==
  /\ Handling(c, "payment.paid")
  /\ LET o == consuming[c].event.order
     IN  /\ payStatus' = [payStatus EXCEPT ![o] = "PAID"]
         /\ IF status[o] = "WEIGHING"
              THEN TransitionStatus(o, "WEIGHING", "WASHING")
              ELSE UNCHANGED <<status, trail, stale>>
  /\ MarkProcessed(c)
  /\ UNCHANGED <<weight, fee, total, billed, coreReqs>>

\* handlePaymentRefunded reads the order without a lock, then writes.
ReadForRefunded(c) ==
  /\ Handling(c, "payment.refunded")
  /\ consuming[c].stage = "handle"
  /\ LET o == consuming[c].event.order
     IN  consuming' = [consuming EXCEPT ![c] =
           [event |-> consuming[c].event, stage |-> "write", pay |-> payStatus[o], status |-> status[o]]]
  /\ UNCHANGED <<orderVars, coreReqs, processed>>

\* Mutant: the order is cancelled only if Core had shown it PAID.
HandleRefundedIfPaid(c) ==
  /\ Handling(c, "payment.refunded")
  /\ consuming[c].stage = "write"
  /\ LET o == consuming[c].event.order
     IN  IF consuming[c].pay = "PAID" /\ consuming[c].status # "CANCELLED"
           THEN /\ payStatus' = [payStatus EXCEPT ![o] = "REFUNDED"]
                /\ TransitionStatus(o, consuming[c].status, "CANCELLED")
           ELSE UNCHANGED <<payStatus, status, trail, stale>>
  /\ MarkProcessed(c)
  /\ UNCHANGED <<weight, fee, total, billed, coreReqs>>

HandlePaymentRefunded(c) ==
  /\ Handling(c, "payment.refunded")
  /\ consuming[c].stage = "write"
  /\ LET o == consuming[c].event.order
     IN  /\ payStatus' = IF consuming[c].pay = "PAID" THEN [payStatus EXCEPT ![o] = "REFUNDED"] ELSE payStatus
         /\ IF consuming[c].status # "CANCELLED"
              THEN TransitionStatus(o, consuming[c].status, "CANCELLED")
              ELSE UNCHANGED <<status, trail, stale>>
  /\ MarkProcessed(c)
  /\ UNCHANGED <<weight, fee, total, billed, coreReqs>>

\* Mutant: a handler that fails acks its event.
ConsumerAcksFailure(c) ==
  /\ consuming[c] # Idle
  /\ MarkProcessed(c)
  /\ UNCHANGED <<orderVars, coreReqs>>

\* The instance dies or the handler fails and nacks: the broker redelivers.
ConsumerFails(c) ==
  /\ consuming[c] # Idle
  /\ consuming' = [consuming EXCEPT ![c] = Idle]
  /\ UNCHANGED <<orderVars, coreReqs, processed>>

HandleEvent(c) ==
  \/ HandlePaymentCreated(c)
  \/ HandlePaymentFailed(c)
  \/ HandlePaymentPaid(c)
  \/ ReadForRefunded(c)
  \/ HandlePaymentRefunded(c)

\* The reads that start an HTTP handler, and the commits that end one.
StartCoreRequest(r) ==
  \E o \in Orders :
    \/ \E to \in OrderStatuses : ReadForStatusChange(r, o, to)
    \/ \E i \in Items, kg \in Weights : ReadForWeighing(r, o, i, kg)
    \/ \E f \in Fees \cup {fee[o]}, t \in TaxRates : ReadForFinalize(r, o, f, t)

CommitCoreRequest(q) ==
  \/ CommitStatusChange(q)
  \/ CommitWeight(q)
  \/ CommitFinalize(q)

CoreHttpNext ==
  \/ \E o \in Orders : CreateOrder(o)
  \/ \E r \in CoreReqs : StartCoreRequest(r)
  \/ \E q \in coreReqs : CommitCoreRequest(q) \/ AbortCoreRequest(q)

\* Core's consumers, over the events the broker may deliver now.
CoreEventNext(events) ==
  \E c \in Consumers :
    \/ \E e \in events : ReceiveEvent(c, e)
    \/ HandleEvent(c)
    \/ ConsumerFails(c)

-----------------------------------------------------------------------------
\* What a consumer holds while it handles an event of the set `events`.
Task(events) ==
  [event : events, stage : {"handle", "write"}, pay : PaymentStatuses,
   status : OrderStatuses \cup {NoOrder}]

\* The type of the Core variables, when every event Core can receive is in
\* `events` and every HTTP request it serves in `requests`.
CoreTypes(events, requests) ==
  /\ status \in [Orders -> OrderStatuses \cup {NoOrder}]
  /\ payStatus \in [Orders -> PaymentStatuses]
  /\ weight \in [Orders -> [Items -> Weights \cup {Unweighed}]]
  /\ fee \in [Orders -> Fees]
  /\ total \in [Orders -> Nat \cup {NoTotal}]
  /\ trail \subseteq [order : Orders, from : OrderStatuses \cup {NoOrder}, to : OrderStatuses]
  /\ stale \subseteq Orders
  /\ billed \subseteq [order : Orders, amount : Nat]
  /\ coreReqs \subseteq requests
  /\ processed \subseteq events
  /\ consuming \in [Consumers -> Task(events) \cup {Idle}]

\* Once Core has processed a payment.paid of an order, a late, repeated or
\* reordered payment.created or payment.failed never takes its payment status
\* back (the clobbering that handlePaymentEvent's comment reports).
PaidSticks ==
  \A e \in processed : e.type = "payment.paid" => payStatus[e.order] \in {"PAID", "REFUNDED"}

RowsOf(o) == {h \in trail : h.order = o}

\* The status that a history row says it left is one that the order had entered,
\* from however stale a read the row is written.  As long as no commit has
\* overwritten a status that it had not read, the rows are one path to the status
\* the order is in: it entered that status and each other once, left each other
\* once, and has not left this one.
TrailIsConnected ==
  /\ \A h \in trail : h.from # NoOrder => \E g \in trail : g.order = h.order /\ g.to = h.from
  /\ \A o \in Orders \ stale :
       /\ \A g, h \in RowsOf(o) : g.from = h.from \/ g.to = h.to => g = h
       /\ \A h \in RowsOf(o) : h.from # status[o]
       /\ status[o] # NoOrder => \E h \in RowsOf(o) : h.to = status[o]
=============================================================================
