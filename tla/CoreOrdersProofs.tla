------------------------- MODULE CoreOrdersProofs --------------------------
(***************************************************************************)
(* What every step of Core's order handlers preserves, whatever requests   *)
(* and events a specification composes them with.                          *)
(***************************************************************************)
EXTENDS CoreOrders, TLAPS

\* The set of requests a specification allows contains this module's, told by their kind.
GoodRequests(requests) ==
  /\ CoreRequest \subseteq requests
  /\ \A q \in requests : q.kind \in {"change", "weigh", "finalize"} => q \in CoreRequest

GoodEvents(events) == \A e \in events : e.order \in Orders

\* A handler that only reads remembers a request of the right type.
LEMMA OnlyServed ==
  ASSUME NEW events, NEW requests, CoreTypes(events, requests), NEW q, q \in requests,
         coreReqs' = coreReqs \cup {q}, UNCHANGED <<orderVars, consumerVars>>
  PROVE  CoreTypes(events, requests)'
  BY DEF CoreTypes, orderVars, consumerVars

\* transitionStatusTx writes a status and a history row.
LEMMA TransitionTypes ==
  ASSUME NEW events, NEW requests, CoreTypes(events, requests),
         NEW o \in Orders, NEW from \in OrderStatuses \cup {NoOrder}, NEW to \in OrderStatuses,
         TransitionStatus(o, from, to)
  PROVE  /\ status' \in [Orders -> OrderStatuses \cup {NoOrder}]
         /\ trail' \subseteq [order : Orders, from : OrderStatuses \cup {NoOrder}, to : OrderStatuses]
         /\ stale' \subseteq Orders
  BY DEF CoreTypes, TransitionStatus

\* CreateOrder keeps the types: it writes the status and the trail of one order.
LEMMA CreateOrderTypes ==
  ASSUME NEW events, NEW requests, CoreTypes(events, requests), NEW o \in Orders, CreateOrder(o)
  PROVE  CoreTypes(events, requests)'
<1>1. "CREATED" \in OrderStatuses
  BY DEF OrderStatuses
<1>2. QED
  BY <1>1, TransitionTypes DEF CreateOrder, CoreTypes

\* The reads that start a handler.
LEMMA StartTypes ==
  ASSUME NEW events, NEW requests, CoreTypes(events, requests), GoodRequests(requests),
         NEW r \in CoreReqs, StartCoreRequest(r)
  PROVE  CoreTypes(events, requests)'
<1>1. ASSUME NEW o \in Orders, NEW to \in OrderStatuses, ReadForStatusChange(r, o, to)
      PROVE  CoreTypes(events, requests)'
  <2> DEFINE q == [kind |-> "change", req |-> r, order |-> o, from |-> status[o], to |-> to]
  <2>1. q \in CoreRequest
    BY <1>1 DEF ReadForStatusChange, CoreTypes, CoreRequest
  <2>2. QED
    BY <1>1, <2>1, OnlyServed DEF ReadForStatusChange, Serve, GoodRequests
<1>2. ASSUME NEW o \in Orders, NEW i \in Items, NEW kg \in Weights, ReadForWeighing(r, o, i, kg)
      PROVE  CoreTypes(events, requests)'
  <2> DEFINE q == [kind |-> "weigh", req |-> r, order |-> o, item |-> i, kg |-> kg, from |-> status[o]]
  <2>1. q \in CoreRequest
    BY <1>2 DEF ReadForWeighing, CoreRequest
  <2>2. QED
    BY <1>2, <2>1, OnlyServed DEF ReadForWeighing, Serve, GoodRequests
<1>3. ASSUME NEW o \in Orders, NEW f \in Fees \cup {fee[o]}, NEW t \in TaxRates, ReadForFinalize(r, o, f, t)
      PROVE  CoreTypes(events, requests)'
  <2> DEFINE q == [kind |-> "finalize", req |-> r, order |-> o, fee |-> f, rate |-> t, weights |-> weight[o]]
  <2>1. f \in Fees /\ weight[o] \in [Items -> Weights]
    BY <1>3 DEF ReadForFinalize, AllWeighed, CoreTypes
  <2>2. q \in CoreRequest
    BY <2>1 DEF CoreRequest
  <2>3. QED
    BY <1>3, <2>2, OnlyServed DEF ReadForFinalize, Serve, GoodRequests
<1>4. QED
  BY <1>1, <1>2, <1>3 DEF StartCoreRequest

\* The commits that end one.
LEMMA CommitTypes ==
  ASSUME NEW events, NEW requests, CoreTypes(events, requests), GoodRequests(requests),
         NEW q \in coreReqs, CommitCoreRequest(q) \/ AbortCoreRequest(q)
  PROVE  CoreTypes(events, requests)'
<1>1. CASE CommitStatusChange(q)
  <2>1. q.order \in Orders /\ q.from \in OrderStatuses /\ q.to \in OrderStatuses
    BY <1>1 DEF CommitStatusChange, GoodRequests, CoreTypes, CoreRequest
  <2>2. QED
    BY <1>1, <2>1, TransitionTypes DEF CommitStatusChange, Finish, CoreTypes, consumerVars
<1>2. CASE CommitWeight(q)
  <2>1. q.order \in Orders /\ q.item \in Items /\ q.kg \in Weights
    BY <1>2 DEF CommitWeight, GoodRequests, CoreTypes, CoreRequest
  <2>2. weight' \in [Orders -> [Items -> Weights \cup {Unweighed}]]
    BY <1>2, <2>1 DEF CommitWeight, CoreTypes
  <2>3. "RECEIVED" \in OrderStatuses /\ "WEIGHING" \in OrderStatuses
    BY DEF OrderStatuses
  <2>4. /\ status' \in [Orders -> OrderStatuses \cup {NoOrder}]
        /\ trail' \subseteq [order : Orders, from : OrderStatuses \cup {NoOrder}, to : OrderStatuses]
        /\ stale' \subseteq Orders
    BY <1>2, <2>1, <2>3, TransitionTypes DEF CommitWeight, CoreTypes
  <2>5. QED
    BY <1>2, <2>2, <2>4 DEF CommitWeight, Finish, CoreTypes, consumerVars
<1>3. CASE CommitFinalize(q)
  <2>1. q.order \in Orders /\ q.fee \in Fees /\ q.rate \in TaxRates /\ q.weights \in [Items -> Weights]
    BY <1>3 DEF CommitFinalize, GoodRequests, CoreTypes, CoreRequest
  <2>2. Bill(q.weights, q.fee, q.rate) \in Int
    BY <2>1, BillAssumption
  <2> DEFINE amount == Bill(q.weights, q.fee, q.rate)
  <2>3. /\ fee' \in [Orders -> Fees]
        /\ total' \in [Orders -> Nat \cup {NoTotal}]
        /\ billed' \subseteq [order : Orders, amount : Nat]
    <3>1. CASE amount >= 0
      <4>1. amount \in Nat
        BY <2>2, <3>1
      <4>2. /\ fee'    = [fee EXCEPT ![q.order] = q.fee]
            /\ total'  = [total EXCEPT ![q.order] = amount]
            /\ billed' = billed \cup {[order |-> q.order, amount |-> amount]}
        BY <1>3, <3>1 DEF CommitFinalize
      <4> HIDE DEF amount
      <4>3. QED
        BY <2>1, <4>1, <4>2 DEF CoreTypes
    <3>2. CASE ~(amount >= 0)
      BY <1>3, <3>2 DEF CommitFinalize, CoreTypes
    <3>3. QED
      BY <3>1, <3>2
  <2>4. coreReqs' \subseteq requests
    BY <1>3 DEF CommitFinalize, Finish, CoreTypes
  <2>5. QED
    BY <1>3, <2>3, <2>4 DEF CommitFinalize, CoreTypes, consumerVars
<1>4. CASE AbortCoreRequest(q)
  BY <1>4 DEF AbortCoreRequest, Finish, CoreTypes, orderVars, consumerVars
<1>5. QED
  BY <1>1, <1>2, <1>3, <1>4 DEF CommitCoreRequest

\* The consumer, over events that are all among `events`.
LEMMA EventTypesHold ==
  ASSUME NEW events, NEW requests, CoreTypes(events, requests), GoodEvents(events),
         NEW deliverable, deliverable \subseteq events, CoreEventNext(deliverable)
  PROVE  CoreTypes(events, requests)'
<1>1. PICK c \in Consumers : \/ \E e \in deliverable : ReceiveEvent(c, e)
                             \/ HandleEvent(c)
                             \/ ConsumerFails(c)
  BY DEF CoreEventNext
<1>2. CASE \E e \in deliverable : ReceiveEvent(c, e)
  <2>1. PICK e \in deliverable : ReceiveEvent(c, e)
    BY <1>2
  <2>2. [event |-> e, stage |-> "handle", pay |-> "UNPAID", status |-> NoOrder] \in Task(events)
    BY DEF Task, PaymentStatuses
  <2>3. QED
    BY <2>1, <2>2 DEF ReceiveEvent, CoreTypes, orderVars
<1>3. ASSUME consuming[c] # Idle
      PROVE  consuming[c] \in Task(events) /\ consuming[c].event \in events /\ consuming[c].event.order \in Orders
  BY <1>3 DEF CoreTypes, Task, GoodEvents
<1>4. ASSUME NEW new \in PaymentStatuses, NEW behind, consuming[c] # Idle, ProjectPaymentStatusIf(c, new, behind)
      PROVE  CoreTypes(events, requests)'
  BY <1>3, <1>4 DEF ProjectPaymentStatusIf, MarkProcessed, CoreTypes
<1>5. {"PENDING", "FAILED", "PAID", "REFUNDED"} \subseteq PaymentStatuses
      /\ {"WEIGHING", "WASHING", "CANCELLED"} \subseteq OrderStatuses
  BY DEF PaymentStatuses, OrderStatuses
<1>6. CASE HandlePaymentCreated(c) \/ HandlePaymentFailed(c)
  BY <1>4, <1>5, <1>6 DEF HandlePaymentCreated, HandlePaymentFailed, Handling
<1>7. CASE HandlePaymentPaid(c)
  <2> DEFINE o == consuming[c].event.order
  <2>1. /\ status' \in [Orders -> OrderStatuses \cup {NoOrder}]
        /\ trail' \subseteq [order : Orders, from : OrderStatuses \cup {NoOrder}, to : OrderStatuses]
        /\ stale' \subseteq Orders
    <3>1. CASE status[o] = "WEIGHING"
      BY <1>7, <1>3, <1>5, <3>1, TransitionTypes DEF HandlePaymentPaid, Handling
    <3>2. CASE status[o] # "WEIGHING"
      BY <1>7, <3>2 DEF HandlePaymentPaid, CoreTypes
    <3>3. QED
      BY <3>1, <3>2
  <2>2. QED
    BY <1>7, <1>3, <1>5, <2>1 DEF HandlePaymentPaid, Handling, MarkProcessed, CoreTypes
<1>8. CASE ReadForRefunded(c)
  <2>1. [event |-> consuming[c].event, stage |-> "write", pay |-> payStatus[consuming[c].event.order],
         status |-> status[consuming[c].event.order]] \in Task(events)
    BY <1>8, <1>3 DEF ReadForRefunded, Handling, Task, CoreTypes
  <2>2. QED
    BY <1>8, <2>1 DEF ReadForRefunded, CoreTypes, orderVars
<1>9. CASE HandlePaymentRefunded(c)
  <2> DEFINE o == consuming[c].event.order
  <2>1. consuming[c].status \in OrderStatuses \cup {NoOrder}
    BY <1>9, <1>3 DEF HandlePaymentRefunded, Handling, Task
  <2>2. /\ status' \in [Orders -> OrderStatuses \cup {NoOrder}]
        /\ trail' \subseteq [order : Orders, from : OrderStatuses \cup {NoOrder}, to : OrderStatuses]
        /\ stale' \subseteq Orders
    <3>1. CASE consuming[c].status # "CANCELLED"
      BY <1>9, <1>3, <1>5, <2>1, <3>1, TransitionTypes DEF HandlePaymentRefunded, Handling
    <3>2. CASE consuming[c].status = "CANCELLED"
      BY <1>9, <3>2 DEF HandlePaymentRefunded, CoreTypes
    <3>3. QED
      BY <3>1, <3>2
  <2>3. QED
    BY <1>9, <1>3, <1>5, <2>2 DEF HandlePaymentRefunded, Handling, MarkProcessed, CoreTypes
<1>10. CASE ConsumerFails(c)
  BY <1>10 DEF ConsumerFails, CoreTypes, orderVars
<1>11. QED
  BY <1>1, <1>2, <1>6, <1>7, <1>8, <1>9, <1>10 DEF HandleEvent

-----------------------------------------------------------------------------
(***************************************************************************)
(* The effects the safety proofs rest on: how a status change, a history   *)
(* row, a payment status or a bill can come about.                         *)
(***************************************************************************)

\* Staff cannot move an order back to its start or into work, nor cancel one that is being worked on.
LEMMA ValidTransitionFacts ==
  ASSUME NEW from, NEW to, IsValidTransition(from, to)
  PROVE  /\ to # "CREATED"
         /\ to \in WorkStarted => from \in WorkStarted
         /\ to = "CANCELLED" => from \notin WorkStarted \cup {"ON_HOLD", "CANCELLED"}
  BY DEF IsValidTransition, Transitions, WorkStarted

\* A consumer has an event of the given type and order in hand, and processes it now.
Applied(type, o) ==
  \E c \in Consumers :
    Handling(c, type) /\ consuming[c].event.order = o /\ consuming[c].event \in processed'

\* A status change read in the past, by a handler that has yet to commit it.
Pending(o, from, to) ==
  \E q \in coreReqs : q.kind = "change" /\ q.order = o /\ q.from = from /\ q.to = to

\* Work starts, an order is cancelled, or Core shows PAID or REFUNDED only by a change
\* in flight or by an event that a consumer processes in this step; no bill is
\* forgotten, no order disappears and none returns to CREATED but by a change.
CoreEffects ==
  /\ \A o \in Orders : status'[o] \in WorkStarted =>
       \/ status[o] \in WorkStarted
       \/ \E from \in OrderStatuses : Pending(o, from, status'[o])
       \/ Applied("payment.paid", o)
  /\ \A h \in trail' : h.to = "CANCELLED" =>
       h \in trail \/ Pending(h.order, h.from, h.to) \/ Applied("payment.refunded", h.order)
  /\ \A o \in Orders : payStatus'[o] = "PAID" => payStatus[o] = "PAID" \/ Applied("payment.paid", o)
  /\ \A o \in Orders : payStatus'[o] = "REFUNDED" =>
       payStatus[o] = "REFUNDED" \/ Applied("payment.refunded", o)
  /\ \A o \in Orders : total'[o] # total[o] => [order |-> o, amount |-> total'[o]] \in billed'
  /\ billed \subseteq billed'
  /\ \A o \in Orders : status[o] # NoOrder => status'[o] # NoOrder
  /\ \A o \in Orders : status'[o] = "CREATED" =>
       status[o] \in {NoOrder, "CREATED"} \/ \E from \in OrderStatuses : Pending(o, from, "CREATED")

\* A handler that starts remembers the status it read.
LEMMA StartEffects ==
  ASSUME NEW r \in CoreReqs, StartCoreRequest(r)
  PROVE  /\ UNCHANGED <<orderVars, consumerVars>>
         /\ \A q \in coreReqs' :
              \/ q \in coreReqs
              \/ q.kind = "change" => q.from = status[q.order] /\ IsValidTransition(q.from, q.to)
  BY DEF StartCoreRequest, ReadForStatusChange, ReadForWeighing, ReadForFinalize, Serve

\* What a request's commit (status change, weighing, finalize) may do to the orders.
LEMMA CommitEffects ==
  ASSUME NEW events, NEW requests, CoreTypes(events, requests), GoodRequests(requests),
         NEW q \in coreReqs, CommitCoreRequest(q) \/ AbortCoreRequest(q)
  PROVE  CoreEffects /\ coreReqs' \subseteq coreReqs /\ UNCHANGED <<payStatus, consumerVars>>
<1>1. CASE CommitStatusChange(q)
  <2>1. q.order \in Orders /\ q.from \in OrderStatuses /\ q.to # NoOrder
    BY <1>1, NoneAssumption DEF CommitStatusChange, GoodRequests, CoreTypes, CoreRequest
  <2>2. QED
    BY <1>1, <2>1
    DEF CommitStatusChange, TransitionStatus, Finish, CoreEffects, Pending, CoreTypes
<1>2. CASE CommitWeight(q)
  <2>1. q.order \in Orders
    BY <1>2 DEF CommitWeight, GoodRequests, CoreTypes, CoreRequest
  <2>2. "WEIGHING" \notin WorkStarted /\ "WEIGHING" # NoOrder
    BY NoneAssumption DEF WorkStarted, OrderStatuses
  <2>3. /\ \A o \in Orders : status'[o] \in WorkStarted => status[o] \in WorkStarted
        /\ \A o \in Orders : status[o] # NoOrder => status'[o] # NoOrder
        /\ \A o \in Orders : status'[o] = "CREATED" => status[o] = "CREATED"
    BY <1>2, <2>1, <2>2 DEF CommitWeight, TransitionStatus, CoreTypes
  <2>4. \A h \in trail' : h.to = "CANCELLED" => h \in trail
    BY <1>2 DEF CommitWeight, TransitionStatus
  <2>5. UNCHANGED <<payStatus, total, billed, consumerVars>> /\ coreReqs' \subseteq coreReqs
    BY <1>2 DEF CommitWeight, Finish
  <2>6. payStatus' = payStatus /\ total' = total /\ billed' = billed
    BY <2>5
  <2>7. CoreEffects
    BY <2>3, <2>4, <2>6 DEF CoreEffects
  <2>8. QED
    BY <2>5, <2>7
<1>3. CASE CommitFinalize(q)
  <2>1. q.order \in Orders
    BY <1>3 DEF CommitFinalize, GoodRequests, CoreTypes, CoreRequest
  <2>2. QED
    BY <1>3, <2>1 DEF CommitFinalize, Finish, CoreEffects, CoreTypes
<1>4. CASE AbortCoreRequest(q)
  BY <1>4 DEF AbortCoreRequest, Finish, CoreEffects, orderVars
<1>5. QED
  BY <1>1, <1>2, <1>3, <1>4 DEF CommitCoreRequest

\* What a step of a consumer may do to the orders, over the events it may receive.
LEMMA EventEffects ==
  ASSUME NEW events, NEW requests, CoreTypes(events, requests), GoodEvents(events),
         NEW deliverable, deliverable \subseteq events, CoreEventNext(deliverable)
  PROVE  /\ CoreEffects
         /\ UNCHANGED coreReqs
         /\ processed \subseteq processed'
         /\ \A e \in processed' : e \in processed \/ \E c \in Consumers : consuming[c] # Idle /\ e = consuming[c].event
         /\ \A c \in Consumers : consuming'[c] # Idle =>
              \/ consuming'[c].event \in deliverable
              \/ consuming[c] # Idle /\ consuming'[c].event = consuming[c].event
<1>1. PICK c \in Consumers : \/ \E e \in deliverable : ReceiveEvent(c, e)
                             \/ HandleEvent(c)
                             \/ ConsumerFails(c)
  BY DEF CoreEventNext
<1>2. ASSUME consuming[c] # Idle
      PROVE  consuming[c] \in Task(events) /\ consuming[c].event.order \in Orders
  BY <1>2 DEF CoreTypes, Task, GoodEvents
<1>3. CASE \E e \in deliverable : ReceiveEvent(c, e)
  BY <1>3 DEF ReceiveEvent, CoreTypes, CoreEffects, orderVars
<1>4. CASE HandlePaymentCreated(c) \/ HandlePaymentFailed(c)
  BY <1>4, <1>2
  DEF HandlePaymentCreated, HandlePaymentFailed, Handling, ProjectPaymentStatusIf, MarkProcessed,
      CoreTypes, CoreEffects
<1>5. CASE HandlePaymentPaid(c)
  <2>1. "WASHING" # NoOrder
    BY NoneAssumption DEF OrderStatuses
  <2>2. QED
    BY <1>5, <1>2, <2>1
    DEF HandlePaymentPaid, Handling, TransitionStatus, MarkProcessed, CoreTypes, CoreEffects, Applied
<1>6. CASE ReadForRefunded(c)
  BY <1>6, <1>2 DEF ReadForRefunded, Handling, CoreTypes, CoreEffects, orderVars
<1>7. CASE HandlePaymentRefunded(c)
  <2>1. "CANCELLED" \notin WorkStarted /\ "CANCELLED" # NoOrder
    BY NoneAssumption DEF WorkStarted, OrderStatuses
  <2>2. QED
    BY <1>7, <1>2, <2>1
    DEF HandlePaymentRefunded, Handling, TransitionStatus, MarkProcessed, CoreTypes, CoreEffects, Applied
<1>8. CASE ConsumerFails(c)
  BY <1>8 DEF ConsumerFails, CoreTypes, CoreEffects, orderVars
<1>9. QED
  BY <1>1, <1>3, <1>4, <1>5, <1>6, <1>7, <1>8 DEF HandleEvent

-----------------------------------------------------------------------------
\* A step of Core moves one order, if any, and does not unsettle its payment.
OnlyOrder(o) ==
  /\ status' = [status EXCEPT ![o] = status'[o]]
  /\ payStatus' = [payStatus EXCEPT ![o] = payStatus'[o]]
  /\ payStatus[o] \in {"PAID", "REFUNDED"} => payStatus'[o] \in {"PAID", "REFUNDED"}

OneOrderMoves == UNCHANGED <<status, payStatus>> \/ \E o \in Orders : OnlyOrder(o)

\* A request's commit writes the status of the order it names.
LEMMA CommitMovesOne ==
  ASSUME NEW events, NEW requests, CoreTypes(events, requests), GoodRequests(requests),
         NEW q \in coreReqs, CommitCoreRequest(q) \/ AbortCoreRequest(q)
  PROVE  OneOrderMoves
<1>1. CASE CommitStatusChange(q)
  <2>1. q.order \in Orders
    BY <1>1 DEF CommitStatusChange, GoodRequests, CoreTypes, CoreRequest
  <2>2. OnlyOrder(q.order)
    BY <1>1, <2>1 DEF CommitStatusChange, TransitionStatus, OnlyOrder, CoreTypes
  <2>3. QED
    BY <2>1, <2>2 DEF OneOrderMoves
<1>2. CASE CommitWeight(q)
  <2>1. q.order \in Orders
    BY <1>2 DEF CommitWeight, GoodRequests, CoreTypes, CoreRequest
  <2>2. OnlyOrder(q.order)
    BY <1>2, <2>1 DEF CommitWeight, TransitionStatus, OnlyOrder, CoreTypes
  <2>3. QED
    BY <2>1, <2>2 DEF OneOrderMoves
<1>3. CASE CommitFinalize(q)
  BY <1>3 DEF CommitFinalize, OneOrderMoves
<1>4. CASE AbortCoreRequest(q)
  BY <1>4 DEF AbortCoreRequest, OneOrderMoves, orderVars
<1>5. QED
  BY <1>1, <1>2, <1>3, <1>4 DEF CommitCoreRequest

\* A consumer writes the order its event names; a payment that is settled stays
\* so, because only payment.paid and payment.refunded write over one.
LEMMA EventMovesOne ==
  ASSUME NEW events, NEW requests, CoreTypes(events, requests), GoodEvents(events),
         NEW deliverable, deliverable \subseteq events, CoreEventNext(deliverable)
  PROVE  OneOrderMoves
<1>1. PICK c \in Consumers : \/ \E e \in deliverable : ReceiveEvent(c, e)
                             \/ HandleEvent(c)
                             \/ ConsumerFails(c)
  BY DEF CoreEventNext
<1>2. ASSUME consuming[c] # Idle
      PROVE  consuming[c].event.order \in Orders
  BY <1>2 DEF CoreTypes, Task, GoodEvents
<1>3. CASE (\E e \in deliverable : ReceiveEvent(c, e)) \/ ReadForRefunded(c) \/ ConsumerFails(c)
  BY <1>3 DEF ReceiveEvent, ReadForRefunded, ConsumerFails, OneOrderMoves, orderVars
<1>4. CASE HandlePaymentCreated(c) \/ HandlePaymentFailed(c)
  <2>1. OnlyOrder(consuming[c].event.order)
    BY <1>2, <1>4
    DEF HandlePaymentCreated, HandlePaymentFailed, Handling, ProjectPaymentStatusIf, OnlyOrder, CoreTypes
  <2>2. QED
    BY <1>2, <1>4, <2>1 DEF HandlePaymentCreated, HandlePaymentFailed, Handling, OneOrderMoves
<1>5. CASE HandlePaymentPaid(c)
  <2>1. OnlyOrder(consuming[c].event.order)
    BY <1>2, <1>5 DEF HandlePaymentPaid, Handling, TransitionStatus, OnlyOrder, CoreTypes
  <2>2. QED
    BY <1>2, <1>5, <2>1 DEF HandlePaymentPaid, Handling, OneOrderMoves
<1>6. CASE HandlePaymentRefunded(c)
  <2>1. OnlyOrder(consuming[c].event.order)
    BY <1>2, <1>6 DEF HandlePaymentRefunded, Handling, TransitionStatus, OnlyOrder, CoreTypes
  <2>2. QED
    BY <1>2, <1>6, <2>1 DEF HandlePaymentRefunded, Handling, OneOrderMoves
<1>7. QED
  BY <1>1, <1>3, <1>4, <1>5, <1>6 DEF HandleEvent

-----------------------------------------------------------------------------
\* The projection of the payment status never goes back from PAID: the guards of
\* projectPaymentStatusIf leave PAID and REFUNDED alone.
LEMMA PaidSticksStep ==
  ASSUME NEW events, NEW requests, CoreTypes(events, requests), GoodEvents(events),
         NEW deliverable, deliverable \subseteq events, CoreEventNext(deliverable), PaidSticks
  PROVE  PaidSticks'
<1>1. PICK c \in Consumers : \/ \E e \in deliverable : ReceiveEvent(c, e)
                             \/ HandleEvent(c)
                             \/ ConsumerFails(c)
  BY DEF CoreEventNext
<1>2. ASSUME consuming[c] # Idle
      PROVE  consuming[c].event.order \in Orders
  BY <1>2 DEF CoreTypes, Task, GoodEvents
<1>3. CASE (\E e \in deliverable : ReceiveEvent(c, e)) \/ ReadForRefunded(c) \/ ConsumerFails(c)
  BY <1>3 DEF ReceiveEvent, ReadForRefunded, ConsumerFails, PaidSticks, orderVars
<1>5. CASE HandlePaymentCreated(c)
  BY <1>2, <1>5 DEF HandlePaymentCreated, Handling, ProjectPaymentStatusIf, MarkProcessed, PaidSticks, CoreTypes
<1>6. CASE HandlePaymentFailed(c)
  BY <1>2, <1>6 DEF HandlePaymentFailed, Handling, ProjectPaymentStatusIf, MarkProcessed, PaidSticks, CoreTypes
<1>7. CASE HandlePaymentPaid(c)
  BY <1>2, <1>7 DEF HandlePaymentPaid, Handling, MarkProcessed, PaidSticks, CoreTypes, GoodEvents
<1>8. CASE HandlePaymentRefunded(c)
  BY <1>2, <1>8 DEF HandlePaymentRefunded, Handling, MarkProcessed, PaidSticks, CoreTypes, GoodEvents
<1>9. QED
  BY <1>1, <1>3, <1>5, <1>6, <1>7, <1>8 DEF HandleEvent
=============================================================================
