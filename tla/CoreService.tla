---------------------------- MODULE CoreService ----------------------------
(***************************************************************************)
(* The Core service on its own: the order handlers of CoreOrders with the  *)
(* pickup and delivery requests, against a Payment service that may send   *)
(* any of PaymentEvts, in any order and again after a failure.             *)
(***************************************************************************)
EXTENDS CoreOrders

CONSTANT PaymentEvts  \* events Payment may send: records with a type and an order

ASSUME PaymentEvtsAssumption == \A e \in PaymentEvts : e.order \in Orders

VARIABLES
  pickup,   \* pickup_requests.status by order (order_id is UNIQUE), "NONE" without a row
  delivery, \* delivery_requests.status, likewise
  missed    \* history: orders whose delivery, as it was completed, found no READY order,
            \*   and orders that came to READY with their delivery completed already

fulfilVars == <<pickup, delivery>>
vars == <<coreVars, fulfilVars, missed>>

FulfilmentStatuses == {"NONE", "REQUESTED", "SCHEDULED", "COMPLETED", "CANCELLED"}

Init ==
  /\ CoreInit
  /\ pickup   = [o \in Orders |-> "NONE"]
  /\ delivery = [o \in Orders |-> "NONE"]
  /\ missed   = {}

\* CreateOrder inserts the requests the customer ticked in its transaction.
CreateOrderWith(o, wantsPickup, wantsDelivery) ==
  /\ CreateOrder(o)
  /\ pickup'   = IF wantsPickup THEN [pickup EXCEPT ![o] = "REQUESTED"] ELSE pickup
  /\ delivery' = IF wantsDelivery THEN [delivery EXCEPT ![o] = "REQUESTED"] ELSE delivery
  /\ UNCHANGED missed

\* Mutant: the request is inserted with a status its CHECK does not list.
RequestPickupPending(o) ==
  /\ status[o] # NoOrder
  /\ pickup[o] = "NONE"
  /\ pickup' = [pickup EXCEPT ![o] = "PENDING"]
  /\ UNCHANGED <<coreVars, delivery, missed>>

\* RequestPickup is one INSERT; a second one breaks UNIQUE (order_id): 409.
RequestPickup(o) ==
  /\ status[o] # NoOrder
  /\ pickup[o] = "NONE"
  /\ pickup' = [pickup EXCEPT ![o] = "REQUESTED"]
  /\ UNCHANGED <<coreVars, delivery, missed>>

\* RequestDelivery reads the status first and inserts later.
ReadForDelivery(r, o) ==
  /\ ~BusyCore(r)
  /\ status[o] = "READY"
  /\ Serve([kind |-> "deliver", req |-> r, order |-> o])
  /\ UNCHANGED <<orderVars, consumerVars, fulfilVars, missed>>

CommitDeliveryRequest(q) ==
  /\ q.kind = "deliver"
  /\ delivery' = IF delivery[q.order] = "NONE" THEN [delivery EXCEPT ![q.order] = "REQUESTED"] ELSE delivery
  /\ Finish(q)
  /\ UNCHANGED <<orderVars, consumerVars, pickup, missed>>

(***************************************************************************)
(* updateFulfillment.  Its UPDATE of the request row comes before it reads *)
(* the order, so from that read to the commit it holds the row's lock:     *)
(* another update of the same request waits.  No guard looks at the        *)
(* request's own status.                                                   *)
(***************************************************************************)
Locked(table, o) == \E q \in coreReqs : q.kind = "fulfil" /\ q.table = table /\ q.order = o

RowExists(table, o) == IF table = "pickup" THEN pickup[o] # "NONE" ELSE delivery[o] # "NONE"

SetRequest(table, o, new) ==
  /\ pickup'   = IF table = "pickup" THEN [pickup EXCEPT ![o] = new] ELSE pickup
  /\ delivery' = IF table = "delivery" THEN [delivery EXCEPT ![o] = new] ELSE delivery

\* SCHEDULED and CANCELLED touch the request alone.
UpdateFulfilment(table, o, new) ==
  /\ new \in {"SCHEDULED", "CANCELLED"}
  /\ RowExists(table, o)
  /\ ~Locked(table, o)
  /\ SetRequest(table, o, new)
  /\ UNCHANGED <<coreVars, missed>>

\* COMPLETED reads the order's status ...
ReadForCompletion(r, table, o) ==
  /\ ~BusyCore(r)
  /\ RowExists(table, o)
  /\ ~Locked(table, o)
  /\ Serve([kind |-> "fulfil", req |-> r, table |-> table, order |-> o, seen |-> status[o]])
  /\ UNCHANGED <<orderVars, consumerVars, fulfilVars, missed>>

\* Mutant: a completed delivery looks for an order already DELIVERED.
FromStatusLate(table) == IF table = "pickup" THEN "CREATED" ELSE "DELIVERED"

FromStatus(table) == IF table = "pickup" THEN "CREATED" ELSE "READY"
ToStatus(table)   == IF table = "pickup" THEN "RECEIVED" ELSE "DELIVERED"

\* ... and moves it on if it was at the expected one.
CommitCompletion(q) ==
  /\ q.kind = "fulfil"
  /\ SetRequest(q.table, q.order, "COMPLETED")
  /\ IF q.seen = FromStatus(q.table)
       THEN TransitionStatus(q.order, q.seen, ToStatus(q.table))
       ELSE UNCHANGED <<status, trail, stale>>
  /\ missed' = IF q.table = "pickup" THEN missed
               ELSE IF q.seen = "READY" THEN missed \ {q.order} ELSE missed \cup {q.order}
  /\ Finish(q)
  /\ UNCHANGED <<payStatus, weight, fee, total, billed, consumerVars>>

FulfilmentNext ==
  \/ \E o \in Orders, p, d \in BOOLEAN : CreateOrderWith(o, p, d)
  \/ \E o \in Orders : RequestPickup(o)
  \/ \E r \in CoreReqs, o \in Orders : ReadForDelivery(r, o)
  \/ \E t \in {"pickup", "delivery"}, o \in Orders :
       \/ \E new \in FulfilmentStatuses : UpdateFulfilment(t, o, new)
       \/ \E r \in CoreReqs : ReadForCompletion(r, t, o)
  \/ \E q \in coreReqs : CommitDeliveryRequest(q) \/ CommitCompletion(q)

OrderNext ==
  \/ \E r \in CoreReqs : StartCoreRequest(r)
  \/ \E q \in coreReqs : CommitCoreRequest(q) \/ AbortCoreRequest(q)
  \/ CoreEventNext(PaymentEvts)

ComesToReady(o) == status[o] # "READY" /\ status'[o] = "READY"

Next ==
  \/ FulfilmentNext
  \/ /\ OrderNext
     /\ UNCHANGED fulfilVars
     /\ missed' = missed \cup {o \in Orders : ComesToReady(o) /\ delivery[o] = "COMPLETED"}

Spec == Init /\ [][Next]_vars

-----------------------------------------------------------------------------
ServiceRequest ==
  CoreRequest
    \cup [kind : {"deliver"}, req : CoreReqs, order : Orders]
    \cup [kind : {"fulfil"}, req : CoreReqs, table : {"pickup", "delivery"}, order : Orders,
          seen : OrderStatuses]

\* Every Core variable keeps its type.
TypeOK ==
  /\ CoreTypes(PaymentEvts, ServiceRequest)
  /\ pickup \in [Orders -> FulfilmentStatuses]
  /\ delivery \in [Orders -> FulfilmentStatuses]
  /\ missed \subseteq Orders

\* BR-02 as far as Core can know it: an order is worked on, or completed, only
\* if Core has processed a payment.paid for it, whatever status changes,
\* weighings and fulfilment updates commit from stale reads.
WorkOnlyAfterPaid ==
  \A o \in Orders : status[o] \in WorkStarted =>
    \E e \in processed : e.type = "payment.paid" /\ e.order = o

\* Completing a request takes the order with it (updateFulfillment): no order is
\* left in CREATED by a completed pickup, nor in READY by a completed delivery,
\* except where the delivery was completed while the order was not READY, or the
\* order was put into READY afterwards (the status change is then skipped and
\* nothing tries it again).
FulfilmentMovesOrder ==
  \A o \in Orders :
    /\ pickup[o] = "COMPLETED" => status[o] # "CREATED"
    /\ delivery[o] = "COMPLETED" /\ status[o] = "READY" => o \in missed
=============================================================================
