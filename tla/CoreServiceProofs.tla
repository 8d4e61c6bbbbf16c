------------------------- MODULE CoreServiceProofs -------------------------
(***************************************************************************)
(* The Core service works only on paid orders and completing a pickup or a *)
(* delivery takes the order with it, whatever Payment sends and however    *)
(* pickups and deliveries interleave with the order handlers.              *)
(***************************************************************************)
EXTENDS CoreService, CoreOrdersProofs

\* Core has processed a payment.paid of order o.
PaidFor(o) == \E e \in processed : e.type = "payment.paid" /\ e.order = o

\* What a handler in flight read: a valid change, and work only on a paid order.
ReadsAreSound ==
  \A q \in coreReqs :
    /\ q.kind = "change" => /\ IsValidTransition(q.from, q.to)
                            /\ q.from \in WorkStarted => PaidFor(q.order)
    /\ q.kind = "fulfil" => /\ q.seen \in WorkStarted => PaidFor(q.order)
                            /\ q.seen # "CREATED" => status[q.order] # "CREATED"

\* A pickup or delivery request belongs to an order that was created.
RequestsHaveOrders ==
  /\ \A o \in Orders : pickup[o] # "NONE" \/ delivery[o] # "NONE" => status[o] # NoOrder
  /\ \A q \in coreReqs : q.kind \in {"deliver", "fulfil"} => status[q.order] # NoOrder

Inv ==
  /\ TypeOK
  /\ RequestsHaveOrders
  /\ ReadsAreSound
  /\ WorkOnlyAfterPaid
  /\ PaidSticks
  /\ FulfilmentMovesOrder

\* The sets CoreService plugs into CoreOrders are as the type lemmas require.
LEMMA SetsFit == GoodEvents(PaymentEvts) /\ GoodRequests(ServiceRequest)
  BY PaymentEvtsAssumption DEF GoodEvents, GoodRequests, ServiceRequest

\* The empty database satisfies the invariant.
LEMMA InitInv == Init => Inv
<1> SUFFICES ASSUME Init
             PROVE  Inv
  OBVIOUS
<1>1. TypeOK
  BY FeesAssumption DEF Init, CoreInit, TypeOK, CoreTypes, PaymentStatuses, FulfilmentStatuses
<1>2. WorkOnlyAfterPaid
  BY NoneAssumption DEF Init, CoreInit, WorkOnlyAfterPaid, WorkStarted, OrderStatuses
<1>3. ReadsAreSound /\ PaidSticks /\ RequestsHaveOrders /\ FulfilmentMovesOrder
  BY DEF Init, CoreInit, ReadsAreSound, PaidSticks, RequestsHaveOrders, FulfilmentMovesOrder
<1>4. QED
  BY <1>1, <1>2, <1>3 DEF Inv

-----------------------------------------------------------------------------
\* Events are never forgotten, so an order that is paid for stays so, and the
\* effects of a step start work on a paid order only and put none back in CREATED.
LEMMA EffectsKeepReads ==
  ASSUME Inv, CoreEffects, processed \subseteq processed', coreReqs' \subseteq coreReqs
  PROVE  /\ WorkOnlyAfterPaid' /\ ReadsAreSound'
         /\ \A q \in coreReqs' : q.kind \in {"deliver", "fulfil"} => status'[q.order] # NoOrder
         /\ \A o \in Orders : status'[o] = "CREATED" => status[o] \in {NoOrder, "CREATED"}
<1>1. \A o : PaidFor(o) => PaidFor(o)'
  BY DEF PaidFor
<1>2. \A o \in Orders : Applied("payment.paid", o) => PaidFor(o)'
  BY DEF Applied, Handling, PaidFor
<1>3. \A o, from, to : Pending(o, from, to) => to # "CREATED" /\ (to \in WorkStarted => PaidFor(o))
  BY ValidTransitionFacts DEF Inv, ReadsAreSound, Pending
<1>4. WorkOnlyAfterPaid'
  BY <1>1, <1>2, <1>3 DEF Inv, WorkOnlyAfterPaid, CoreEffects, PaidFor
<1>5. \A o \in Orders : status'[o] = "CREATED" => status[o] \in {NoOrder, "CREATED"}
  BY <1>3 DEF CoreEffects
<1>6. \A q \in coreReqs : q.kind \in {"deliver", "fulfil"} => q.order \in Orders
  BY DEF Inv, TypeOK, CoreTypes, ServiceRequest, CoreRequest
<1>7. ReadsAreSound'
  BY <1>1, <1>5, <1>6 DEF Inv, ReadsAreSound, RequestsHaveOrders
<1>8. \A q \in coreReqs' : q.kind \in {"deliver", "fulfil"} => status'[q.order] # NoOrder
  BY <1>6 DEF Inv, RequestsHaveOrders, CoreEffects
<1>9. QED
  BY <1>4, <1>5, <1>7, <1>8

\* A handler of CoreOrders, with the fulfilment requests left alone.
LEMMA OrderStep ==
  ASSUME Inv, OrderNext, UNCHANGED fulfilVars,
         missed' = missed \cup {o \in Orders : ComesToReady(o) /\ delivery[o] = "COMPLETED"}
  PROVE  Inv'
<1> USE SetsFit DEF Inv, TypeOK
<1>0. ASSUME \A o \in Orders : status'[o] = "CREATED" => status[o] \in {NoOrder, "CREATED"}
      PROVE  FulfilmentMovesOrder'
  BY <1>0 DEF FulfilmentMovesOrder, ComesToReady, RequestsHaveOrders, fulfilVars
<1>1. ASSUME NEW r \in CoreReqs, StartCoreRequest(r)
      PROVE  Inv'
  <2>1. TypeOK'
    BY <1>1, StartTypes DEF fulfilVars
  <2>2. \A q \in coreReqs' : q.kind \in {"change", "fulfil"} => q.order \in Orders
    BY <2>1 DEF CoreTypes, ServiceRequest, CoreRequest
  <2>3. \A q \in coreReqs' : q \in coreReqs \/ q.kind \notin {"deliver", "fulfil"}
    BY <1>1 DEF StartCoreRequest, ReadForStatusChange, ReadForWeighing, ReadForFinalize, Serve
  <2>4. ReadsAreSound'
    BY <1>1, <2>2, <2>3, StartEffects DEF ReadsAreSound, WorkOnlyAfterPaid, PaidFor, orderVars, consumerVars
  <2>5. WorkOnlyAfterPaid' /\ PaidSticks' /\ RequestsHaveOrders'
    BY <1>1, <2>3, StartEffects
    DEF WorkOnlyAfterPaid, PaidSticks, RequestsHaveOrders, orderVars, consumerVars, fulfilVars
  <2>6. FulfilmentMovesOrder'
    BY <1>0, <1>1, StartEffects DEF orderVars
  <2>7. QED
    BY <2>1, <2>4, <2>5, <2>6
<1>2. ASSUME NEW q \in coreReqs, CommitCoreRequest(q) \/ AbortCoreRequest(q)
      PROVE  Inv'
  <2>1. TypeOK'
    BY <1>2, CommitTypes DEF fulfilVars
  <2>2. CoreEffects /\ coreReqs' \subseteq coreReqs /\ UNCHANGED <<payStatus, consumerVars>>
    BY <1>2, CommitEffects
  <2>3. WorkOnlyAfterPaid' /\ ReadsAreSound' /\ PaidSticks' /\ RequestsHaveOrders' /\ FulfilmentMovesOrder'
    BY <1>0, <2>2, EffectsKeepReads DEF consumerVars, fulfilVars, PaidSticks, RequestsHaveOrders, CoreEffects
  <2>4. QED
    BY <2>1, <2>3
<1>3. CASE CoreEventNext(PaymentEvts)
  <2>1. TypeOK'
    BY <1>3, EventTypesHold DEF fulfilVars
  <2>2. CoreEffects /\ UNCHANGED coreReqs /\ processed \subseteq processed'
    BY <1>3, EventEffects
  <2>3. WorkOnlyAfterPaid' /\ ReadsAreSound' /\ RequestsHaveOrders' /\ FulfilmentMovesOrder'
    BY <1>0, <2>2, EffectsKeepReads DEF fulfilVars, RequestsHaveOrders, CoreEffects
  <2>4. PaidSticks'
    BY <1>3, PaidSticksStep
  <2>5. QED
    BY <2>1, <2>3, <2>4
<1>4. QED
  BY <1>1, <1>2, <1>3 DEF OrderNext

\* A pickup or delivery request.  Only a completed one touches an order: a
\* pickup moves it to RECEIVED, a delivery from READY to DELIVERED.
LEMMA FulfilmentStep ==
  ASSUME Inv, FulfilmentNext
  PROVE  Inv'
<1> USE DEF Inv, TypeOK
<1>1. ASSUME NEW o \in Orders, NEW p \in BOOLEAN, NEW d \in BOOLEAN, CreateOrderWith(o, p, d)
      PROVE  Inv'
  <2>1. TypeOK'
    BY <1>1, CreateOrderTypes DEF CreateOrderWith, FulfilmentStatuses
  <2>2. CoreEffects
    <3>1. "CREATED" \notin WorkStarted /\ "CREATED" # NoOrder
      BY NoneAssumption DEF WorkStarted, OrderStatuses
    <3>2. QED
      BY <1>1, <3>1 DEF CreateOrderWith, CreateOrder, TransitionStatus, CoreEffects, CoreTypes
  <2>3. RequestsHaveOrders'
    BY <1>1, <2>2, NoneAssumption
    DEF CreateOrderWith, CreateOrder, TransitionStatus, RequestsHaveOrders, CoreEffects, CoreTypes,
        OrderStatuses, ServiceRequest, CoreRequest
  <2>4. FulfilmentMovesOrder'
    BY <1>1
    DEF CreateOrderWith, CreateOrder, TransitionStatus, FulfilmentMovesOrder, RequestsHaveOrders, CoreTypes
  <2>5. QED
    BY <1>1, <2>1, <2>2, <2>3, <2>4, EffectsKeepReads DEF CreateOrderWith, CreateOrder, PaidSticks
<1>2. ASSUME UNCHANGED <<coreVars, missed>>, pickup' \in [Orders -> FulfilmentStatuses], delivery' \in [Orders -> FulfilmentStatuses],
             \A o \in Orders : /\ pickup'[o] # "NONE" \/ delivery'[o] # "NONE" => status[o] # NoOrder
                               /\ pickup'[o] = "COMPLETED" => pickup[o] = "COMPLETED"
                               /\ delivery'[o] = "COMPLETED" => delivery[o] = "COMPLETED"
      PROVE  Inv'
  <2>1. TypeOK'
    BY <1>2 DEF coreVars, CoreTypes
  <2>2. RequestsHaveOrders' /\ FulfilmentMovesOrder'
    BY <1>2 DEF coreVars, RequestsHaveOrders, FulfilmentMovesOrder
  <2>3. ReadsAreSound' /\ WorkOnlyAfterPaid' /\ PaidSticks'
    BY <1>2 DEF coreVars, ReadsAreSound, WorkOnlyAfterPaid, PaidSticks, PaidFor
  <2>4. QED
    BY <2>1, <2>2, <2>3
<1>3. ASSUME NEW o \in Orders, RequestPickup(o)
      PROVE  Inv'
  BY <1>2, <1>3 DEF RequestPickup, FulfilmentStatuses, RequestsHaveOrders
<1>4. ASSUME NEW t \in {"pickup", "delivery"}, NEW o \in Orders, NEW new \in FulfilmentStatuses, UpdateFulfilment(t, o, new)
      PROVE  Inv'
  BY <1>2, <1>4 DEF UpdateFulfilment, SetRequest, RowExists, RequestsHaveOrders
<1>5. ASSUME NEW q, q \in ServiceRequest, Serve(q), UNCHANGED <<orderVars, consumerVars, fulfilVars, missed>>,
             q.kind \in {"deliver", "fulfil"}, q.order \in Orders, status[q.order] # NoOrder,
             q.kind = "fulfil" => q.seen = status[q.order]
      PROVE  Inv'
  <2>1. TypeOK'
    BY <1>5, OnlyServed DEF Serve, fulfilVars
  <2>2. q.kind = "fulfil" => (q.seen \in WorkStarted => PaidFor(q.order))
    BY <1>5 DEF WorkOnlyAfterPaid, PaidFor
  <2>3. ReadsAreSound'
    BY <1>5, <2>2 DEF Serve, ReadsAreSound, PaidFor, orderVars, consumerVars
  <2>4. WorkOnlyAfterPaid' /\ PaidSticks' /\ RequestsHaveOrders' /\ FulfilmentMovesOrder'
    BY <1>5
    DEF Serve, WorkOnlyAfterPaid, PaidSticks, RequestsHaveOrders, FulfilmentMovesOrder, orderVars, consumerVars,
        fulfilVars
  <2>5. QED
    BY <2>1, <2>3, <2>4
<1>6. ASSUME NEW r \in CoreReqs, NEW o \in Orders, ReadForDelivery(r, o)
      PROVE  Inv'
  <2>1. [kind |-> "deliver", req |-> r, order |-> o] \in ServiceRequest
    BY DEF ServiceRequest
  <2>2. "READY" # NoOrder
    BY NoneAssumption DEF OrderStatuses
  <2>3. QED
    BY <1>5, <1>6, <2>1, <2>2 DEF ReadForDelivery
<1>7. ASSUME NEW t \in {"pickup", "delivery"}, NEW o \in Orders, NEW r \in CoreReqs, ReadForCompletion(r, t, o)
      PROVE  Inv'
  <2>1. status[o] # NoOrder
    BY <1>7 DEF ReadForCompletion, RowExists, RequestsHaveOrders
  <2>2. [kind |-> "fulfil", req |-> r, table |-> t, order |-> o, seen |-> status[o]] \in ServiceRequest
    BY <2>1 DEF ServiceRequest, CoreTypes
  <2>3. QED
    BY <1>5, <1>7, <2>1, <2>2 DEF ReadForCompletion
<1>8. ASSUME NEW q \in coreReqs, CommitDeliveryRequest(q)
      PROVE  Inv'
  <2>1. TypeOK' /\ coreReqs' \subseteq coreReqs
    BY <1>8 DEF CommitDeliveryRequest, Finish, CoreTypes, FulfilmentStatuses, orderVars, consumerVars
  <2>2. CoreEffects
    BY <1>8 DEF CommitDeliveryRequest, CoreEffects, orderVars
  <2>3. RequestsHaveOrders'
    BY <1>8 DEF CommitDeliveryRequest, Finish, RequestsHaveOrders, CoreTypes, orderVars
  <2>4. FulfilmentMovesOrder'
    BY <1>8 DEF CommitDeliveryRequest, FulfilmentMovesOrder, CoreTypes, orderVars
  <2>5. QED
    BY <1>8, <2>1, <2>2, <2>3, <2>4, EffectsKeepReads DEF CommitDeliveryRequest, PaidSticks, orderVars, consumerVars
<1>9. ASSUME NEW q \in coreReqs, CommitCompletion(q)
      PROVE  Inv'
  <2>1. q.order \in Orders /\ q.table \in {"pickup", "delivery"} /\ q.seen \in OrderStatuses
    BY <1>9 DEF CommitCompletion, CoreTypes, ServiceRequest, CoreRequest
  <2>2. ToStatus(q.table) \in OrderStatuses /\ ToStatus(q.table) # "CANCELLED"
        /\ (ToStatus(q.table) \in WorkStarted => FromStatus(q.table) \in WorkStarted)
    BY <2>1 DEF ToStatus, FromStatus, OrderStatuses, WorkStarted
  <2>3. /\ status' \in [Orders -> OrderStatuses \cup {NoOrder}]
        /\ trail' \subseteq [order : Orders, from : OrderStatuses \cup {NoOrder}, to : OrderStatuses]
        /\ stale' \subseteq Orders
    BY <1>9, <2>1, <2>2, TransitionTypes DEF CommitCompletion, CoreTypes
  <2>4. TypeOK'
    BY <1>9, <2>1, <2>3 DEF CommitCompletion, SetRequest, Finish, CoreTypes, FulfilmentStatuses, consumerVars
  <2>5. WorkOnlyAfterPaid'
    BY SMTT(30), <1>9, <2>1, <2>2
    DEF CommitCompletion, TransitionStatus, ReadsAreSound, WorkOnlyAfterPaid, PaidFor, CoreTypes, consumerVars
  <2>6. \A o \in Orders : status'[o] = "CREATED" => status[o] = "CREATED"
    BY <1>9, <2>1 DEF CommitCompletion, TransitionStatus, ToStatus, CoreTypes
  <2>7. \A p \in coreReqs : p.kind = "fulfil" => p.order \in Orders
    BY DEF CoreTypes, ServiceRequest, CoreRequest
  <2>8. ReadsAreSound' /\ PaidSticks'
    BY <1>9, <2>6, <2>7 DEF CommitCompletion, Finish, ReadsAreSound, PaidSticks, PaidFor, consumerVars
  <2>9. \A o \in Orders : status[o] # NoOrder => status'[o] # NoOrder
    BY <1>9, <2>1, <2>2, NoneAssumption DEF CommitCompletion, TransitionStatus, CoreTypes
  <2>10. RequestsHaveOrders'
    BY <1>9, <2>1, <2>9
    DEF CommitCompletion, SetRequest, Finish, RequestsHaveOrders, CoreTypes, ServiceRequest, CoreRequest
  <2>11. CASE q.table = "pickup"
    <3>1. status'[q.order] # "CREATED"
      BY <1>9, <2>1, <2>11
      DEF CommitCompletion, TransitionStatus, FromStatus, ToStatus, ReadsAreSound, CoreTypes
    <3>2. FulfilmentMovesOrder'
      BY <1>9, <2>1, <2>6, <2>11, <3>1
      DEF CommitCompletion, SetRequest, TransitionStatus, FromStatus, ToStatus, FulfilmentMovesOrder, CoreTypes
    <3>3. QED
      BY <2>4, <2>5, <2>8, <2>10, <3>2
  <2>12. CASE q.table = "delivery"
    <3>1. FulfilmentMovesOrder'
      BY <1>9, <2>1, <2>6, <2>12
      DEF CommitCompletion, SetRequest, TransitionStatus, FromStatus, ToStatus, FulfilmentMovesOrder, CoreTypes
    <3>2. QED
      BY <2>4, <2>5, <2>8, <2>10, <3>1
  <2>13. QED
    BY <2>1, <2>11, <2>12
<1>10. QED
  BY <1>1, <1>3, <1>4, <1>6, <1>7, <1>8, <1>9 DEF FulfilmentNext

-----------------------------------------------------------------------------
\* Inv is an inductive invariant of the Core service.
THEOREM Invariant == Spec => []Inv
<1>1. Inv /\ [Next]_vars => Inv'
  <2> SUFFICES ASSUME Inv, [Next]_vars
               PROVE  Inv'
    OBVIOUS
  <2>1. CASE Next
    BY <2>1, OrderStep, FulfilmentStep DEF Next
  <2>2. CASE UNCHANGED vars
    BY <2>2
    DEF Inv, TypeOK, vars, coreVars, fulfilVars, CoreTypes, ReadsAreSound, WorkOnlyAfterPaid, PaidSticks, PaidFor,
        RequestsHaveOrders, FulfilmentMovesOrder
  <2>3. QED
    BY <2>1, <2>2
<1>2. QED
  BY <1>1, InitInv, PTL DEF Spec

\* Every Core variable keeps its type.
THEOREM Types == Spec => []TypeOK
<1>1. Inv => TypeOK
  BY DEF Inv
<1>2. QED
  BY <1>1, Invariant, PTL

\* BR-02 as far as Core can know it, with pickups and deliveries.
THEOREM WorkFollowsPayment == Spec => []WorkOnlyAfterPaid
<1>1. Inv => WorkOnlyAfterPaid
  BY DEF Inv
<1>2. QED
  BY <1>1, Invariant, PTL

\* Completing a pickup or a delivery takes the order with it, with the exceptions
\* that FulfilmentMovesOrder names.
THEOREM FulfilmentTakesOrder == Spec => []FulfilmentMovesOrder
<1>1. Inv => FulfilmentMovesOrder
  BY DEF Inv
<1>2. QED
  BY <1>1, Invariant, PTL
=============================================================================
