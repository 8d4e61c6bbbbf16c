------------------------- MODULE OrderToCashProofs -------------------------
(***************************************************************************)
(* The composition of Core and Payment: money and work agree, for any sets *)
(* of orders, items, payments, refunds, concurrent requests and consumers. *)
(***************************************************************************)
EXTENDS OrderToCash, CoreOrdersProofs, PaymentsProofs

\* What Core received, processed or not, is in Payment's outbox.
EventsAreReal ==
  /\ processed \subseteq PaymentEvents
  /\ \A c \in Consumers : consuming[c] # Idle => consuming[c].event \in PaymentEvents

\* A status change in flight was valid when it was read; the order it read as
\* worked on had been charged, and still has.
ChangesAreSound ==
  \A q \in coreReqs : q.kind = "change" =>
    /\ IsValidTransition(q.from, q.to)
    /\ q.from \in WorkStarted => Charged(q.order)

\* A total, wherever it is held, is one that finalize-weighing announced.
TotalsWereBilled ==
  /\ \A o \in Orders : total[o] # NoTotal => [order |-> o, amount |-> total[o]] \in billed
  /\ \A q \in payReqs : q.kind = "pay" => [order |-> q.order, amount |-> q.amount] \in billed

\* A row that cancels an order in work or on hold is of a refund.
LateRowsAreRefunds ==
  \A h \in trail : h.to = "CANCELLED" /\ h.from \in WorkStarted \cup {"ON_HOLD"} => GaveBack(h.order)

\* Core shows PAID only for an order that was charged.
PaidIsReal == \A o \in Orders : payStatus[o] = "PAID" => Charged(o)

Inv ==
  /\ CoreTypes(Event, CoreRequest)
  /\ PayInv
  /\ EventsAreReal
  /\ ChangesAreSound
  /\ TotalsWereBilled
  /\ WorkOnlyIfCharged
  /\ PaidIsReal
  /\ RefundedIsReal
  /\ LateRowsAreRefunds
  /\ AmountWasBilled
  /\ PaidSticks

\* The sets the lemmas of CoreOrdersProofs speak about.
LEMMA SetsFit == GoodEvents(Event) /\ GoodRequests(CoreRequest)
  BY DEF GoodEvents, Event, GoodRequests

\* Every outbox row Payment has written is an event Core's types admit.
LEMMA EventsFit == PayInv => PaymentEvents \subseteq Event
  BY EventFacts DEF Event

\* Two empty databases satisfy the invariant.
LEMMA InitInv == Init => Inv
<1> SUFFICES ASSUME Init
             PROVE  Inv
  OBVIOUS
<1>1. PayInv
  BY PayInitInv DEF Init
<1>2. CoreTypes(Event, CoreRequest)
  BY FeesAssumption DEF Init, CoreInit, CoreTypes, PaymentStatuses
<1>3. EventsAreReal /\ ChangesAreSound /\ PaidSticks /\ LateRowsAreRefunds
  BY DEF Init, CoreInit, EventsAreReal, ChangesAreSound, PaidSticks, LateRowsAreRefunds
<1>4. TotalsWereBilled /\ AmountWasBilled
  BY DEF Init, CoreInit, PayInit, TotalsWereBilled, AmountWasBilled
<1>5. WorkOnlyIfCharged
  BY NoneAssumption DEF Init, CoreInit, WorkOnlyIfCharged, WorkStarted, OrderStatuses
<1>6. PaidIsReal /\ RefundedIsReal
  BY DEF Init, CoreInit, PaidIsReal, RefundedIsReal
<1>7. QED
  BY <1>1, <1>2, <1>3, <1>4, <1>5, <1>6 DEF Inv

-----------------------------------------------------------------------------
(***************************************************************************)
(* A step of Payment.  Core's variables stay; charges, refunds and events  *)
(* only accumulate.                                                        *)
(***************************************************************************)

\* An order that was charged, or given back, stays so.
LEMMA MoneyStays ==
  ASSUME PayInv, LedgerGrows, NEW o \in Orders
  PROVE  (Charged(o) => Charged(o)') /\ (GaveBack(o) => GaveBack(o)')
<1>1. ASSUME NEW t \in EventTypes, NEW p \in Payments, pOrder[p] = o, emitted[t][p] > 0
      PROVE  pOrder'[p] = o /\ emitted'[t][p] > 0
  BY <1>1 DEF LedgerGrows, PayInv, PayTypes, RowsAreWhole
<1>2. QED
  BY <1>1 DEF Charged, GaveBack, Charges, PaidBack, EventTypes

\* A step of Payment, which leaves Core's variables alone, keeps the invariant: the
\* events it has written, and the charges and refunds they count, only grow.
LEMMA PaymentStep ==
  ASSUME Inv, AskCore(CoreView) \/ PayLocal, UNCHANGED coreVars
  PROVE  Inv'
<1> USE DEF coreVars
<1>1. GoodView(CoreView)
  BY DEF GoodView, CoreView, OrderView, Inv, CoreTypes
<1>2. PayInv'
  BY <1>1, AskCoreInv, PayStepInv DEF Inv
<1>3. LedgerGrows /\ AmountsComeFrom(CoreView)
  BY AskCoreEffects, PayLocalEffects DEF Inv
<1>4. CoreTypes(Event, CoreRequest)' /\ PaidSticks'
  BY DEF Inv, CoreTypes, PaidSticks
<1>5. EventsAreReal'
  BY <1>3, EventsStay DEF Inv, EventsAreReal
<1>6. ChangesAreSound'
  <2>1. \A q \in coreReqs : q.kind = "change" => q.order \in Orders
    BY DEF Inv, CoreTypes, CoreRequest
  <2>2. QED
    BY <1>3, <2>1, MoneyStays DEF Inv, ChangesAreSound
<1>7. WorkOnlyIfCharged' /\ PaidIsReal' /\ RefundedIsReal'
  BY <1>3, MoneyStays DEF Inv, WorkOnlyIfCharged, PaidIsReal, RefundedIsReal
<1>8. LateRowsAreRefunds'
  <2>1. \A h \in trail : h.order \in Orders
    BY DEF Inv, CoreTypes
  <2>2. QED
    BY <1>3, <2>1, MoneyStays DEF Inv, LateRowsAreRefunds
<1>9. TotalsWereBilled'
  <2>1. \A q \in payReqs' : q.kind = "pay" => q.order \in Orders
    BY <1>2 DEF PayInv, PayTypes, PayRequest
  <2>2. \A o \in Orders : CoreView[o].total = total[o]
    BY DEF CoreView, OrderView
  <2>3. QED
    BY <1>3, <2>1, <2>2 DEF Inv, TotalsWereBilled, AmountsComeFrom
<1>10. AmountWasBilled'
  BY <1>3 DEF Inv, TotalsWereBilled, AmountWasBilled, AmountsComeFrom
<1>11. QED
  BY <1>2, <1>4, <1>5, <1>6, <1>7, <1>8, <1>9, <1>10 DEF Inv

-----------------------------------------------------------------------------
(***************************************************************************)
(* A step of Core.  Payment's variables stay, so does who was charged.     *)
(***************************************************************************)

\* A paid (refunded) event that is processed means that its order was charged (given back).
LEMMA AppliedIsReal ==
  ASSUME Inv, NEW o \in Orders
  PROVE  /\ Applied("payment.paid", o) => Charged(o)
         /\ Applied("payment.refunded", o) => GaveBack(o)
  BY EventFacts DEF Inv, EventsAreReal, Applied, Handling, Charged, GaveBack, Charges, PaidBack

\* A status change that has been read and waits to commit is one staff may ask for,
\* and leaves a work status only for an order that was charged.
LEMMA PendingIsSound ==
  ASSUME Inv, NEW o, NEW from, NEW to, Pending(o, from, to)
  PROVE  IsValidTransition(from, to) /\ (from \in WorkStarted => Charged(o))
  BY DEF Inv, ChangesAreSound, Pending

\* The properties that follow from CoreEffects.
LEMMA EffectsKeepMoney ==
  ASSUME Inv, CoreEffects, CoreTypes(Event, CoreRequest)', UNCHANGED payVars
  PROVE  /\ WorkOnlyIfCharged' /\ PaidIsReal' /\ RefundedIsReal' /\ LateRowsAreRefunds'
         /\ TotalsWereBilled' /\ AmountWasBilled' /\ PayInv'
<1>1. /\ \A o \in Orders : (Charged(o)' <=> Charged(o)) /\ (GaveBack(o)' <=> GaveBack(o))
      /\ PayInv'
  BY PayStutterInv DEF Inv, payVars, Charged, GaveBack, Charges, PaidBack
<1>2. WorkOnlyIfCharged'
  BY <1>1, AppliedIsReal, PendingIsSound, ValidTransitionFacts DEF Inv, WorkOnlyIfCharged, CoreEffects
<1>3. PaidIsReal' /\ RefundedIsReal'
  BY <1>1, AppliedIsReal DEF Inv, PaidIsReal, RefundedIsReal, CoreEffects
<1>4. LateRowsAreRefunds'
  <2>1. \A h \in trail' : h.order \in Orders
    BY DEF CoreTypes
  <2>2. QED
    BY <1>1, <2>1, AppliedIsReal, PendingIsSound, ValidTransitionFacts DEF Inv, LateRowsAreRefunds, CoreEffects
<1>5. TotalsWereBilled' /\ AmountWasBilled'
  BY DEF Inv, TotalsWereBilled, AmountWasBilled, CoreEffects, payVars
<1>6. QED
  BY <1>1, <1>2, <1>3, <1>4, <1>5

\* A step of one of Core's HTTP handlers keeps the invariant.
LEMMA CoreHttpStep ==
  ASSUME Inv, CoreHttpNext, UNCHANGED payVars
  PROVE  Inv'
<1>1. PaymentEvents' = PaymentEvents /\ \A o : Charged(o)' <=> Charged(o)
  BY DEF payVars, PaymentEvents, EventsOf, Charged, Charges
<1>2. ASSUME NEW o \in Orders, CreateOrder(o)
      PROVE  Inv'
  <2>1. CoreTypes(Event, CoreRequest)'
    BY <1>2, CreateOrderTypes DEF Inv
  <2>2. CoreEffects
    <3>1. "CREATED" \notin WorkStarted /\ "CREATED" # NoOrder
      BY NoneAssumption DEF WorkStarted, OrderStatuses
    <3>2. QED
      BY <1>2, <3>1 DEF CreateOrder, TransitionStatus, CoreEffects, Inv, CoreTypes
  <2>3. EventsAreReal' /\ ChangesAreSound' /\ PaidSticks'
    BY <1>1, <1>2 DEF CreateOrder, Inv, EventsAreReal, ChangesAreSound, PaidSticks
  <2>4. QED
    BY <2>1, <2>2, <2>3, EffectsKeepMoney DEF Inv
<1>3. ASSUME NEW r \in CoreReqs, StartCoreRequest(r)
      PROVE  Inv'
  <2>1. CoreTypes(Event, CoreRequest)'
    BY <1>3, StartTypes, SetsFit DEF Inv
  <2>2. CoreEffects
    BY <1>3, StartEffects DEF CoreEffects, orderVars
  <2>3. ChangesAreSound'
    <3>1. \A q \in coreReqs' : q.kind = "change" => q.order \in Orders
      BY <2>1 DEF CoreTypes, CoreRequest
    <3>2. QED
      BY <1>1, <1>3, <3>1, StartEffects DEF Inv, ChangesAreSound, WorkOnlyIfCharged
  <2>4. EventsAreReal' /\ PaidSticks'
    BY <1>1, <1>3, StartEffects DEF Inv, EventsAreReal, PaidSticks, orderVars, consumerVars
  <2>5. QED
    BY <2>1, <2>2, <2>3, <2>4, EffectsKeepMoney DEF Inv
<1>4. ASSUME NEW q \in coreReqs, CommitCoreRequest(q) \/ AbortCoreRequest(q)
      PROVE  Inv'
  <2>1. CoreTypes(Event, CoreRequest)'
    BY <1>4, CommitTypes, SetsFit DEF Inv
  <2>2. CoreEffects /\ coreReqs' \subseteq coreReqs /\ UNCHANGED <<payStatus, consumerVars>>
    BY <1>4, CommitEffects, SetsFit DEF Inv
  <2>3. EventsAreReal' /\ ChangesAreSound' /\ PaidSticks'
    BY <1>1, <2>2 DEF Inv, EventsAreReal, ChangesAreSound, PaidSticks, consumerVars
  <2>4. QED
    BY <2>1, <2>2, <2>3, EffectsKeepMoney DEF Inv
<1>5. QED
  BY <1>2, <1>3, <1>4 DEF CoreHttpNext

\* A step of one of Core's consumers keeps the invariant.
LEMMA CoreEventStep ==
  ASSUME Inv, CoreEventNext(PaymentEvents), UNCHANGED payVars
  PROVE  Inv'
<1>1. PaymentEvents' = PaymentEvents /\ \A o : Charged(o)' <=> Charged(o)
  BY DEF payVars, PaymentEvents, EventsOf, Charged, Charges
<1>2. PaymentEvents \subseteq Event
  BY EventsFit DEF Inv
<1>3. CoreTypes(Event, CoreRequest)'
  BY <1>2, EventTypesHold, SetsFit DEF Inv
<1>4. PaidSticks'
  BY <1>2, PaidSticksStep, SetsFit DEF Inv
<1>5. /\ CoreEffects
      /\ UNCHANGED coreReqs
      /\ \A e \in processed' : e \in processed \/ \E c \in Consumers : consuming[c] # Idle /\ e = consuming[c].event
      /\ \A c \in Consumers : consuming'[c] # Idle =>
           \/ consuming'[c].event \in PaymentEvents
           \/ consuming[c] # Idle /\ consuming'[c].event = consuming[c].event
  BY <1>2, EventEffects, SetsFit DEF Inv
<1>6. EventsAreReal' /\ ChangesAreSound'
  BY <1>1, <1>5 DEF Inv, EventsAreReal, ChangesAreSound
<1>7. QED
  BY <1>3, <1>4, <1>5, <1>6, EffectsKeepMoney DEF Inv

-----------------------------------------------------------------------------
\* Every step of the composition keeps the invariant.
LEMMA StepInv == Inv /\ [Next]_vars => Inv'
<1> SUFFICES ASSUME Inv, [Next]_vars
             PROVE  Inv'
  OBVIOUS
<1>1. CASE CoreHttpNext /\ UNCHANGED payVars
  BY <1>1, CoreHttpStep
<1>2. CASE CoreEventNext(PaymentEvents) /\ UNCHANGED payVars
  BY <1>2, CoreEventStep
<1>3. CASE (AskCore(CoreView) \/ PayLocal) /\ UNCHANGED coreVars
  BY <1>3, PaymentStep
<1>4. CASE UNCHANGED vars
  <2>1. PayInv'
    BY <1>4, PayStutterInv DEF Inv, vars
  <2>2. /\ CoreTypes(Event, CoreRequest)' /\ EventsAreReal' /\ ChangesAreSound' /\ TotalsWereBilled'
        /\ WorkOnlyIfCharged' /\ PaidIsReal' /\ RefundedIsReal' /\ LateRowsAreRefunds' /\ AmountWasBilled'
        /\ PaidSticks'
    BY <1>4
    DEF Inv, vars, coreVars, payVars, CoreTypes, EventsAreReal, ChangesAreSound, TotalsWereBilled,
        WorkOnlyIfCharged, PaidIsReal, RefundedIsReal, LateRowsAreRefunds, AmountWasBilled, PaidSticks,
        PaymentEvents, EventsOf, Charged, GaveBack, Charges, PaidBack
  <2>3. QED
    BY <2>1, <2>2 DEF Inv
<1>5. QED
  BY <1>1, <1>2, <1>3, <1>4 DEF Next

\* Inv is an inductive invariant of the composition.
THEOREM Invariant == Spec => []Inv
  BY InitInv, StepInv, PTL DEF Spec

\* Every variable of the two services keeps its type.
THEOREM Types == Spec => []TypeOK
<1>1. Inv => TypeOK
  BY DEF Inv, PayInv, TypeOK
<1>2. QED
  BY <1>1, Invariant, PTL

\* BR-02: the laundry works on, or completes, only an order that was charged.
THEOREM WorkIsPaidFor == Spec => []WorkOnlyIfCharged
<1>1. Inv => WorkOnlyIfCharged
  BY DEF Inv
<1>2. QED
  BY <1>1, Invariant, PTL

\* Core shows REFUNDED only for an order that was given its money back.
THEOREM RefundedMeansGivenBack == Spec => []RefundedIsReal
<1>1. Inv => RefundedIsReal
  BY DEF Inv
<1>2. QED
  BY <1>1, Invariant, PTL

\* No payment is for an amount that was not billed.
THEOREM AmountsWereBilled == Spec => []AmountWasBilled
<1>1. Inv => AmountWasBilled
  BY DEF Inv
<1>2. QED
  BY <1>1, Invariant, PTL

\* Late, repeated and reordered events never take a paid order back.
THEOREM PaidIsNotClobbered == Spec => []PaidSticks
<1>1. Inv => PaidSticks
  BY DEF Inv
<1>2. QED
  BY <1>1, Invariant, PTL

\* When an order's events have all been processed, a charged order shows it.
THEOREM ChargesAreProjected == Spec => []ChargeIsProjected
<1>1. Inv => ChargeIsProjected
  <2> SUFFICES ASSUME Inv, NEW o \in Orders, Charged(o),
                      \A e \in PaymentEvents : e.order = o => e \in processed
               PROVE  payStatus[o] \in {"PAID", "REFUNDED"}
    BY DEF ChargeIsProjected
  <2>1. PICK p \in Payments : pOrder[p] = o /\ Charges(p) > 0
    BY DEF Charged
  <2> DEFINE e == [type |-> "payment.paid", payment |-> p, order |-> o, n |-> 1]
  <2>2. e \in PaymentEvents
    BY <2>1, FirstEvent DEF Inv, Charges, EventTypes
  <2>3. QED
    BY <2>2 DEF Inv, PaidSticks
<1>2. QED
  BY <1>1, Invariant, PTL

-----------------------------------------------------------------------------
(***************************************************************************)
(* The refinement of Ledger: a step of Payment charges one order or gives  *)
(* back to one, a step of Core follows with one order.                     *)
(***************************************************************************)

\* A transaction of Payment is a Charge, a GiveBack or nothing to the ledger.
LEMMA PaymentRefines ==
  ASSUME Inv, Inv', PayLocal, UNCHANGED coreVars
  PROVE  [L!Next]_(L!ledgerVars)
<1> USE DEF Inv, coreVars
<1>1. LedgerGrows
  BY PayLocalEffects
<1>2. UNCHANGED <<payStatus, {o \in Orders : status[o] \in WorkStarted}>>
  OBVIOUS
<1>3. CASE UNCHANGED <<pOrder, emitted>>
  BY <1>2, <1>3 DEF L!ledgerVars, Charged, GaveBack, Charges, PaidBack
<1>4. ASSUME NEW p \in Payments, OneRow(p), NEW o \in Orders, o = pOrder'[p]
      PROVE  [L!Next]_(L!ledgerVars)
  <2>1. o \in Orders
    OBVIOUS
  <2>2. \A x \in Orders \ {o} : (Charged(x)' <=> Charged(x)) /\ (GaveBack(x)' <=> GaveBack(x))
    <3>1. \A x \in Orders \ {o}, t \in EventTypes, y \in Payments :
            (pOrder[y] = x /\ emitted[t][y] > 0) <=> (pOrder'[y] = x /\ emitted'[t][y] > 0)
      <4>1. ASSUME NEW x \in Orders \ {o}, NEW t \in EventTypes
            PROVE  ~(pOrder[p] = x /\ emitted[t][p] > 0)
        BY <1>1, <1>4 DEF LedgerGrows, PayInv, PayTypes, RowsAreWhole
      <4>2. ASSUME NEW x \in Orders \ {o}, NEW t \in EventTypes, NEW y \in Payments
            PROVE  (pOrder[y] = x /\ emitted[t][y] > 0) <=> (pOrder'[y] = x /\ emitted'[t][y] > 0)
        <5>1. CASE y = p
          BY <1>4, <4>1, <5>1
        <5>2. CASE y # p
          BY <1>4, <5>2 DEF OneRow
        <5>3. QED
          BY <5>1, <5>2
      <4>3. QED
        BY <4>2
    <3>2. QED
      BY <3>1 DEF Charged, GaveBack, Charges, PaidBack, EventTypes
  <2>3. (Charged(o) => Charged(o)') /\ (GaveBack(o) => GaveBack(o)')
    BY <1>1, <2>1, MoneyStays
  <2>4. ASSUME NEW t \in EventTypes, emitted'[t][p] = emitted[t][p],
               NEW y \in Payments, pOrder'[y] = o, emitted'[t][y] > 0
        PROVE  pOrder[y] = o /\ emitted[t][y] > 0
    <3>1. CASE y = p
      BY <1>1, <1>4, <2>4, <3>1 DEF LedgerGrows, PayInv, PayTypes, RowsAreWhole
    <3>2. CASE y # p
      BY <1>4, <2>4, <3>2 DEF OneRow
    <3>3. QED
      BY <3>1, <3>2
  <2>5. CASE emitted'["payment.refunded"][p] = emitted["payment.refunded"][p]
    <3>1. GaveBack(o)' <=> GaveBack(o)
      BY <2>3, <2>4, <2>5 DEF GaveBack, PaidBack, EventTypes
    <3>2. {x \in Orders : GaveBack(x)}' = {x \in Orders : GaveBack(x)}
      BY <2>2, <3>1
    <3>3. {x \in Orders : Charged(x)}' \in {{x \in Orders : Charged(x)}, {x \in Orders : Charged(x)} \cup {o}}
      BY <2>1, <2>2, <2>3
    <3>4. L!Charge(o) \/ UNCHANGED L!ledgerVars
      BY <1>2, <3>2, <3>3 DEF L!Charge, L!ledgerVars
    <3>5. QED
      BY <2>1, <3>4 DEF L!Next
  <2>6. CASE emitted'["payment.paid"][p] = emitted["payment.paid"][p]
    <3>1. Charged(o)' <=> Charged(o)
      BY <2>3, <2>4, <2>6 DEF Charged, Charges, EventTypes
    <3>2. {x \in Orders : Charged(x)}' = {x \in Orders : Charged(x)}
      BY <2>2, <3>1
    <3>3. {x \in Orders : GaveBack(x)}' \in {{x \in Orders : GaveBack(x)}, {x \in Orders : GaveBack(x)} \cup {o}}
      BY <2>1, <2>2, <2>3
    <3>4. CASE GaveBack(o)'
      <4>1. Charged(o)'
        BY <3>4 DEF PayInv, RefundOnlyIfCharged, GaveBack, Charged
      <4>2. L!GiveBack(o) \/ UNCHANGED L!ledgerVars
        BY <1>2, <2>1, <3>1, <3>2, <3>3, <4>1 DEF L!GiveBack, L!ledgerVars
      <4>3. QED
        BY <2>1, <4>2 DEF L!Next
    <3>5. CASE ~GaveBack(o)'
      <4>1. {x \in Orders : GaveBack(x)}' = {x \in Orders : GaveBack(x)}
        BY <2>2, <2>3, <3>5
      <4>2. QED
        BY <1>2, <3>2, <4>1 DEF L!ledgerVars
    <3>6. QED
      BY <3>4, <3>5
  <2>7. QED
    BY <1>4, <2>5, <2>6 DEF OneRow
<1>5. QED
  BY <1>3, <1>4, OneRowAtATime DEF OneRow

\* A step of Core makes one order follow the ledger, or changes nothing in it.
LEMMA CoreRefines ==
  ASSUME Inv, Inv', OneOrderMoves, UNCHANGED payVars
  PROVE  [L!Next]_(L!ledgerVars)
<1> USE DEF Inv
<1>1. UNCHANGED <<{o \in Orders : Charged(o)}, {o \in Orders : GaveBack(o)}>>
  BY DEF payVars, Charged, GaveBack, Charges, PaidBack
<1>2. CASE UNCHANGED <<status, payStatus>>
  BY <1>1, <1>2 DEF L!ledgerVars
<1>3. ASSUME NEW o \in Orders, OnlyOrder(o)
      PROVE  L!Follow(o)
  <2>1. payStatus'[o] \in PaymentStatuses /\ payStatus' = [payStatus EXCEPT ![o] = payStatus'[o]]
    BY <1>3 DEF OnlyOrder, CoreTypes
  <2>2. (Charged(o)' <=> Charged(o)) /\ (GaveBack(o)' <=> GaveBack(o))
    BY DEF payVars, Charged, GaveBack, Charges, PaidBack
  <2>3. L!MayShow(o, payStatus'[o])
    BY <1>3, <2>2 DEF L!MayShow, L!Settled, OnlyOrder, PaidIsReal, RefundedIsReal
  <2> DEFINE W == {x \in Orders : status[x] \in WorkStarted}
  <2>4. \/ W' = W
        \/ W' = W \ {o}
        \/ Charged(o) /\ W' = W \cup {o}
    <3>1. \A x \in Orders \ {o} : status'[x] = status[x]
      BY <1>3 DEF OnlyOrder, CoreTypes
    <3>2. CASE status'[o] \in WorkStarted
      <4>1. Charged(o)
        BY <2>2, <3>2 DEF WorkOnlyIfCharged
      <4>2. W' = W \cup {o}
        BY <3>1, <3>2
      <4>3. QED
        BY <4>1, <4>2
    <3>3. CASE status'[o] \notin WorkStarted
      BY <3>1, <3>3
    <3>4. QED
      BY <3>2, <3>3
  <2>5. QED
    BY <1>1, <2>1, <2>3, <2>4 DEF L!Follow, L!PaymentStatuses, PaymentStatuses
<1>4. QED
  BY <1>2, <1>3 DEF OneOrderMoves, L!Next

\* A step of the two services is a step of the ledger, or a stutter.
LEMMA StepRefines ==
  ASSUME Inv, Inv', [Next]_vars
  PROVE  [L!Next]_(L!ledgerVars)
<1>1. CASE (AskCore(CoreView) \/ PayLocal) /\ UNCHANGED coreVars
  <2>1. CASE PayLocal
    BY <1>1, <2>1, PaymentRefines
  <2>2. CASE AskCore(CoreView)
    <3>1. UNCHANGED <<pOrder, emitted>>
      BY <2>2 DEF AskCore, FetchForPayment, FetchForRefund, paymentVars
    <3>2. QED
      BY <1>1, <3>1 DEF coreVars, L!ledgerVars, Charged, GaveBack, Charges, PaidBack
  <2>3. QED
    BY <1>1, <2>1, <2>2
<1>2. CASE CoreHttpNext /\ UNCHANGED payVars
  <2>1. ASSUME NEW o \in Orders, CreateOrder(o)
        PROVE  OnlyOrder(o)
    BY <2>1 DEF CreateOrder, TransitionStatus, OnlyOrder, Inv, CoreTypes
  <2>2. ASSUME NEW r \in CoreReqs, StartCoreRequest(r)
        PROVE  UNCHANGED <<status, payStatus>>
    BY <2>2, StartEffects DEF orderVars
  <2>3. ASSUME NEW q \in coreReqs, CommitCoreRequest(q) \/ AbortCoreRequest(q)
        PROVE  OneOrderMoves
    BY <2>3, CommitMovesOne, SetsFit DEF Inv
  <2>4. OneOrderMoves
    BY <1>2, <2>1, <2>2, <2>3 DEF CoreHttpNext, OneOrderMoves
  <2>5. QED
    BY <1>2, <2>4, CoreRefines
<1>3. CASE CoreEventNext(PaymentEvents) /\ UNCHANGED payVars
  <2>1. PaymentEvents \subseteq Event
    BY EventsFit DEF Inv
  <2>2. OneOrderMoves
    BY <1>3, <2>1, EventMovesOne, SetsFit DEF Inv
  <2>3. QED
    BY <1>3, <2>2, CoreRefines
<1>4. CASE UNCHANGED vars
  BY <1>4
  DEF vars, coreVars, payVars, L!ledgerVars, Charged, GaveBack, Charges, PaidBack
<1>5. QED
  BY <1>1, <1>2, <1>3, <1>4 DEF Next

\* The two services implement the ledger: what Core shows of an order's payment,
\* and whether it works on it, never runs ahead of the money, though no
\* transaction spans the services.
THEOREM Refinement == Spec => ImplementsLedger
<1>1. Init => L!Init
  <2> SUFFICES ASSUME Init
               PROVE  L!Init
    OBVIOUS
  <2>1. \A o \in Orders : ~Charged(o) /\ ~GaveBack(o)
    BY DEF Init, PayInit, Charged, GaveBack, Charges, PaidBack, EventTypes
  <2>2. \A o \in Orders : status[o] \notin WorkStarted
    BY NoneAssumption DEF Init, CoreInit, WorkStarted, OrderStatuses
  <2>3. QED
    BY <2>1, <2>2 DEF L!Init, Init, CoreInit
<1>2. Inv /\ Inv' /\ [Next]_vars => [L!Next]_(L!ledgerVars)
  BY StepRefines
<1>3. QED
  BY <1>1, <1>2, Invariant, PTL DEF Spec, ImplementsLedger, L!Spec

-----------------------------------------------------------------------------
(***************************************************************************)
(* The history rows.  A snapshot, however stale, holds a status that the   *)
(* order once entered, and the row that says so is never deleted.  Every   *)
(* transition goes up the life cycle (Rank), so that an order none of      *)
(* whose statuses was overwritten unread never enters one twice.           *)
(***************************************************************************)
Entered(o, s) == s = NoOrder \/ \E g \in trail : g.order = o /\ g.to = s

Rank(s) ==
  CASE s = NoOrder -> 0
    [] s = "CREATED" -> 1
    [] s = "RECEIVED" -> 2
    [] s = "WEIGHING" -> 3
    [] s = "WASHING" -> 4
    [] s = "DRYING" -> 5
    [] s = "IRONING" -> 6
    [] s = "PACKING" -> 7
    [] s = "READY" -> 8
    [] s = "PICKED_UP" -> 9
    [] s = "DELIVERED" -> 9
    [] s = "COMPLETED" -> 10
    [] s = "ON_HOLD" -> 11
    [] s = "CANCELLED" -> 12
    [] OTHER -> 0

\* The rows of an order go up the life cycle to its status, and if that is
\* CANCELLED for an order that was worked on, money was given back.
PathInv(o) ==
  /\ \A h \in RowsOf(o) : Rank(h.from) < Rank(h.to) /\ Rank(h.to) <= Rank(status[o])
  /\ \A g, h \in RowsOf(o) : g.from = h.from \/ g.to = h.to => g = h
  /\ status[o] = "CANCELLED" /\ Worked(o) => GaveBack(o)

TrailInv ==
  /\ \A h \in trail : Entered(h.order, h.from)
  /\ \A o \in Orders : Entered(o, status[o])
  /\ \A q \in coreReqs : q.kind \in {"change", "weigh"} => Entered(q.order, q.from)
  /\ \A c \in Consumers : consuming[c] # Idle => Entered(consuming[c].event.order, consuming[c].status)
  /\ \A o \in Orders \ stale : PathInv(o)

\* The rank of a status is a number; only CANCELLED has the highest, and work
\* and hold come after what staff may cancel.
LEMMA RankFacts ==
  ASSUME NEW s \in OrderStatuses \cup {NoOrder}
  PROVE  /\ Rank(s) \in Nat
         /\ s # "CANCELLED" => Rank(s) < Rank("CANCELLED")
         /\ s \in WorkStarted \cup {"ON_HOLD"} => Rank("WASHING") <= Rank(s)
<1>1. NoOrder \notin OrderStatuses
  BY NoneAssumption
<1>2. Rank("CANCELLED") = 12 /\ Rank("WASHING") = 4
  BY <1>1 DEF Rank, OrderStatuses
<1>3. Rank(NoOrder) = 0
  BY <1>1 DEF Rank, OrderStatuses
<1>4. WorkStarted \cup {"CANCELLED", "ON_HOLD"} \subseteq OrderStatuses
  BY DEF WorkStarted, OrderStatuses
<1>5. CASE s = NoOrder
  BY <1>1, <1>2, <1>3, <1>4, <1>5
<1>6. CASE s \in OrderStatuses
  <2>1. s # NoOrder
    BY <1>1, <1>6
  <2>2. Rank(s) \in 1..12
    BY <1>6, <2>1 DEF Rank, OrderStatuses
  <2>3. s # "CANCELLED" => Rank(s) \in 1..11
    BY <1>6, <2>1 DEF Rank, OrderStatuses
  <2>4. s \in WorkStarted \cup {"ON_HOLD"} => Rank(s) \in 4..11
    BY <1>6, <2>1 DEF Rank, WorkStarted
  <2>5. Rank(s) \in Nat /\ (s # "CANCELLED" => Rank(s) < 12)
    BY <2>2, <2>3
  <2>6. s \in WorkStarted \cup {"ON_HOLD"} => 4 <= Rank(s)
    BY <2>4
  <2>7. QED
    BY <1>2, <2>5, <2>6
<1>7. QED
  BY <1>5, <1>6

\* What staff may ask for goes up the life cycle, and to CANCELLED only before work.
LEMMA TransitionsRise ==
  ASSUME NEW from, NEW to, IsValidTransition(from, to)
  PROVE  /\ from \in OrderStatuses /\ to \in OrderStatuses
         /\ Rank(from) < Rank(to)
         /\ to = "CANCELLED" => Rank(from) < Rank("WASHING")
<1>1. from \in OrderStatuses /\ to \in OrderStatuses
  BY DEF IsValidTransition, Transitions, OrderStatuses
<1>2. from # NoOrder /\ to # NoOrder
  BY <1>1, NoneAssumption
<1>3. NoOrder \notin OrderStatuses
  BY NoneAssumption
<1>4. Rank(from) < Rank(to)
  BY <1>2, <1>3 DEF IsValidTransition, Transitions, Rank, OrderStatuses
<1>5. to = "CANCELLED" => Rank(from) < Rank("WASHING")
  BY <1>2, <1>3 DEF IsValidTransition, Transitions, Rank, OrderStatuses
<1>6. QED
  BY <1>1, <1>4, <1>5

\* So do the transitions no one asks for.
LEMMA InternalTransitionsRise ==
  /\ Rank(NoOrder) < Rank("CREATED")
  /\ Rank("RECEIVED") < Rank("WEIGHING")
  /\ Rank("WEIGHING") < Rank("WASHING")
  BY NoneAssumption DEF Rank, OrderStatuses

\* A transition of an order out of the status it is in keeps its rows one path.
LEMMA TransitionKeepsPath ==
  ASSUME Inv, CoreTypes(Event, CoreRequest)', UNCHANGED payVars,
         NEW o \in Orders, NEW from, NEW to, TransitionStatus(o, from, to),
         Rank(from) < Rank(to), to = "CANCELLED" => Rank(from) < Rank("WASHING") \/ GaveBack(o),
         NEW x \in Orders \ stale', PathInv(x)
  PROVE  PathInv(x)'
<1> DEFINE row == [order |-> o, from |-> from, to |-> to]
<1>1. trail' = trail \cup {row} /\ status' = [status EXCEPT ![o] = to]
  BY DEF TransitionStatus
<1>2. row.order = o /\ row.from = from /\ row.to = to
  OBVIOUS
<1>3. o \notin stale' => from = status[o]
  BY DEF TransitionStatus, Inv, CoreTypes
<1>4. GaveBack(x)' <=> GaveBack(x)
  BY DEF payVars, GaveBack, PaidBack
<1> HIDE DEF row
<1>5. status \in [Orders -> OrderStatuses \cup {NoOrder}] /\ status' \in [Orders -> OrderStatuses \cup {NoOrder}]
  BY DEF Inv, CoreTypes
<1>6. \A h \in trail' : h.from \in OrderStatuses \cup {NoOrder} /\ h.to \in OrderStatuses \cup {NoOrder}
  BY DEF CoreTypes
<1>7. CASE x # o
  <2>1. RowsOf(x)' = RowsOf(x) /\ status'[x] = status[x]
    BY <1>1, <1>2, <1>5, <1>7 DEF RowsOf
  <2>2. QED
    BY <1>4, <2>1 DEF PathInv, Worked
<1>8. CASE x = o
  <2>1. /\ RowsOf(o)' = RowsOf(o) \cup {row}
        /\ from = status[o]
        /\ status'[o] = to
    BY <1>1, <1>2, <1>3, <1>5, <1>8 DEF RowsOf
  <2>2. \A h \in RowsOf(o)' : Rank(h.from) \in Nat /\ Rank(h.to) \in Nat
    BY <1>6, RankFacts DEF RowsOf
  <2>3. \A h \in RowsOf(o) : Rank(h.from) < Rank(h.to) /\ Rank(h.to) <= Rank(from)
    BY <1>8, <2>1 DEF PathInv
  <2>4. row \in RowsOf(o)' /\ Rank(from) \in Nat /\ Rank(to) \in Nat
    BY <1>2, <2>1, <2>2
  <2>5. \A h \in RowsOf(o)' : Rank(h.from) < Rank(h.to) /\ Rank(h.to) <= Rank(to)
    BY <1>2, <2>1, <2>2, <2>3, <2>4
  <2>6. \A h \in RowsOf(o) : h.from # row.from /\ h.to # row.to
    BY <1>2, <2>1, <2>2, <2>3, <2>4
  <2>7. \A g, h \in RowsOf(o)' : g.from = h.from \/ g.to = h.to => g = h
    BY <1>8, <2>1, <2>6 DEF PathInv
  <2>8. ASSUME to = "CANCELLED", Worked(o)'
        PROVE  GaveBack(o)
    <3>1. PICK h \in RowsOf(o)' : h.to \in WorkStarted \cup {"ON_HOLD"}
      BY <2>8 DEF Worked
    <3>2. h \in RowsOf(o)
      BY <1>2, <2>1, <2>8, <3>1 DEF WorkStarted
    <3>3. Rank("WASHING") <= Rank(h.to) /\ Rank("WASHING") \in Nat
      BY <1>6, <3>1, RankFacts DEF RowsOf, OrderStatuses
    <3>4. ~ Rank(from) < Rank("WASHING")
      BY <2>2, <2>3, <2>4, <3>1, <3>2, <3>3
    <3>5. QED
      BY <2>8, <3>4
  <2>9. QED
    BY <1>4, <1>8, <2>1, <2>5, <2>7, <2>8 DEF PathInv
<1>9. QED
  BY <1>7, <1>8

\* A transition out of a status that its order has entered adds one it enters.
LEMMA TransitionKeepsTrail ==
  ASSUME Inv, CoreTypes(Event, CoreRequest)', TrailInv, UNCHANGED payVars,
         NEW o \in Orders, NEW from, NEW to, Entered(o, from),
         TransitionStatus(o, from, to), coreReqs' \subseteq coreReqs,
         \A c \in Consumers : consuming'[c] \in {Idle, consuming[c]},
         Rank(from) < Rank(to), to = "CANCELLED" => Rank(from) < Rank("WASHING") \/ GaveBack(o)
  PROVE  TrailInv'
<1> DEFINE row == [order |-> o, from |-> from, to |-> to]
<1>1. /\ trail' = trail \cup {row}
      /\ \A x \in Orders : status'[x] = IF x = o THEN to ELSE status[x]
      /\ stale \subseteq stale'
  BY DEF TransitionStatus, Inv, CoreTypes
<1>2. row.order = o /\ row.from = from /\ row.to = to
  OBVIOUS
<1> HIDE DEF row
<1>3. /\ \A x, s : Entered(x, s) => Entered(x, s)'
      /\ Entered(o, to)'
  BY <1>1, <1>2 DEF Entered
<1>4. \A h \in trail' : Entered(h.order, h.from)'
  BY <1>1, <1>2, <1>3 DEF TrailInv
<1>5. \A x \in Orders : Entered(x, status[x])'
  BY <1>1, <1>3 DEF TrailInv
<1>6. \A x \in Orders \ stale' : PathInv(x)'
  BY <1>1, TransitionKeepsPath DEF TrailInv
<1>7. QED
  BY <1>3, <1>4, <1>5, <1>6 DEF TrailInv

\* What writes no history row and no status, and takes no refund back, leaves the
\* rest as sound as it found it.
LEMMA ReadKeepsTrail ==
  ASSUME TrailInv, UNCHANGED <<status, trail, stale>>,
         \A o \in Orders : GaveBack(o) => GaveBack(o)',
         \A q \in coreReqs' : \/ q \in coreReqs
                              \/ q.kind \in {"change", "weigh"} => Entered(q.order, q.from),
         \A c \in Consumers : \/ consuming'[c] \in {Idle, consuming[c]}
                              \/ Entered(consuming'[c].event.order, consuming'[c].status)
  PROVE  TrailInv'
<1>1. \A x, s : Entered(x, s)' <=> Entered(x, s)
  BY DEF Entered
<1>2. \A o \in Orders \ stale' : PathInv(o)'
  BY DEF TrailInv, PathInv, RowsOf, Worked
<1>3. QED
  BY <1>1, <1>2 DEF TrailInv

LEMMA HttpKeepsTrail ==
  ASSUME Inv, Inv', TrailInv, CoreHttpNext, UNCHANGED payVars
  PROVE  TrailInv'
<1> USE DEF Inv
<1>1. \A o \in Orders : GaveBack(o)' <=> GaveBack(o)
  BY DEF payVars, GaveBack, PaidBack
<1>2. ASSUME NEW o \in Orders, CreateOrder(o)
      PROVE  TrailInv'
  BY <1>2, TransitionKeepsTrail, InternalTransitionsRise DEF CreateOrder, Entered
<1>3. ASSUME NEW r \in CoreReqs, StartCoreRequest(r)
      PROVE  TrailInv'
  <2>1. PICK o \in Orders :
          \/ \E to \in OrderStatuses : ReadForStatusChange(r, o, to)
          \/ \E i \in Items, kg \in Weights : ReadForWeighing(r, o, i, kg)
          \/ \E f \in Fees \cup {fee[o]}, t \in TaxRates : ReadForFinalize(r, o, f, t)
    BY <1>3 DEF StartCoreRequest
  <2>2. \A q \in coreReqs' : q \in coreReqs \/ (q.kind \in {"change", "weigh"} => q.order = o /\ q.from = status[o])
    BY <2>1 DEF ReadForStatusChange, ReadForWeighing, ReadForFinalize, Serve
  <2>3. UNCHANGED <<status, trail, stale, consuming>>
    BY <2>1 DEF ReadForStatusChange, ReadForWeighing, ReadForFinalize, orderVars, consumerVars
  <2>4. Entered(o, status[o])
    BY DEF TrailInv
  <2>5. QED
    BY <1>1, <2>2, <2>3, <2>4, ReadKeepsTrail
<1>4. ASSUME NEW q \in coreReqs, CommitCoreRequest(q) \/ AbortCoreRequest(q)
      PROVE  TrailInv'
  <2>1. q.order \in Orders
    BY DEF CoreTypes, CoreRequest
  <2>2. coreReqs' \subseteq coreReqs /\ consuming' = consuming
    BY <1>4
    DEF CommitCoreRequest, CommitStatusChange, CommitWeight, CommitFinalize, AbortCoreRequest, Finish,
        consumerVars
  <2>3. CASE CommitStatusChange(q)
    <3>1. Rank(q.from) < Rank(q.to) /\ (q.to = "CANCELLED" => Rank(q.from) < Rank("WASHING"))
      BY <2>3, TransitionsRise DEF CommitStatusChange, ChangesAreSound
    <3>2. QED
      BY <2>1, <2>2, <2>3, <3>1, TransitionKeepsTrail DEF CommitStatusChange, TrailInv
  <2>4. CASE CommitWeight(q) /\ q.from = "RECEIVED"
    BY <2>1, <2>2, <2>4, TransitionKeepsTrail, InternalTransitionsRise DEF CommitWeight, TrailInv
  <2>5. CASE \/ CommitWeight(q) /\ q.from # "RECEIVED"
             \/ CommitFinalize(q)
             \/ AbortCoreRequest(q)
    <3>1. UNCHANGED <<status, trail, stale>>
      BY <2>5 DEF CommitWeight, CommitFinalize, AbortCoreRequest, orderVars
    <3>2. QED
      BY <1>1, <2>2, <3>1, ReadKeepsTrail
  <2>6. QED
    BY <1>4, <2>3, <2>4, <2>5 DEF CommitCoreRequest
<1>5. QED
  BY <1>2, <1>3, <1>4 DEF CoreHttpNext

LEMMA EventKeepsTrail ==
  ASSUME Inv, Inv', TrailInv, NEW deliverable, CoreEventNext(deliverable), UNCHANGED payVars
  PROVE  TrailInv'
<1>1. PICK c \in Consumers : \/ \E e \in deliverable : ReceiveEvent(c, e)
                             \/ HandleEvent(c)
                             \/ ConsumerFails(c)
  BY DEF CoreEventNext
<1>2. DOMAIN consuming = Consumers /\ \A o \in Orders : GaveBack(o)' <=> GaveBack(o)
  BY DEF Inv, CoreTypes, payVars, GaveBack, PaidBack
<1>3. consuming[c] # Idle =>
        /\ consuming[c].event.order \in Orders
        /\ consuming[c].status \in OrderStatuses \cup {NoOrder}
  BY SetsFit DEF Inv, CoreTypes, Task, GoodEvents
<1>4. CASE \E e \in deliverable : ReceiveEvent(c, e)
  BY <1>2, <1>4, ReadKeepsTrail DEF ReceiveEvent, Entered, orderVars
<1>5. CASE ReadForRefunded(c)
  <2>1. Entered(consuming[c].event.order, status[consuming[c].event.order])
    BY <1>3, <1>5 DEF ReadForRefunded, Handling, TrailInv
  <2>2. QED
    BY <1>2, <1>5, <2>1, ReadKeepsTrail DEF ReadForRefunded, orderVars
<1>6. ASSUME MarkProcessed(c), UNCHANGED <<status, trail, stale, coreReqs>>
      PROVE  TrailInv'
  BY <1>2, <1>6, ReadKeepsTrail DEF MarkProcessed
<1>7. ASSUME MarkProcessed(c), UNCHANGED coreReqs, consuming[c] # Idle,
             NEW from, NEW to, TransitionStatus(consuming[c].event.order, from, to),
             Entered(consuming[c].event.order, from), Rank(from) < Rank(to),
             to = "CANCELLED" => GaveBack(consuming[c].event.order)
      PROVE  TrailInv'
  <2>1. \A d \in Consumers : consuming'[d] \in {Idle, consuming[d]}
    BY <1>2, <1>7 DEF MarkProcessed
  <2>2. QED
    BY <1>3, <1>7, <2>1, TransitionKeepsTrail DEF Inv
<1>8. CASE HandlePaymentCreated(c) \/ HandlePaymentFailed(c)
  BY <1>6, <1>8 DEF HandlePaymentCreated, HandlePaymentFailed, ProjectPaymentStatusIf
<1>9. CASE HandlePaymentPaid(c)
  <2>1. Entered(consuming[c].event.order, status[consuming[c].event.order])
    BY <1>3, <1>9 DEF HandlePaymentPaid, Handling, TrailInv
  <2>2. QED
    BY <1>6, <1>7, <1>9, <2>1, InternalTransitionsRise DEF HandlePaymentPaid, Handling
<1>10. CASE HandlePaymentRefunded(c)
  <2>1. Entered(consuming[c].event.order, consuming[c].status)
    BY <1>10 DEF HandlePaymentRefunded, Handling, TrailInv
  <2>2. GaveBack(consuming[c].event.order)
    <3>1. consuming[c] # Idle /\ consuming[c].event.type = "payment.refunded"
      BY <1>10 DEF HandlePaymentRefunded, Handling
    <3>2. Applied("payment.refunded", consuming[c].event.order)
      BY <1>10, <3>1 DEF HandlePaymentRefunded, MarkProcessed, Applied, Handling
    <3>3. QED
      BY <1>3, <3>1, <3>2, AppliedIsReal
  <2>3. consuming[c].status # "CANCELLED" => Rank(consuming[c].status) < Rank("CANCELLED")
    BY <1>3, <1>10, RankFacts DEF HandlePaymentRefunded, Handling
  <2>4. CASE consuming[c].status = "CANCELLED"
    BY <1>6, <1>10, <2>4 DEF HandlePaymentRefunded
  <2>5. CASE consuming[c].status # "CANCELLED"
    BY <1>7, <1>10, <2>1, <2>2, <2>3, <2>5 DEF HandlePaymentRefunded, Handling
  <2>6. QED
    BY <2>4, <2>5
<1>11. CASE ConsumerFails(c)
  BY <1>2, <1>11, ReadKeepsTrail DEF ConsumerFails, orderVars
<1>12. QED
  BY <1>1, <1>4, <1>5, <1>8, <1>9, <1>10, <1>11 DEF HandleEvent

\* What the rows of an order say follows it through every behaviour.
LEMMA TrailInvariant == Spec => []TrailInv
<1>1. Init => TrailInv
  BY DEF Init, CoreInit, TrailInv, Entered, PathInv, RowsOf, Worked
<1>2. Inv /\ Inv' /\ TrailInv /\ [Next]_vars => TrailInv'
  <2> SUFFICES ASSUME Inv, Inv', TrailInv, [Next]_vars
               PROVE  TrailInv'
    OBVIOUS
  <2>1. CASE UNCHANGED coreVars
    <3>1. \A o \in Orders : GaveBack(o) => GaveBack(o)'
      <4>1. CASE UNCHANGED payVars
        BY <4>1 DEF payVars, GaveBack, PaidBack
      <4>2. CASE AskCore(CoreView) \/ PayLocal
        BY <4>2, MoneyStays, AskCoreEffects, PayLocalEffects DEF Inv
      <4>3. QED
        BY <4>1, <4>2 DEF Next, vars
    <3>2. QED
      BY <2>1, <3>1, ReadKeepsTrail DEF coreVars
  <2>2. QED
    BY <2>1, HttpKeepsTrail, EventKeepsTrail DEF Next, vars
<1>3. QED
  BY <1>1, <1>2, Invariant, PTL DEF Spec

\* A history row leaves only a status that its order had entered, and the rows of
\* an order none of whose statuses was overwritten unread are one path to it.
THEOREM TrailStaysConnected == Spec => []TrailIsConnected
<1>1. Inv /\ TrailInv => TrailIsConnected
  <2> SUFFICES ASSUME Inv, TrailInv
               PROVE  TrailIsConnected
    OBVIOUS
  <2>1. \A h \in trail : h.from # NoOrder => \E g \in trail : g.order = h.order /\ g.to = h.from
    BY DEF TrailInv, Entered
  <2>2. ASSUME NEW o \in Orders \ stale
        PROVE  /\ \A g, h \in RowsOf(o) : g.from = h.from \/ g.to = h.to => g = h
               /\ \A h \in RowsOf(o) : h.from # status[o]
               /\ status[o] # NoOrder => \E h \in RowsOf(o) : h.to = status[o]
    <3>1. PathInv(o) /\ Entered(o, status[o])
      BY DEF TrailInv
    <3>2. \A h \in RowsOf(o) : Rank(h.from) \in Nat /\ Rank(h.to) \in Nat
      BY RankFacts DEF Inv, CoreTypes, RowsOf
    <3>3. Rank(status[o]) \in Nat
      BY RankFacts DEF Inv, CoreTypes
    <3>4. \A h \in RowsOf(o) : h.from # status[o]
      BY <3>1, <3>2, <3>3 DEF PathInv
    <3>5. status[o] # NoOrder => \E h \in RowsOf(o) : h.to = status[o]
      BY <3>1 DEF Entered, RowsOf
    <3>6. QED
      BY <3>1, <3>4, <3>5 DEF PathInv
  <2>3. QED
    BY <2>1, <2>2 DEF TrailIsConnected
<1>2. QED
  BY <1>1, Invariant, TrailInvariant, PTL

\* An order that was worked on is cancelled without a refund only by a commit that
\* overwrote a status it had not read, and no history row says otherwise.
THEOREM LateCancelsAreRefunds == Spec => []LateCancelIsRefund
<1>1. Inv /\ TrailInv => LateCancelIsRefund
  BY DEF Inv, TrailInv, PathInv, LateRowsAreRefunds, LateCancelIsRefund
<1>2. QED
  BY <1>1, Invariant, TrailInvariant, PTL
=============================================================================
