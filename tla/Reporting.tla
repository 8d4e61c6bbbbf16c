----------------------------- MODULE Reporting ------------------------------
(***************************************************************************)
(* The Reporting service: projections of order and payment events into     *)
(* summary tables.  An event is delivered at least once, in any order, to  *)
(* any of the consume loops; each loop asks processed_events outside a     *)
(* transaction, and then projects the event in one transaction that marks  *)
(* it as processed.  One outlet stands for all: no statement looks at two. *)
(* An event's day is the date of its sales row and of the report that      *)
(* shows it, as if services and clients were in one time zone.             *)
(***************************************************************************)
EXTENDS Integers, FiniteSets, FiniteSetsExt

CONSTANTS
  Orders, Days,
  ReportEvents, \* events that reach the queues: [id, type, order, day, status, amount]
  Loops,        \* consume loops of all instances
  Absent        \* no row, no day, or no delivery in hand

\* Rows of rpt_order_summary, and deliveries that a loop has in hand.
Rows    == [status : {"CREATED"} \cup {e.status : e \in ReportEvents}, total : Nat, completed : Days \cup {Absent}]
Handled == [event : ReportEvents, step : {"look", "select", "complete", "write"},
            found : BOOLEAN, sold : BOOLEAN, total : Nat]

ASSUME AbsentAssumption == Absent \notin Days \cup Rows \cup Handled

\* A completion is an event of those that projectOrderStatusChanged projects.
ASSUME EventsAssumption == \A e \in ReportEvents :
  /\ e.order \in Orders /\ e.day \in Days /\ e.amount \in Nat
  /\ e.status = "COMPLETED" => e.type = "order.status_changed"

VARIABLES
  summary,   \* rpt_order_summary
  sales,     \* rpt_daily_outlet_sales; a row with no order is none
  refunds,   \* rpt_refund_summary
  processed, \* processed_events
  working,   \* the event each loop has in hand, with what it has read
  overlapped,\* history: counted events that two loops had in hand at once
  missed,    \* history: counted events projected when their order had no row
  shown      \* what the last reports of a client have shown

tables        == <<summary, sales, refunds>>
reportingVars == <<tables, processed, working, overlapped, missed, shown>>

ReportingInit ==
  /\ summary    = [o \in Orders |-> Absent]
  /\ sales      = [d \in Days |-> [count |-> 0, gross |-> 0, refunded |-> 0]]
  /\ refunds    = [d \in Days |-> [count |-> 0, amount |-> 0]]
  /\ processed  = {}
  /\ working    = [x \in Loops |-> Absent]
  /\ overlapped = {}
  /\ missed     = {}
  /\ shown      = [completed |-> [d \in Days |-> 0], refunded |-> [d \in Days |-> 0]]

\* Completions and refunds add to a report; the other events set or mark.
Completion(e) == e.status = "COMPLETED"
Refunding(e)  == e.type = "payment.refunded"
Counted(e)    == Completion(e) \/ Refunding(e)

InHand(e)   == \E x \in Loops : working[x] # Absent /\ working[x].event = e
HasRow(o)   == summary[o] # Absent
Sold(d)     == sales[d].count > 0
Ready(x, s) == working[x] # Absent /\ working[x].step = s

Take(x, e) ==
  /\ working[x] = Absent
  /\ working' = [working EXCEPT ![x] =
       [event |-> e, step |-> "look", found |-> FALSE, sold |-> FALSE, total |-> 0]]
  /\ overlapped' = IF Counted(e) /\ InHand(e) THEN overlapped \cup {e} ELSE overlapped
  /\ UNCHANGED <<tables, processed, missed>>

\* Mutant: a redelivered event is not looked up.
ReceiveAgain(x, e) == Take(x, e)

\* A delivery that alreadyProcessed lets through.
Receive(x, e) == e \notin processed /\ Take(x, e)

\* The transaction's first statement: the row of the order is there or not.
\* The one after it, in projectRefund, meets a row of the day's sales or not.
Look(x) ==
  /\ Ready(x, "look")
  /\ LET e    == working[x].event
         next == IF e.status # "COMPLETED" THEN "write" ELSE IF HasRow(e.order) THEN "complete" ELSE "select"
     IN working' = [working EXCEPT ![x].found = HasRow(e.order), ![x].sold = Sold(e.day), ![x].step = next]
  /\ UNCHANGED <<tables, processed, overlapped, missed>>

\* projectOrderStatusChanged's SELECT, after an UPDATE that met no row: it may
\* see one that was committed since, and locks nothing.
SelectTotal(x) ==
  /\ Ready(x, "select")
  /\ LET o == working[x].event.order IN
     working' = [working EXCEPT ![x].step  = IF HasRow(o) THEN "complete" ELSE "write",
                                ![x].total = IF HasRow(o) THEN summary[o].total ELSE 0]
  /\ UNCHANGED <<tables, processed, overlapped, missed>>

\* Every projection ends with markProcessed and its commit.
MarkProcessed(x) ==
  /\ processed' = processed \cup {working[x].event}
  /\ working' = [working EXCEPT ![x] = Absent]
  /\ UNCHANGED overlapped

Missed(x) == missed' = missed \cup {e \in {working[x].event} : Counted(e)}

Writes(x, type) == Ready(x, "write") /\ working[x].event.type = type

ProjectOrderCreated(x) ==
  /\ Writes(x, "order.created")
  /\ LET o == working[x].event.order IN
     summary' = IF HasRow(o) THEN summary
                ELSE [summary EXCEPT ![o] = [status |-> "CREATED", total |-> 0, completed |-> Absent]]
  /\ MarkProcessed(x)
  /\ UNCHANGED <<sales, refunds, missed>>

\* The update meets the row that Look has found, and holds it until the commit.
ProjectOrderWeighed(x) ==
  /\ Writes(x, "order.weighed")
  /\ LET e == working[x].event IN
     IF working[x].found
       THEN summary' = [summary EXCEPT ![e.order].total = e.amount] /\ UNCHANGED missed
       ELSE Missed(x) /\ UNCHANGED summary
  /\ MarkProcessed(x)
  /\ UNCHANGED <<sales, refunds>>

\* A status that is not COMPLETED, or COMPLETED for an order without a row.
ProjectOrderStatus(x) ==
  /\ Writes(x, "order.status_changed")
  /\ LET e == working[x].event IN
     IF working[x].found
       THEN summary' = [summary EXCEPT ![e.order].status = e.status] /\ UNCHANGED missed
       ELSE Missed(x) /\ UNCHANGED summary
  /\ MarkProcessed(x)
  /\ UNCHANGED <<sales, refunds>>

\* An UPDATE that met the row holds it, so the total is read as it is at the
\* commit; a total that only the SELECT saw may have changed since.
Total(x) == IF working[x].found THEN summary[working[x].event.order].total ELSE working[x].total

\* The row's status changes only if the UPDATE met it, its completed_at in any
\* case.
CompleteOrder(x) ==
  LET e == working[x].event IN
  summary' = [summary EXCEPT ![e.order].status = IF working[x].found THEN e.status ELSE @,
                             ![e.order].completed = e.day]

\* Mutant: the day's row is kept as it is on a conflict.
ProjectFirstCompleted(x) ==
  /\ Ready(x, "complete")
  /\ CompleteOrder(x)
  /\ LET e == working[x].event IN
     sales' = IF Sold(e.day) THEN sales
              ELSE [sales EXCEPT ![e.day].count = 1, ![e.day].gross = Total(x)]
  /\ MarkProcessed(x)
  /\ UNCHANGED <<refunds, missed>>

ProjectOrderCompleted(x) ==
  /\ Ready(x, "complete")
  /\ CompleteOrder(x)
  /\ LET e == working[x].event IN
     sales' = [sales EXCEPT ![e.day].count = @ + 1, ![e.day].gross = @ + Total(x)]
  /\ MarkProcessed(x)
  /\ UNCHANGED <<refunds, missed>>

AddRefund(e) == refunds' = [refunds EXCEPT ![e.day].count = @ + 1, ![e.day].amount = @ + e.amount]

\* The refund adds to the sales of its own day, if they have a row: a row that
\* came since Look may have been too late for the statement.
ProjectRefund(x) ==
  /\ Writes(x, "payment.refunded")
  /\ LET e == working[x].event IN
     IF working[x].found
       THEN /\ AddRefund(e)
            /\ \E met \in {working[x].sold, Sold(e.day)} :
                 sales' = IF met THEN [sales EXCEPT ![e.day].refunded = @ + e.amount] ELSE sales
            /\ UNCHANGED missed
       ELSE Missed(x) /\ UNCHANGED <<sales, refunds>>
  /\ MarkProcessed(x)
  /\ UNCHANGED summary

\* Every other event is marked and no more.
MarkOnly(x) ==
  /\ Writes(x, "other")
  /\ MarkProcessed(x)
  /\ UNCHANGED <<tables, missed>>

\* A statement fails or the instance dies: the transaction is rolled back and
\* the delivery goes back to the queue.
Fails(x) ==
  /\ working[x] # Absent
  /\ working' = [working EXCEPT ![x] = Absent]
  /\ UNCHANGED <<tables, processed, overlapped, missed>>

Project(x) ==
  \/ ProjectOrderCreated(x)
  \/ ProjectOrderWeighed(x)
  \/ ProjectOrderStatus(x)
  \/ ProjectOrderCompleted(x)
  \/ ProjectRefund(x)
  \/ MarkOnly(x)

Consume(x) ==
  \/ \E e \in ReportEvents : Receive(x, e)
  \/ Look(x)
  \/ SelectTotal(x)
  \/ Project(x)
  \/ Fails(x)

\* GET /reports/orders/summary, counted by day of completion; a client without
\* the outlet, or who asks for other days, is shown less.
GetOrderSummaryReport ==
  shown' = [shown EXCEPT !.completed = [d \in Days |->
    Cardinality({o \in Orders : HasRow(o) /\ summary[o].completed = d})]]

\* GET /reports/sales.
GetSalesReport == shown' = [shown EXCEPT !.refunded = [d \in Days |-> sales[d].refunded]]

ReportingNext ==
  \/ \E x \in Loops : Consume(x) /\ UNCHANGED shown
  \/ (GetOrderSummaryReport \/ GetSalesReport) /\ UNCHANGED <<tables, processed, working, overlapped, missed>>

-----------------------------------------------------------------------------
Completions(d) == {e \in processed : e.day = d /\ Completion(e)}
Refundings(d)  == {e \in processed : e.day = d /\ Refunding(e)}
Amount(events) == MapThenSumSet(LAMBDA e : e.amount, events)

\* The sales of a day count each completion once, and its refunds each refund
\* and its amount, whatever was delivered again or failed half way
\* (handleCoreEvent, handlePaymentEvent, markProcessed): all that were not
\* projected before their order had a row, provided no two loops had one of them
\* in hand at once.
ReportsAreExact == \A d \in Days :
  /\ Completions(d) \cap overlapped = {} => sales[d].count = Cardinality(Completions(d) \ missed)
  /\ Refundings(d) \cap overlapped = {} =>
       /\ refunds[d].count = Cardinality(Refundings(d) \ missed)
       /\ refunds[d].amount = Amount(Refundings(d) \ missed)

\* The three reports agree, though each is read in a statement of its own: an
\* order that the first shows as completed on a day is counted in the sales of
\* that day, with every other, by whoever asks then or later, and what the sales
\* show as refunded is in the refunds (GetOrderSummaryReport, GetSalesReport,
\* GetRefundsReport).  The same reports in another order need not agree.
ReportsAgree == \A d \in Days :
  /\ shown.completed[d] <= sales[d].count
  /\ shown.refunded[d] <= refunds[d].amount
=============================================================================
