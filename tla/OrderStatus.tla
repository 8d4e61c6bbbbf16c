---------------------------- MODULE OrderStatus ----------------------------
(***************************************************************************)
(* The order life cycle of services/core: the statuses an order row may    *)
(* hold, the transitions staff may ask for, and the predicates the         *)
(* handlers evaluate on them, with the constants Core and Payment share.   *)
(* Constant-level: no state.                                               *)
(***************************************************************************)
EXTENDS Integers, FiniteSets

CONSTANTS
  Orders,   \* order ids
  NoOrder,  \* the status of an order that has not been created
  NoTotal   \* the total of an order that has not been billed

\* orders.status and orders.payment_status, as their CHECK constraints list them.
OrderStatuses ==
  {"CREATED", "RECEIVED", "WEIGHING", "WASHING", "DRYING", "IRONING", "PACKING",
   "READY", "PICKED_UP", "DELIVERED", "COMPLETED", "ON_HOLD", "CANCELLED"}

PaymentStatuses == {"UNPAID", "PENDING", "PAID", "FAILED", "REFUNDED"}

\* The staff-driven transitions (the map `transitions`), as a relation.
Transitions ==
  ({"CREATED"}   \X {"RECEIVED", "ON_HOLD", "CANCELLED"}) \cup
  ({"RECEIVED"}  \X {"ON_HOLD", "CANCELLED"}) \cup
  ({"WEIGHING"}  \X {"ON_HOLD", "CANCELLED"}) \cup
  ({"WASHING"}   \X {"DRYING", "ON_HOLD"}) \cup
  ({"DRYING"}    \X {"IRONING", "ON_HOLD"}) \cup
  ({"IRONING"}   \X {"PACKING", "ON_HOLD"}) \cup
  ({"PACKING"}   \X {"READY", "ON_HOLD"}) \cup
  ({"READY"}     \X {"PICKED_UP", "DELIVERED", "ON_HOLD"}) \cup
  ({"PICKED_UP"} \X {"COMPLETED"}) \cup
  ({"DELIVERED"} \X {"COMPLETED"})

\* Mutant: the lookup forgets the status the order is in.
IsReachableByStaff(from, to) == \E s \in OrderStatuses : <<s, to>> \in Transitions

\* Mutant: staff may cancel an order that is being washed.
IsValidOrLateCancel(from, to) ==
  <<from, to>> \in Transitions \cup {<<"WASHING", "CANCELLED">>}

IsValidTransition(from, to) == <<from, to>> \in Transitions

RequiresPaidBeforeCompleting(to) == to = "COMPLETED"

ASSUME NoneAssumption == NoOrder \notin OrderStatuses \cup Orders /\ NoTotal \notin Int

\* The statuses of an order the laundry has started to work on.
WorkStarted ==
  {"WASHING", "DRYING", "IRONING", "PACKING", "READY", "PICKED_UP", "DELIVERED", "COMPLETED"}
=============================================================================
