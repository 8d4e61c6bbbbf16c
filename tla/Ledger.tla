------------------------------- MODULE Ledger -------------------------------
(***************************************************************************)
(* What Core and Payment promise together about the money of an order,     *)
(* and nothing of how they do it.  One side takes money and gives it back; *)
(* the other shows a payment status and has the laundry worked on.  They   *)
(* never move in one step, and what is shown or done may lag behind the    *)
(* money for as long as it likes but never runs ahead of it.               *)
(***************************************************************************)
EXTENDS OrderStatus

VARIABLES
  charged,  \* the orders that somebody was charged for
  returned, \* those that money was given back for
  shown,    \* the payment status that each order shows
  worked    \* the orders the laundry is working on, or has finished

ledgerVars == <<charged, returned, shown, worked>>

Settled == {"PAID", "REFUNDED"}

Init ==
  /\ charged  = {}
  /\ returned = {}
  /\ shown    = [o \in Orders |-> "UNPAID"]
  /\ worked   = {}

Charge(o) ==
  /\ charged' = charged \cup {o}
  /\ UNCHANGED <<returned, shown, worked>>

GiveBack(o) ==
  /\ o \in charged
  /\ returned' = returned \cup {o}
  /\ UNCHANGED <<charged, shown, worked>>

\* A payment status that order o may come to show.
MayShow(o, new) ==
  /\ new = "PAID" => o \in charged
  /\ new = "REFUNDED" => o \in returned
  /\ shown[o] \in Settled => new \in Settled

\* The order shows something else, and is or is not worked on any more.
Follow(o) ==
  /\ \E new \in PaymentStatuses : MayShow(o, new) /\ shown' = [shown EXCEPT ![o] = new]
  /\ \/ worked' = worked
     \/ worked' = worked \ {o}
     \/ o \in charged /\ worked' = worked \cup {o}
  /\ UNCHANGED <<charged, returned>>

Next == \E o \in Orders : Charge(o) \/ GiveBack(o) \/ Follow(o)

Spec == Init /\ [][Next]_ledgerVars
=============================================================================
