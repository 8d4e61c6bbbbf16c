---------------------------- MODULE MCBackOffice ----------------------------
(***************************************************************************)
(* The five parts of the back office.  They share nothing, and every       *)
(* property is about one of them, so it is enough that one moves at a time.*)
(*                                                                         *)
(* The reports are of two orders completed on one day, one of them weighed *)
(* before and refunded after.  Every order of the events is possible, the  *)
(* late ones first included.                                               *)
(***************************************************************************)
EXTENDS BackOffice, TLC

CONSTANTS owner, cashier, o1, o2, a1, a2, d1, d2

Event(id, type, order, day, status, amount) ==
  [id |-> id, type |-> type, order |-> order, day |-> day, status |-> status, amount |-> amount]

Created(id, o)        == Event(id, "order.created", o, d1, "CREATED", 0)
Weighed(id, o, n)     == Event(id, "order.weighed", o, d1, "none", n)
Changed(id, o, d, s)  == Event(id, "order.status_changed", o, d, s, 0)
Refunded(id, o, d, n) == Event(id, "payment.refunded", o, d, "none", n)
Paid(id, o)           == Event(id, "other", o, d1, "none", 1)

TwoOrders ==
  {Created(1, a1), Weighed(2, a1, 2), Paid(3, a1), Changed(4, a1, d1, "COMPLETED"), Refunded(5, a1, d1, 2),
   Created(6, a2), Changed(7, a2, d1, "READY"), Changed(8, a2, d1, "COMPLETED")}

\* Bound: any five of the eight events are delivered, in any order; one that
\* neither makes an order's row nor is counted takes three places.
Plain == {e \in ReportEvents : e.type \in {"other", "order.weighed"} \/ e.status = "READY"}
FiveDelivered ==
  LET met == processed \cup {e \in ReportEvents : InHand(e)} IN
  Cardinality(met) + 2 * Cardinality(met \cap Plain) <= 5

Replace(r, o) == [roles |-> r, outlets |-> o]
FourContents ==
  {Replace({cashier}, Untouched), Replace(Untouched, {o2}), Replace({owner}, {}), Replace({}, {o1, o2})}

\* Bound: a part moves only while each of the others is at rest, in one of its
\* initial states.
PricesRest  == clock = 0
StaffRest   ==
  /\ members = [roles |-> {cashier}, outlets |-> {o1}]
  /\ \A u \in Updates : update[u].stage = "idle"
  /\ \A s \in SignIns : signIn[s].stage = "idle"
LimitRest   == \A c \in Calls : call[c] = "new"
ReportsRest == processed = {} /\ overlapped = {} /\ \A x \in Loops : working[x] = Absent
SchemaRest  == applied = {} /\ service = "core" /\ \A r \in Runs : runs[r].stage = "idle"

\* Bound: one update at a time goes on while the user signs in, and none when the
\* token is made: what is not committed by then does not concern it.
SignInBound ==
  LET going == Cardinality({u \in Updates : Updating(u)}) IN
  \A s \in SignIns : IsAt(s, "idle") \/ going = 0 \/ (Reading(s) /\ going = 1)

OneMoves ==
  \/ StaffRest /\ LimitRest /\ ReportsRest /\ SchemaRest /\ CatalogueStep
  \/ PricesRest /\ LimitRest /\ ReportsRest /\ SchemaRest /\ AccessStep
  \/ PricesRest /\ StaffRest /\ ReportsRest /\ SchemaRest /\ LimitStep
  \/ PricesRest /\ StaffRest /\ LimitRest /\ SchemaRest /\ ReportingStep
  \/ PricesRest /\ StaffRest /\ LimitRest /\ ReportsRest /\ StartupStep

OneAtATime == Init /\ [][OneMoves]_vars

Symmetry == Permutations(Updates) \cup Permutations(Loops)
=============================================================================
