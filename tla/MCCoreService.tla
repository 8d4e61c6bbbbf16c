--------------------------- MODULE MCCoreService ---------------------------
(***************************************************************************)
(* Instances of CoreService for TLC.                                       *)
(***************************************************************************)
EXTENDS CoreService, TLC, FiniteSetsExt

\* A discount that outweighs every basket: each bill is rolled back, so amounts,
\* which these properties do not read, do not multiply the states.
RejectedBill(w, f, t) == MapThenSumSet(LAMBDA i : w[i], Items) + f + t - 2

\* Payment may report each order paid, and refunded.
PaidThenRefunded == [type : {"payment.paid", "payment.refunded"}, order : Orders, n : {1}]

\* The history rows, and `stale`, are never read, so states that differ only there
\* behave alike.
WithoutTrail ==
  <<status, payStatus, weight, fee, total, billed, coreReqs, processed, consuming, pickup, delivery, missed>>

Symmetry == Permutations(CoreReqs) \cup Permutations(Items)
=============================================================================
