--------------------------- MODULE MCOrderToCash ---------------------------
(***************************************************************************)
(* Instances of OrderToCash for TLC.                                       *)
(***************************************************************************)
EXTENDS OrderToCash, TLC, FiniteSetsExt

\* Unit price 1, no discount: the weights, a tax of t tenths of them, and the fee.
SumBill(w, f, t) ==
  LET subtotal == MapThenSumSet(LAMBDA i : w[i], Items) IN subtotal + (subtotal * t) \div 10 + f

\* The same with a discount of 3, which takes a total without tax below zero.
DiscountedBill(w, f, t) == SumBill(w, f, t) - 3

Symmetry ==
  Permutations(Payments) \cup Permutations(Refunds) \cup Permutations(PayReqs)
    \cup Permutations(CoreReqs) \cup Permutations(Consumers)
=============================================================================
