-------------------------- MODULE MCPaymentService -------------------------
(***************************************************************************)
(* Instances of PaymentService for TLC.                                    *)
(***************************************************************************)
EXTENDS PaymentService, TLC

Symmetry == Permutations(Payments) \cup Permutations(Refunds) \cup Permutations(PayReqs)
=============================================================================
