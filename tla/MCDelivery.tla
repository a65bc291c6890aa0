----------------------------- MODULE MCDelivery -----------------------------
(***************************************************************************)
(* Model checking of Delivery: one partner for two orders, a cap of one.   *)
(***************************************************************************)
EXTENDS Delivery, TLC

Symmetry ==
    Permutations(OrderIds) \cup Permutations(Partners)
      \cup Permutations(Assignments) \cup Permutations(Requests)
=============================================================================
