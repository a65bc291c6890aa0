------------------------------ MODULE MCOrders ------------------------------
(***************************************************************************)
(* Model checking of Orders: the orders and the request slots are          *)
(* interchangeable.                                                        *)
(***************************************************************************)
EXTENDS Orders, TLC

Symmetry == Permutations(OrderIds) \cup Permutations(Requests)
=============================================================================
