---------------------------- MODULE MCFulfilment ----------------------------
(***************************************************************************)
(* Model checking of Fulfilment: one order, one partner, two assignments.  *)
(***************************************************************************)
EXTENDS Fulfilment, TLC

Symmetry == Permutations(Assignments) \cup Permutations(Staff)
=============================================================================
