------------------------------- MODULE MCMenu -------------------------------
(***************************************************************************)
(* The instance of Menu that TLC checks.                                   *)
(***************************************************************************)
EXTENDS Menu, TLC

Symmetry == Permutations(Restaurants) \cup Permutations(Categories)
              \cup Permutations(Items)
=============================================================================
