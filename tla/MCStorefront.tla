---------------------------- MODULE MCStorefront ----------------------------
(***************************************************************************)
(* The instance of Storefront that TLC checks.                             *)
(***************************************************************************)
EXTENDS Storefront, TLC

Symmetry == Permutations(Restaurants) \cup Permutations(Categories)
              \cup Permutations(Items) \cup Permutations(Carts)
              \cup Permutations(Lines) \cup Permutations(Requests)
=============================================================================
