--------------------------- MODULE MCRestaurants ---------------------------
(***************************************************************************)
(* The instance of Restaurants that TLC checks.                            *)
(***************************************************************************)
EXTENDS Restaurants, TLC

Symmetry == Permutations(Required) \cup Permutations(Days)
              \cup Permutations(Users) \cup Permutations(Requests)
=============================================================================
