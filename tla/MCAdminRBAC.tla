---------------------------- MODULE MCAdminRBAC ----------------------------
(***************************************************************************)
(* The instance of AdminRBAC that TLC checks.                              *)
(***************************************************************************)
EXTENDS AdminRBAC, TLC

Symmetry == Permutations(CustomRoles) \cup Permutations(Admins) \cup Permutations(Requests)
=============================================================================
