----------------------------- MODULE MCAccounts -----------------------------
(***************************************************************************)
(* The instance of Accounts that TLC checks.                               *)
(***************************************************************************)
EXTENDS Accounts, TLC

Symmetry == Permutations(Tokens) \cup Permutations(Requests)
=============================================================================
