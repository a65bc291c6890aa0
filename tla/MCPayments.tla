----------------------------- MODULE MCPayments -----------------------------
(***************************************************************************)
(* Model checking of Payments.  An amount of 4 with an Epsilon of 1: the   *)
(* refund of 2 is partial, the refund of 5 is one Epsilon too much.        *)
(***************************************************************************)
EXTENDS Payments, TLC

Amounts == {2, 5}

Symmetry == Permutations(OrderIds) \cup Permutations(Txs) \cup Permutations(Requests)
=============================================================================
