---------------------------- MODULE OrderStates -----------------------------
(***************************************************************************)
(* The order state machine of orders/domain/entity.go as constant          *)
(* operators: the statuses, the transition table and the questions the     *)
(* service asks of it.  Shared by every module that speaks of an order's   *)
(* status.                                                                 *)
(***************************************************************************)

Status ==
    {"placed", "confirmed", "preparing", "ready_for_pickup",
     "out_for_delivery", "delivered", "cancelled"}

\* The value of a status variable before the order row exists.
NotPlaced == "not_placed"

\* The transition table, as the set of its (from, to) pairs.
allowedTransitions ==
    {<<"placed", "confirmed">>, <<"placed", "cancelled">>,
     <<"confirmed", "preparing">>, <<"confirmed", "cancelled">>,
     <<"preparing", "ready_for_pickup">>, <<"preparing", "cancelled">>,
     <<"ready_for_pickup", "out_for_delivery">>,
     <<"out_for_delivery", "delivered">>}

\* Mutant: the check accepts any move from a status that is not terminal.
MutantAnyMoveWhileOpen(s, target) == s \notin {"delivered", "cancelled"}

\* Mutant: a terminal order can be reopened for delivery.
MutantReopenCancelled(s, target) ==
    <<s, target>> \in allowedTransitions \cup {<<"cancelled", "confirmed">>}

CanTransitionTo(s, target) == <<s, target>> \in allowedTransitions

IsTerminal(s) == s \in {"delivered", "cancelled"}

\* The statuses whose entry UpdateOrderStatus stamps in a column of its own:
\* confirmed_at, ready_at, picked_up_at and delivered_at.
Milestone == {"confirmed", "ready_for_pickup", "out_for_delivery", "delivered"}
=============================================================================
