--------------------------- MODULE OrderLifecycle ---------------------------
(***************************************************************************)
(* What the Orders module promises about one order, with no request, no    *)
(* database statement and no concurrency in sight: an order is placed once *)
(* and then follows allowedTransitions, and the timestamp columns of the   *)
(* order row are stamped exactly when their status is entered.             *)
(*                                                                         *)
(* The statuses, the transition table and the milestones are those of      *)
(* OrderStates, which Orders uses as well.                                 *)
(***************************************************************************)
EXTENDS OrderStates

CONSTANT OrderIds        \* the orders that may ever be placed

VARIABLES
    status,              \* status[o]: orders.status, NotPlaced before checkout
    stamps               \* stamps[o]: the milestone columns that are not NULL

lifecycleVars == <<status, stamps>>

TypeOK ==
    /\ status \in [OrderIds -> Status \cup {NotPlaced}]
    /\ stamps \in [OrderIds -> SUBSET (Milestone \cup {"cancelled"})]

Init ==
    /\ status = [o \in OrderIds |-> NotPlaced]
    /\ stamps = [o \in OrderIds |-> {}]

\* Checkout creates the order in status placed.
Place(o) ==
    /\ status[o] = NotPlaced
    /\ status' = [status EXCEPT ![o] = "placed"]
    /\ UNCHANGED stamps

\* The order moves to an allowed next status; a milestone is stamped.
\* Cancelling through the cancel operation also stamps cancelled_at, the
\* plain status update does not, so both outcomes are allowed here.
Advance(o, target) ==
    /\ CanTransitionTo(status[o], target)
    /\ status' = [status EXCEPT ![o] = target]
    /\ \E extra \in SUBSET ({target} \cap {"cancelled"}) :
         stamps' = [stamps EXCEPT ![o] = @ \cup ({target} \cap Milestone) \cup extra]

Next ==
    \E o \in OrderIds :
        \/ Place(o)
        \/ \E target \in Status : Advance(o, target)

Spec == Init /\ [][Next]_lifecycleVars
=============================================================================
