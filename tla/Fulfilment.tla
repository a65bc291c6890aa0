----------------------------- MODULE Fulfilment -----------------------------
(***************************************************************************)
(* Delivery and Orders together: what becomes of an order while it is      *)
(* delivered.                                                              *)
(*                                                                         *)
(* MarkPickedUp and MarkDelivered first commit the assignment and then     *)
(* call OrderService.UpdateStatus, whose error they drop.  The restaurant  *)
(* and the customer move the same order through requests of their own.     *)
(* Of the Orders module only the row's status is kept here, with its two   *)
(* statements: the read with the transition check, and the UPDATE.         *)
(***************************************************************************)
EXTENDS Delivery, OrderStates

CONSTANT Staff           \* slots of the requests made to the Orders module

VARIABLES
    status,              \* status[o]: orders.status
    update,              \* update[q]: the UPDATE that the request in slot q
                         \* (of Staff, or of a delivery) has decided on, or NoJob
    refused,             \* history variable: the assignments with a step that
                         \* the order's status did not allow
    unsynced,            \* history variable: the assignments with a step whose
                         \* call of UpdateStatus failed half-way
    overwritten          \* history variable: the orders updated by a request
                         \* that had read an earlier status

orderVars == <<status, update, overwritten>>
syncVars == <<refused, unsynced>>
fulfilmentVars == <<vars, orderVars, syncVars>>

Update == [order : OrderIds, seen : Status, target : Status]

ASSUME FulfilmentAssumption == Staff \cap Requests = {} /\ NoJob \notin Update

FulfilmentTypeOK ==
    /\ TypeOK
    /\ status \in [OrderIds -> Status]
    /\ update \in [Requests \cup Staff -> Update \cup {NoJob}]
    /\ refused \subseteq Assignments
    /\ unsynced \subseteq Assignments
    /\ overwritten \subseteq OrderIds

FulfilmentInit ==
    /\ Init
    /\ status = [o \in OrderIds |-> "placed"]
    /\ update = [q \in Requests \cup Staff |-> NoJob]
    /\ refused = {}
    /\ unsynced = {}
    /\ overwritten = {}

Decide(q, o, target) ==
    update' = [update EXCEPT ![q] = [order |-> o, seen |-> status[o], target |-> target]]

Forget(q) == update' = [update EXCEPT ![q] = NoJob]

-----------------------------------------------------------------------------
\* PATCH /orders/:id/status by the restaurant, or a cancellation: the order
\* is read and the transition is allowed.
BeginUpdate(q, o, target) ==
    /\ update[q] = NoJob
    /\ CanTransitionTo(status[o], target)
    /\ Decide(q, o, target)
    /\ UNCHANGED <<vars, status, overwritten, syncVars>>

\* The UPDATE itself, keyed by id alone.
WriteStatus(q) ==
    /\ status' = [status EXCEPT ![update[q].order] = update[q].target]
    /\ overwritten' = overwritten \cup
         {o \in {update[q].order} : status[o] # update[q].seen}
    /\ Forget(q)

StaffWrites(q) ==
    /\ update[q] # NoJob
    /\ WriteStatus(q)
    /\ UNCHANGED <<vars, syncVars>>

\* A delivery request calls UpdateStatus, which reads the order and decides.
SyncDecides(r) ==
    /\ At(r, "sync")
    /\ update[r] = NoJob
    /\ CanTransitionTo(status[asg[job[r].asg].order], job[r].target)
    /\ Decide(r, asg[job[r].asg].order, job[r].target)
    /\ UNCHANGED <<vars, status, overwritten, syncVars>>

\* UpdateStatus answers with a conflict; nobody hears of it.
SyncRefused(r) ==
    /\ At(r, "sync")
    /\ update[r] = NoJob
    /\ ~CanTransitionTo(status[asg[job[r].asg].order], job[r].target)
    /\ refused' = refused \cup {job[r].asg}
    /\ OrderAnswers(r)
    /\ UNCHANGED <<orderVars, unsynced>>

\* Mutant: the delivery request reports success before the UPDATE.
MutantSyncWrites(r) ==
    /\ update[r] # NoJob
    /\ Forget(r)
    /\ OrderAnswers(r)
    /\ UNCHANGED <<status, overwritten, syncVars>>

SyncWrites(r) ==
    /\ update[r] # NoJob
    /\ WriteStatus(r)
    /\ OrderAnswers(r)
    /\ UNCHANGED syncVars

\* Request r has changed an assignment and the order is still to follow.
OwesOrder(r) == At(r, "sync") \/ (At(r, "release") /\ job[r].delivered)

\* The steps of the Delivery module.  One that ends a request which owes the
\* order an update is an abort: the update is forgotten.
DeliveryStep ==
    /\ Step
    /\ LET ended == {r \in Requests : OwesOrder(r) /\ job'[r] = NoJob} IN
         /\ unsynced' = unsynced \cup {job[r].asg : r \in ended}
         /\ update' = [q \in Requests \cup Staff |->
                         IF q \in ended THEN NoJob ELSE update[q]]
    /\ UNCHANGED <<status, overwritten, refused>>

FulfilmentNext ==
    \/ \E q \in Staff :
          \/ StaffWrites(q)
          \/ \E o \in OrderIds, target \in Status : BeginUpdate(q, o, target)
    \/ \E r \in Requests :
          SyncDecides(r) \/ SyncRefused(r) \/ SyncWrites(r)
    \/ DeliveryStep

FulfilmentSpec == FulfilmentInit /\ [][FulfilmentNext]_fulfilmentVars

-----------------------------------------------------------------------------
(***************************************************************************)
(* Properties.                                                             *)
(***************************************************************************)

\* The order of a picked up assignment is out for delivery or beyond, the
\* order of a delivered one is delivered.
InStep(a) ==
    /\ Is(a, "picked_up") => status[asg[a].order] \in {"out_for_delivery", "delivered"}
    /\ Is(a, "delivered") => status[asg[a].order] = "delivered"

\* A request of assignment a has not yet reached the end of MarkPickedUp or
\* MarkDelivered.
Moving(a) == \E r \in Requests : /\ job[r] # NoJob
                                 /\ job[r].step \in {"release", "sync"}
                                 /\ job[r].asg = a

\* Assignment and order drift apart only for the reasons the code leaves
\* open: the order was not ready for the step, the update failed half-way,
\* or another request overwrote the order with an older decision.
DriftExplained ==
    \A a \in Assignments : asg[a] # None =>
        InStep(a) \/ Moving(a) \/ a \in refused \cup unsynced \/ asg[a].order \in overwritten
=============================================================================
