------------------------------- MODULE Orders -------------------------------
(***************************************************************************)
(* The Orders module: order_service.go over repository.go over orders.sql. *)
(*                                                                         *)
(* Every HTTP request is a goroutine that runs one service method: it      *)
(* reads the order row, checks the transition in memory, updates the row,  *)
(* appends a line to order_status_history and notifies the customer.  Each *)
(* of these is a statement of its own, committed on its own, and the       *)
(* UPDATE is keyed by id alone: between the read and the UPDATE any other  *)
(* request may have moved the order.  A request may also end after any of  *)
(* its statements (an error, a cancelled context, a crash of the process). *)
(*                                                                         *)
(* A request is therefore a small record in req[r]: where it stands, which *)
(* order it is about, what it saw and what it is going to write.           *)
(***************************************************************************)
EXTENDS OrderStates, Naturals

CONSTANTS
    OrderIds,            \* the orders that may be placed
    Requests,            \* request slots: how many requests can be in flight
    NoJob,               \* req[r] of a slot that serves no request
    MaxFaults            \* bound: how many requests may fail half-way

VARIABLES
    status,              \* status[o]: orders.status, NotPlaced before checkout
    stamps,              \* stamps[o]: the milestone columns that are not NULL
    history,             \* history[o]: statuses with a line in order_status_history
    notified,            \* notified[o]: statuses announced to the customer
    req,                 \* req[r]: the request in slot r, or NoJob
    held,                \* history variable: every status the row has held
    lost,                \* history variable: statuses entered by a request that
                         \* failed to add its line to history
    faults               \* how many statements have failed so far

rowVars == <<status, stamps, held>>
vars == <<status, stamps, history, notified, req, held, lost, faults>>

-----------------------------------------------------------------------------
\* A request that has read the order and passed its checks.  "seen" is the
\* status its check was made on; a checkout has seen no order at all.
Job ==
    [kind   : {"checkout", "update", "cancel"},
     step   : {"write", "record", "notify"},
     order  : OrderIds,
     seen   : Status \cup {NotPlaced},
     target : Status]

ASSUME NoJobAssumption == NoJob \notin Job
ASSUME MaxFaultsAssumption == MaxFaults \in Nat

TypeOK ==
    /\ status \in [OrderIds -> Status \cup {NotPlaced}]
    /\ stamps \in [OrderIds -> SUBSET (Milestone \cup {"cancelled"})]
    /\ history \in [OrderIds -> SUBSET Status]
    /\ notified \in [OrderIds -> SUBSET Status]
    /\ req \in [Requests -> Job \cup {NoJob}]
    /\ held \in [OrderIds -> SUBSET Status]
    /\ lost \in [OrderIds -> SUBSET Status]
    /\ faults \in 0 .. MaxFaults

Init ==
    /\ status = [o \in OrderIds |-> NotPlaced]
    /\ stamps = [o \in OrderIds |-> {}]
    /\ history = [o \in OrderIds |-> {}]
    /\ notified = [o \in OrderIds |-> {}]
    /\ req = [r \in Requests |-> NoJob]
    /\ held = [o \in OrderIds |-> {}]
    /\ lost = [o \in OrderIds |-> {}]
    /\ faults = 0

-----------------------------------------------------------------------------
\* The statements on the orders row.

\* INSERT of a new order, status 'placed'; order, items and add-ons commit
\* in one transaction.
Create(o) ==
    /\ status' = [status EXCEPT ![o] = "placed"]
    /\ held' = [held EXCEPT ![o] = @ \cup {"placed"}]
    /\ UNCHANGED stamps

\* Mutant: the UPDATE forgets the picked_up_at branch of its CASEs.
MutantUpdateOrderStatus(o, target) ==
    /\ status' = [status EXCEPT ![o] = target]
    /\ held' = [held EXCEPT ![o] = @ \cup {target}]
    /\ stamps' = [stamps EXCEPT ![o] =
                    @ \cup ({target} \cap (Milestone \ {"out_for_delivery"}))]

\* UPDATE orders SET status = $2 and the matching timestamp WHERE id = $1:
\* whatever the status is by now.
UpdateOrderStatus(o, target) ==
    /\ status' = [status EXCEPT ![o] = target]
    /\ held' = [held EXCEPT ![o] = @ \cup {target}]
    /\ stamps' = [stamps EXCEPT ![o] = @ \cup ({target} \cap Milestone)]

\* Mutant: the cancel UPDATE forgets the status column.
MutantCancelOrder(o) ==
    /\ stamps' = [stamps EXCEPT ![o] = @ \cup {"cancelled"}]
    /\ UNCHANGED <<status, held>>

\* UPDATE orders SET status = 'cancelled', cancelled_at = now() WHERE id = $1.
CancelOrder(o) ==
    /\ status' = [status EXCEPT ![o] = "cancelled"]
    /\ held' = [held EXCEPT ![o] = @ \cup {"cancelled"}]
    /\ stamps' = [stamps EXCEPT ![o] = @ \cup {"cancelled"}]

-----------------------------------------------------------------------------
\* The steps of a request.

\* Request r goes on to another step of the job it serves.
Goto(r, step) == req' = [req EXCEPT ![r] = [@ EXCEPT !.step = step]]

\* Checkout of order o: the cart and the restaurant have been accepted (see
\* the README for where they are modelled) and the order is inserted.
Checkout(r, o) ==
    /\ req[r] = NoJob
    /\ status[o] = NotPlaced
    /\ Create(o)
    /\ req' = [req EXCEPT ![r] = [kind |-> "checkout", step |-> "record", order |-> o,
                                  seen |-> NotPlaced, target |-> "placed"]]
    /\ UNCHANGED <<history, notified, lost, faults>>

\* UpdateStatus reads the order and accepts the requested transition.
BeginUpdate(r, o, target) ==
    /\ req[r] = NoJob
    /\ CanTransitionTo(status[o], target)
    /\ req' = [req EXCEPT ![r] = [kind |-> "update", step |-> "write", order |-> o,
                                  seen |-> status[o], target |-> target]]
    /\ UNCHANGED <<status, stamps, history, notified, held, lost, faults>>

\* Cancel re-reads the order (the handler's own read serves access control
\* only) and accepts, given a reason.
BeginCancel(r, o) ==
    /\ req[r] = NoJob
    /\ CanTransitionTo(status[o], "cancelled")
    /\ req' = [req EXCEPT ![r] = [kind |-> "cancel", step |-> "write", order |-> o,
                                  seen |-> status[o], target |-> "cancelled"]]
    /\ UNCHANGED <<status, stamps, history, notified, held, lost, faults>>

\* The transition check fails: the caller gets a conflict, nothing changes.
Refuse(r, o, target) ==
    /\ req[r] = NoJob
    /\ status[o] # NotPlaced
    /\ ~CanTransitionTo(status[o], target)
    /\ UNCHANGED vars

\* Mutant: a guarded UPDATE whose "no row matched" is not noticed: the request
\* goes on to record and announce its target all the same.
MutantWrite(r) ==
    /\ req[r] # NoJob
    /\ req[r].step = "write"
    /\ IF status[req[r].order] = req[r].seen
         THEN IF req[r].kind = "cancel" THEN CancelOrder(req[r].order)
                                        ELSE UpdateOrderStatus(req[r].order, req[r].target)
         ELSE UNCHANGED rowVars
    /\ Goto(r, "record")
    /\ UNCHANGED <<history, notified, lost, faults>>

\* The UPDATE of an update or a cancel.
Write(r) ==
    /\ req[r] # NoJob
    /\ req[r].step = "write"
    /\ \/ /\ req[r].kind = "update"
          /\ UpdateOrderStatus(req[r].order, req[r].target)
       \/ /\ req[r].kind = "cancel"
          /\ CancelOrder(req[r].order)
    /\ Goto(r, "record")
    /\ UNCHANGED <<history, notified, lost, faults>>

\* Mutant: the history line names the status the request started from.
MutantRecordSeen(r) ==
    /\ req[r] # NoJob
    /\ req[r].step = "record"
    /\ history' = [history EXCEPT ![req[r].order] = @ \cup {req[r].seen}]
    /\ Goto(r, "notify")
    /\ UNCHANGED <<status, stamps, notified, held, lost, faults>>

\* Mutant: the history line names the status of the row at that moment.
MutantRecord(r) ==
    /\ req[r] # NoJob
    /\ req[r].step = "record"
    /\ history' = [history EXCEPT ![req[r].order] = @ \cup {status[req[r].order]}]
    /\ Goto(r, "notify")
    /\ UNCHANGED <<status, stamps, notified, held, lost, faults>>

\* RecordStatusChange: one more line in order_status_history.
Record(r) ==
    /\ req[r] # NoJob
    /\ req[r].step = "record"
    /\ history' = [history EXCEPT ![req[r].order] = @ \cup {req[r].target}]
    /\ Goto(r, "notify")
    /\ UNCHANGED <<status, stamps, notified, held, lost, faults>>

\* One more statement fails.
Fault ==
    /\ faults < MaxFaults
    /\ faults' = faults + 1

\* The insert fails; the service drops the error and carries on.
RecordFails(r) ==
    /\ req[r] # NoJob
    /\ req[r].step = "record"
    /\ Fault
    /\ lost' = [lost EXCEPT ![req[r].order] = @ \cup {req[r].target}]
    /\ Goto(r, "notify")
    /\ UNCHANGED <<status, stamps, history, notified, held>>

\* Mutant: the switch of statusNotification forgets the case "preparing".
MutantAnnounces(job) == job.kind # "update" \/ job.target \notin {"cancelled", "preparing"}

\* Which of its own writes a request announces: UpdateStatus has no message
\* for a cancellation, Cancel and Checkout always have one.
Announces(job) == job.kind # "update" \/ job.target # "cancelled"

\* The notification is dispatched and the request is answered.
Notify(r) ==
    /\ req[r] # NoJob
    /\ req[r].step = "notify"
    /\ notified' = [notified EXCEPT ![req[r].order] =
                      IF Announces(req[r]) THEN @ \cup {req[r].target} ELSE @]
    /\ req' = [req EXCEPT ![r] = NoJob]
    /\ UNCHANGED <<status, stamps, history, held, lost, faults>>

\* The request ends before its next statement: that statement fails, the
\* context is cancelled, the process stops.
Abort(r) ==
    /\ req[r] # NoJob
    /\ req' = [req EXCEPT ![r] = NoJob]
    /\ Fault
    /\ lost' = [lost EXCEPT ![req[r].order] =
                  IF req[r].step = "record" THEN @ \cup {req[r].target} ELSE @]
    /\ UNCHANGED <<status, stamps, history, notified, held>>

Next ==
    \E r \in Requests :
        \/ \E o \in OrderIds :
              \/ Checkout(r, o)
              \/ BeginCancel(r, o)
              \/ \E target \in Status : BeginUpdate(r, o, target) \/ Refuse(r, o, target)
        \/ Write(r)
        \/ Record(r)
        \/ RecordFails(r)
        \/ Notify(r)
        \/ Abort(r)

Spec == Init /\ [][Next]_vars

-----------------------------------------------------------------------------
(***************************************************************************)
(* Properties.                                                             *)
(***************************************************************************)

\* The milestone columns fill in lifecycle order, however requests overlap
\* and fail: an order is never stamped delivered without having been picked
\* up, nor picked up without having been ready, nor ready without having
\* been confirmed ("a restaurant can't mark an order delivered before it's
\* even been picked up", order_service.go, UpdateStatus).
MilestonesInOrder ==
    \A o \in OrderIds :
        /\ "delivered" \in stamps[o] => "out_for_delivery" \in stamps[o]
        /\ "out_for_delivery" \in stamps[o] => "ready_for_pickup" \in stamps[o]
        /\ "ready_for_pickup" \in stamps[o] => "confirmed" \in stamps[o]

\* What customer and restaurant are shown of an order is true: every line of
\* its history and every notification names a status its row really held,
\* and a cancellation is announced only with cancelled_at stamped.
WitnessesHeld ==
    \A o \in OrderIds :
        /\ history[o] \cup notified[o] \subseteq held[o]
        /\ "cancelled" \in notified[o] => "cancelled" \in stamps[o]

\* The history accounts for every status the row has held: a status without
\* a line is one whose request is about to write the line, or failed in
\* doing so.  Overlapping requests alone never lose a line.
TrailAccountsForAll ==
    \A o \in OrderIds : \A s \in held[o] :
        \/ s \in history[o]
        \/ s \in lost[o]
        \/ \E r \in Requests : /\ req[r] # NoJob
                               /\ req[r].step = "record"
                               /\ req[r].order = o
                               /\ req[r].target = s

\* Some request has passed its check on order o and not yet updated the row.
WritePending(o) ==
    \E r \in Requests : /\ req[r] # NoJob
                        /\ req[r].step = "write"
                        /\ req[r].order = o

\* Delivered and cancelled are final once the requests that read the order
\* earlier are through: from then on no request moves the order or gets as
\* far as an UPDATE.
TerminalOnceQuiet ==
    [][\A o \in OrderIds :
         IsTerminal(status[o]) /\ ~WritePending(o)
           => status'[o] = status[o] /\ ~WritePending(o)']_vars
=============================================================================
