---------------------------- MODULE OrdersSerial ----------------------------
(***************************************************************************)
(* Orders when no two requests about the same order overlap: what a row    *)
(* lock, a version check in the UPDATE or well-behaved clients would give. *)
(* Requests still fail half-way, and requests about different orders still *)
(* interleave.  Under this condition the read-check-write code implements  *)
(* OrderLifecycle; without it a late UPDATE may even leave 'cancelled'.     *)
(***************************************************************************)
EXTENDS Orders

\* Two requests in flight are about two orders.
NoOverlap ==
    \A r1, r2 \in Requests :
        req[r1] # NoJob /\ req[r2] # NoJob /\ r1 # r2 => req[r1].order # req[r2].order

SerialNext == Next /\ NoOverlap'

SerialSpec == Init /\ [][SerialNext]_vars

\* What is left of the request in slot r, which runs on by itself.
Serve(r) == Write(r) \/ Record(r) \/ RecordFails(r) \/ Notify(r) \/ Abort(r)

\* The goroutine of a request in flight is scheduled until it ends, and each
\* statement is answered or fails.  No client is obliged to send a request.
FairSerialSpec == SerialSpec /\ \A r \in Requests : WF_vars(Serve(r))

-----------------------------------------------------------------------------
\* The abstract order is the row: the requests, history lines, notifications
\* and history variables are hidden.
Lifecycle ==
    INSTANCE OrderLifecycle WITH OrderIds <- OrderIds, status <- status, stamps <- stamps

\* Absent overlap, the row of every order follows the state machine of
\* entity.go and its milestone columns are stamped as their status is
\* entered: the check made on a row read earlier is still right when the
\* unconditional UPDATE is executed.
ImplementsLifecycle == Lifecycle!Spec

\* The position of a status in the lifecycle; cancelled comes after the
\* statuses it may follow.
Rank ==
    [placed |-> 1, confirmed |-> 2, preparing |-> 3, cancelled |-> 4,
     ready_for_pickup |-> 5, out_for_delivery |-> 6, delivered |-> 7]

\* Absent overlap, the order timeline reads in lifecycle order: a new line is
\* about a later status than every line before it, even when lines in
\* between were lost to failed inserts.
TimelineInOrder ==
    [][\A o \in OrderIds : \A new \in history'[o] \ history[o], old \in history[o] :
         Rank[old] < Rank[new]]_vars

\* Absent overlap, a customer is told of each status while the order is in
\* it: the notification a request sends is about the row's present status.
NoticesAreCurrent ==
    [][\A o \in OrderIds : notified'[o] \ notified[o] \subseteq {status[o]}]_vars

\* Every status the order enters is announced to the customer in the end,
\* although the announcement is the last step of its request, in every
\* behaviour in which nothing fails.  Silent is only a cancellation made
\* through UpdateStatus, for which statusNotification has no message.
NoticeFollows ==
    \A o \in OrderIds : \A s \in Status :
        s \in held[o] ~> \/ s \in notified[o]
                         \/ s = "cancelled" /\ "cancelled" \notin stamps[o]
                         \/ faults > 0
=============================================================================
