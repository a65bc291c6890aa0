---------------------------- MODULE OrdersProofs ----------------------------
(***************************************************************************)
(* Proofs about Orders, for any number of orders, of request slots and of  *)
(* failures: the type invariant, the two invariants on what the order row  *)
(* and its witnesses say, the completeness of the history, and the         *)
(* finality of delivered and cancelled once no UPDATE is pending.  The     *)
(* last part proves that the serialised system implements OrderLifecycle.  *)
(***************************************************************************)
EXTENDS OrdersSerial, TLAPS

\* What a request in flight may rely on.  A check passed earlier stays true
\* of some status the row has held, which is all the milestones need.
JobInv(r) ==
    req[r] # NoJob =>
      /\ req[r].kind = "cancel" => req[r].target = "cancelled"
      /\ req[r].kind = "checkout" => req[r].target = "placed"
      /\ req[r].step = "write" =>
           /\ req[r].kind # "checkout"
           /\ req[r].seen \in held[req[r].order]
           /\ CanTransitionTo(req[r].seen, req[r].target)
      /\ req[r].step # "write" =>
           /\ req[r].target \in held[req[r].order]
           /\ req[r].kind = "cancel" => "cancelled" \in stamps[req[r].order]

\* The statuses an order has held are closed under "came through", and its
\* columns are stamped for exactly the milestones among them.
RowInv(o) ==
    /\ status[o] # NotPlaced => status[o] \in held[o]
    /\ stamps[o] \cap Milestone = held[o] \cap Milestone
    /\ "delivered" \in held[o] => "out_for_delivery" \in held[o]
    /\ "out_for_delivery" \in held[o] => "ready_for_pickup" \in held[o]
    /\ "ready_for_pickup" \in held[o] => "preparing" \in held[o]
    /\ "preparing" \in held[o] => "confirmed" \in held[o]

OrdersInv ==
    /\ TypeOK
    /\ \A r \in Requests : JobInv(r)
    /\ \A o \in OrderIds : RowInv(o)
    /\ WitnessesHeld

-----------------------------------------------------------------------------
\* The initial state satisfies the inductive invariant.
LEMMA InitOrdersInv == Init => OrdersInv
  <1> SUFFICES ASSUME Init PROVE OrdersInv
    OBVIOUS
  <1>1. TypeOK
    BY MaxFaultsAssumption DEF Init, TypeOK
  <1>2. \A r \in Requests : JobInv(r)
    BY DEF Init, JobInv
  <1>3. \A o \in OrderIds : RowInv(o)
    BY DEF Init, RowInv
  <1>4. WitnessesHeld
    BY DEF Init, WitnessesHeld
  <1> QED
    BY <1>1, <1>2, <1>3, <1>4 DEF OrdersInv

\* Every step preserves the type invariant.
LEMMA NextTypeOK == TypeOK /\ [Next]_vars => TypeOK'
  <1> SUFFICES ASSUME TypeOK, [Next]_vars PROVE TypeOK'
    OBVIOUS
  <1> USE NoJobAssumption, MaxFaultsAssumption DEF TypeOK, Job
  <1>1. ASSUME NEW r \in Requests, NEW o \in OrderIds, Checkout(r, o) PROVE TypeOK'
    BY <1>1 DEF Checkout, Create, Status
  <1>2. ASSUME NEW r \in Requests, NEW o \in OrderIds, BeginCancel(r, o) PROVE TypeOK'
    <2>1. status[o] \in Status \cup {NotPlaced} /\ "cancelled" \in Status
      BY DEF Status
    <2> QED
      BY <1>2, <2>1 DEF BeginCancel
  <1>3. ASSUME NEW r \in Requests, NEW o \in OrderIds, NEW target \in Status,
               BeginUpdate(r, o, target)
        PROVE  TypeOK'
    BY <1>3 DEF BeginUpdate
  <1>4. ASSUME NEW r \in Requests, Write(r) PROVE TypeOK'
    <2>1. req[r] \in Job
      BY <1>4 DEF Write
    <2>2. req' \in [Requests -> Job \cup {NoJob}]
      BY <1>4, <2>1 DEF Write, Goto
    <2>3. CASE UpdateOrderStatus(req[r].order, req[r].target)
      BY <1>4, <2>1, <2>2, <2>3 DEF Write, UpdateOrderStatus
    <2>4. CASE CancelOrder(req[r].order)
      <3>1. "cancelled" \in Status
        BY DEF Status
      <3> QED
        BY <1>4, <2>1, <2>2, <2>4, <3>1 DEF Write, CancelOrder
    <2> QED
      BY <1>4, <2>3, <2>4 DEF Write
  <1>5. ASSUME NEW r \in Requests, Record(r) PROVE TypeOK'
    BY <1>5 DEF Record, Goto
  <1>6. ASSUME NEW r \in Requests, RecordFails(r) PROVE TypeOK'
    BY <1>6 DEF RecordFails, Goto, Fault
  <1>7. ASSUME NEW r \in Requests, Notify(r) PROVE TypeOK'
    BY <1>7 DEF Notify
  <1>8. ASSUME NEW r \in Requests, Abort(r) PROVE TypeOK'
    BY <1>8 DEF Abort, Fault
  <1>9. CASE UNCHANGED vars
    BY <1>9 DEF vars
  <1> QED
    BY <1>1, <1>2, <1>3, <1>4, <1>5, <1>6, <1>7, <1>8, <1>9 DEF Next, Refuse

\* The variables keep their types (Orders!TypeOK), whatever requests overlap
\* or fail.
THEOREM TypeCorrect == Spec => []TypeOK
  <1>1. Init => TypeOK
    BY InitOrdersInv DEF OrdersInv
  <1> QED
    BY <1>1, NextTypeOK, PTL DEF Spec

-----------------------------------------------------------------------------
\* Goto moves the step of r's job and touches nothing else of any job.
LEMMA GotoJob ==
  ASSUME TypeOK, NEW r \in Requests, req[r] # NoJob,
         NEW step \in {"write", "record", "notify"}, Goto(r, step)
  PROVE  /\ req'[r] # NoJob
         /\ req'[r].kind = req[r].kind
         /\ req'[r].order = req[r].order
         /\ req'[r].seen = req[r].seen
         /\ req'[r].target = req[r].target
         /\ req'[r].step = step
         /\ \A q \in Requests \ {r} : req'[q] = req[q]
  <1>1. req[r] \in Job
    BY DEF TypeOK
  <1>2. req'[r] = [req[r] EXCEPT !.step = step]
    BY DEF Goto, TypeOK
  <1>3. req'[r] \in Job
    BY <1>1, <1>2 DEF Job
  <1> QED
    BY <1>1, <1>2, <1>3, NoJobAssumption DEF Goto, TypeOK, Job

\* A row only gains held statuses and stamps, so a request that a step
\* leaves alone keeps its invariant.
LEMMA JobInvFrame ==
  ASSUME TypeOK, NEW q \in Requests, JobInv(q), req'[q] = req[q],
         \A o \in OrderIds : held[o] \subseteq held'[o] /\ stamps[o] \subseteq stamps'[o]
  PROVE  JobInv(q)'
  <1>1. req[q] # NoJob => req[q].order \in OrderIds
    BY DEF TypeOK, Job
  <1> QED
    BY <1>1 DEF JobInv, CanTransitionTo

\* Every step preserves the inductive invariant.
LEMMA NextOrdersInv == OrdersInv /\ [Next]_vars => OrdersInv'
  <1> SUFFICES ASSUME OrdersInv, [Next]_vars PROVE OrdersInv'
    OBVIOUS
  <1> USE DEF OrdersInv
  <1>t. TypeOK'
    BY NextTypeOK
  <1>1. ASSUME NEW r \in Requests, NEW o \in OrderIds, Checkout(r, o) PROVE OrdersInv'
    <2> USE <1>1 DEF Checkout, Create
    <2>0. \A p \in OrderIds : /\ held'[p] = IF p = o THEN held[p] \cup {"placed"} ELSE held[p]
                              /\ stamps'[p] = stamps[p]
      BY DEF TypeOK
    <2>1. \A q \in Requests : JobInv(q)'
      <3> TAKE q \in Requests
      <3>1. CASE q = r
        BY <2>0, <3>1 DEF TypeOK, JobInv
      <3>2. CASE q # r
        BY <2>0, <3>2, JobInvFrame DEF TypeOK
      <3> QED
        BY <3>1, <3>2
    <2>2. \A p \in OrderIds : RowInv(p)'
      BY <2>0 DEF TypeOK, RowInv, Milestone
    <2>3. WitnessesHeld'
      BY <2>0 DEF WitnessesHeld
    <2> QED
      BY <1>t, <2>1, <2>2, <2>3
  <1>2. ASSUME NEW r \in Requests, NEW o \in OrderIds, BeginCancel(r, o) PROVE OrdersInv'
    <2> USE <1>2 DEF BeginCancel
    <2>1. \A q \in Requests : JobInv(q)'
      <3> TAKE q \in Requests
      <3>1. CASE q = r
        <4>1. status[o] # NotPlaced
          BY DEF CanTransitionTo, allowedTransitions, NotPlaced
        <4>2. status[o] \in held[o]
          BY <4>1 DEF RowInv
        <4> QED
          BY <3>1, <4>2 DEF TypeOK, JobInv, CanTransitionTo
      <3>2. CASE q # r
        BY <3>2, JobInvFrame DEF TypeOK
      <3> QED
        BY <3>1, <3>2
    <2>2. \A p \in OrderIds : RowInv(p)'
      BY DEF RowInv
    <2>3. WitnessesHeld'
      BY DEF WitnessesHeld
    <2> QED
      BY <1>t, <2>1, <2>2, <2>3
  <1>3. ASSUME NEW r \in Requests, NEW o \in OrderIds, NEW target \in Status,
               BeginUpdate(r, o, target)
        PROVE  OrdersInv'
    <2> USE <1>3 DEF BeginUpdate
    <2>1. \A q \in Requests : JobInv(q)'
      <3> TAKE q \in Requests
      <3>1. CASE q = r
        <4>1. status[o] # NotPlaced
          BY DEF CanTransitionTo, allowedTransitions, NotPlaced
        <4>2. status[o] \in held[o]
          BY <4>1 DEF RowInv
        <4> QED
          BY <3>1, <4>2 DEF TypeOK, JobInv, CanTransitionTo
      <3>2. CASE q # r
        BY <3>2, JobInvFrame DEF TypeOK
      <3> QED
        BY <3>1, <3>2
    <2>2. \A p \in OrderIds : RowInv(p)'
      BY DEF RowInv
    <2>3. WitnessesHeld'
      BY DEF WitnessesHeld
    <2> QED
      BY <1>t, <2>1, <2>2, <2>3
  <1>4. ASSUME NEW r \in Requests, Write(r) PROVE OrdersInv'
    <2> DEFINE o == req[r].order
               target == req[r].target
    <2>0. /\ req[r] # NoJob
          /\ o \in OrderIds
          /\ target \in Status
          /\ req[r].kind \in {"update", "cancel"}
          /\ req[r].kind = "cancel" => target = "cancelled"
          /\ req[r].seen \in held[o]
          /\ CanTransitionTo(req[r].seen, target)
      BY <1>4 DEF Write, TypeOK, Job, JobInv
    <2>1. /\ status' = [status EXCEPT ![o] = target]
          /\ held' = [held EXCEPT ![o] = @ \cup {target}]
          /\ \A p \in OrderIds : stamps[p] \subseteq stamps'[p]
          /\ \A p \in OrderIds \ {o} : stamps'[p] = stamps[p]
          /\ stamps'[o] \cap Milestone = (stamps[o] \cup {target}) \cap Milestone
          /\ req[r].kind = "cancel" => "cancelled" \in stamps'[o]
      <3>1. CASE req[r].kind = "update"
        BY <1>4, <2>0, <3>1 DEF Write, UpdateOrderStatus, TypeOK
      <3>2. CASE req[r].kind = "cancel"
        BY <1>4, <2>0, <3>2 DEF Write, CancelOrder, TypeOK, Milestone
      <3> QED
        BY <2>0, <3>1, <3>2
    <2>2. \A p \in OrderIds : held'[p] = IF p = o THEN held[p] \cup {target} ELSE held[p]
      BY <2>1 DEF TypeOK
    <2>3. \A q \in Requests : JobInv(q)'
      <3> TAKE q \in Requests
      <3>1. CASE q = r
        <4>1. /\ req'[r].kind = req[r].kind
              /\ req'[r].order = o
              /\ req'[r].target = target
              /\ req'[r].step = "record"
          BY <1>4, <2>0, GotoJob DEF Write
        <4>2. target \in held'[o]
          BY <2>0, <2>2
        <4> HIDE DEF o, target
        <4> QED
          BY <2>0, <2>1, <3>1, <4>1, <4>2 DEF JobInv
      <3>2. CASE q # r
        <4>1. req'[q] = req[q]
          BY <1>4, <2>0, <3>2, GotoJob DEF Write
        <4> QED
          BY <2>1, <2>2, <4>1, JobInvFrame
      <3> QED
        BY <3>1, <3>2
    <2>4. \A p \in OrderIds : RowInv(p)'
      <3> TAKE p \in OrderIds
      <3>1. CASE p = o
        <4>1. /\ "delivered" \in held'[o] => "out_for_delivery" \in held'[o]
              /\ "out_for_delivery" \in held'[o] => "ready_for_pickup" \in held'[o]
              /\ "ready_for_pickup" \in held'[o] => "preparing" \in held'[o]
              /\ "preparing" \in held'[o] => "confirmed" \in held'[o]
          <5>1. /\ held'[o] = held[o] \cup {target}
                /\ req[r].seen \in held[o]
                /\ <<req[r].seen, target>> \in allowedTransitions
                /\ RowInv(o)
            BY <2>0, <2>2 DEF CanTransitionTo
          <5> HIDE DEF o, target
          <5>2. /\ target = "delivered" => "out_for_delivery" \in held[o]
                /\ target = "out_for_delivery" => "ready_for_pickup" \in held[o]
                /\ target = "ready_for_pickup" => "preparing" \in held[o]
                /\ target = "preparing" => "confirmed" \in held[o]
            BY <5>1 DEF allowedTransitions
          <5> QED
            BY <5>1, <5>2 DEF RowInv
        <4>2. status'[o] = target /\ target \in held'[o]
          BY <2>0, <2>1, <2>2 DEF TypeOK
        <4>3. stamps'[o] \cap Milestone = held'[o] \cap Milestone
          BY <2>0, <2>1, <2>2 DEF RowInv
        <4> QED
          BY <3>1, <4>1, <4>2, <4>3 DEF RowInv
      <3>2. CASE p # o
        <4>1. status'[p] = status[p] /\ held'[p] = held[p] /\ stamps'[p] = stamps[p]
          BY <2>0, <2>1, <2>2, <3>2 DEF TypeOK
        <4> QED
          BY <4>1 DEF RowInv
      <3> QED
        BY <3>1, <3>2
    <2>5. WitnessesHeld'
      BY <1>4, <2>0, <2>1, <2>2 DEF Write, WitnessesHeld
    <2> QED
      BY <1>t, <2>3, <2>4, <2>5
  <1>5. ASSUME NEW r \in Requests, Record(r) \/ RecordFails(r) PROVE OrdersInv'
    <2>0. /\ req[r] # NoJob
          /\ req[r].order \in OrderIds
          /\ req[r].target \in held[req[r].order]
          /\ req[r].kind = "cancel" => "cancelled" \in stamps[req[r].order]
          /\ Goto(r, "notify")
          /\ UNCHANGED <<status, stamps, notified, held>>
      BY <1>5 DEF Record, RecordFails, TypeOK, Job, JobInv
    <2>1. \A q \in Requests : JobInv(q)'
      <3> TAKE q \in Requests
      <3>1. CASE q = r
        BY <2>0, <3>1, GotoJob DEF JobInv
      <3>2. CASE q # r
        BY <2>0, <3>2, GotoJob, JobInvFrame
      <3> QED
        BY <3>1, <3>2
    <2>2. \A p \in OrderIds : RowInv(p)'
      BY <2>0 DEF RowInv
    <2>3. WitnessesHeld'
      BY <1>5, <2>0 DEF Record, RecordFails, WitnessesHeld, TypeOK
    <2> QED
      BY <1>t, <2>1, <2>2, <2>3
  <1>6. ASSUME NEW r \in Requests, Notify(r) PROVE OrdersInv'
    <2>0. /\ req[r] # NoJob
          /\ req[r].order \in OrderIds
          /\ req[r].target \in held[req[r].order]
          /\ req[r].kind = "cancel" => "cancelled" \in stamps[req[r].order]
          /\ req[r].kind = "checkout" => req[r].target = "placed"
          /\ req[r].kind \in {"checkout", "update", "cancel"}
      BY <1>6 DEF Notify, TypeOK, Job, JobInv
    <2>1. \A q \in Requests : JobInv(q)'
      BY <1>6 DEF Notify, TypeOK, JobInv, CanTransitionTo
    <2>2. \A p \in OrderIds : RowInv(p)'
      BY <1>6 DEF Notify, RowInv
    <2>3. WitnessesHeld'
      BY <1>6, <2>0 DEF Notify, WitnessesHeld, Announces, TypeOK
    <2> QED
      BY <1>t, <2>1, <2>2, <2>3
  <1>7. ASSUME NEW r \in Requests, Abort(r) PROVE OrdersInv'
    <2>1. \A q \in Requests : JobInv(q)'
      BY <1>7 DEF Abort, TypeOK, JobInv, CanTransitionTo
    <2>2. \A p \in OrderIds : RowInv(p)'
      BY <1>7 DEF Abort, RowInv
    <2>3. WitnessesHeld'
      BY <1>7 DEF Abort, WitnessesHeld
    <2> QED
      BY <1>t, <2>1, <2>2, <2>3
  <1>8. CASE UNCHANGED vars
    <2>1. \A q \in Requests : JobInv(q)'
      BY <1>8 DEF vars, JobInv, CanTransitionTo
    <2>2. \A p \in OrderIds : RowInv(p)'
      BY <1>8 DEF vars, RowInv
    <2>3. WitnessesHeld'
      BY <1>8 DEF vars, WitnessesHeld
    <2> QED
      BY <1>t, <2>1, <2>2, <2>3
  <1> QED
    BY <1>1, <1>2, <1>3, <1>4, <1>5, <1>6, <1>7, <1>8 DEF Next, Refuse

\* The inductive invariant holds in every reachable state.
LEMMA SpecOrdersInv == Spec => []OrdersInv
  BY InitOrdersInv, NextOrdersInv, PTL DEF Spec

\* The milestone columns of every order fill in lifecycle order, under every
\* interleaving of its requests: MilestonesInOrder of the run orders.
THEOREM MilestonesCorrect == Spec => []MilestonesInOrder
  <1>1. OrdersInv => MilestonesInOrder
    BY DEF OrdersInv, RowInv, MilestonesInOrder, Milestone
  <1> QED
    BY <1>1, SpecOrdersInv, PTL

\* History lines and notifications name statuses the order has held, and an
\* announced cancellation is stamped: WitnessesHeld of the run orders.
THEOREM WitnessesCorrect == Spec => []WitnessesHeld
  <1>1. OrdersInv => WitnessesHeld
    BY DEF OrdersInv
  <1> QED
    BY <1>1, SpecOrdersInv, PTL

-----------------------------------------------------------------------------
\* The history accounts for every status held (TrailAccountsForAll of the run
\* orders): only a failed or interrupted insert loses a line.
LEMMA NextTrail == OrdersInv /\ TrailAccountsForAll /\ [Next]_vars => TrailAccountsForAll'
  <1> SUFFICES ASSUME TypeOK, \A r \in Requests : JobInv(r),
                      TrailAccountsForAll, [Next]_vars,
                      NEW o \in OrderIds, NEW s \in held'[o]
               PROVE  \/ s \in history'[o]
                      \/ s \in lost'[o]
                      \/ \E q \in Requests : /\ req'[q] # NoJob
                                             /\ req'[q].step = "record"
                                             /\ req'[q].order = o
                                             /\ req'[q].target = s
    BY DEF TrailAccountsForAll, OrdersInv
  <1> DEFINE Pending(q) == /\ req[q] # NoJob
                           /\ req[q].step = "record"
                           /\ req[q].order = o
                           /\ req[q].target = s
             Accounted == \/ s \in history[o]
                          \/ s \in lost[o]
                          \/ \E q \in Requests : Pending(q)
             Goal == \/ s \in history'[o]
                     \/ s \in lost'[o]
                     \/ \E q \in Requests : Pending(q)'
  <1> SUFFICES Goal
    OBVIOUS
  <1>0. s \in held[o] => Accounted
    BY DEF TrailAccountsForAll
  <1>1. ASSUME NEW r \in Requests, NEW p \in OrderIds, Checkout(r, p) PROVE Goal
    <2>1. CASE s \in held[o]
      <3>1. \A q \in Requests : Pending(q) => req'[q] = req[q]
        BY <1>1 DEF Checkout, TypeOK
      <3> QED
        BY <1>0, <1>1, <2>1, <3>1 DEF Checkout
    <2>2. CASE s \notin held[o]
      <3>1. o = p /\ s = "placed"
        BY <1>1, <2>2 DEF Checkout, Create, TypeOK
      <3>2. req'[r] = [kind |-> "checkout", step |-> "record", order |-> p,
                       seen |-> NotPlaced, target |-> "placed"]
        BY <1>1 DEF Checkout, TypeOK
      <3>3. req'[r] \in Job
        BY <3>2 DEF Job, Status
      <3> QED
        BY <3>1, <3>2, <3>3, NoJobAssumption
    <2> QED
      BY <2>1, <2>2
  <1>2. ASSUME NEW r \in Requests, NEW p \in OrderIds,
               BeginCancel(r, p) \/ \E target \in Status : BeginUpdate(r, p, target)
        PROVE  Goal
    <2>1. \A q \in Requests : Pending(q) => req'[q] = req[q]
      BY <1>2 DEF BeginCancel, BeginUpdate, TypeOK
    <2> QED
      BY <1>0, <1>2, <2>1 DEF BeginCancel, BeginUpdate
  <1>3. ASSUME NEW r \in Requests, Write(r) PROVE Goal
    <2>0. req[r] # NoJob /\ req[r] \in Job /\ req[r].step = "write" /\ Goto(r, "record")
      BY <1>3 DEF Write, TypeOK
    <2>1. CASE s \in held[o]
      <3>1. \A q \in Requests : Pending(q) => req'[q] = req[q]
        BY <2>0 DEF Goto, TypeOK
      <3> QED
        BY <1>0, <1>3, <2>1, <3>1 DEF Write
    <2>2. CASE s \notin held[o]
      <3>1. o = req[r].order /\ (s = req[r].target \/ (req[r].kind = "cancel" /\ s = "cancelled"))
        BY <1>3, <2>0, <2>2 DEF Write, UpdateOrderStatus, CancelOrder, TypeOK, Job
      <3>2. req[r].kind = "cancel" => req[r].target = "cancelled"
        BY <2>0 DEF JobInv
      <3> QED
        BY <2>0, <3>1, <3>2, GotoJob
    <2> QED
      BY <2>1, <2>2
  <1>4. ASSUME NEW r \in Requests, Record(r) \/ RecordFails(r) PROVE Goal
    <2>0. /\ req[r] # NoJob
          /\ req[r].order \in OrderIds
          /\ Goto(r, "notify")
          /\ held' = held
      BY <1>4 DEF Record, RecordFails, TypeOK, Job
    <2>1. CASE Pending(r)
      BY <1>4, <2>0, <2>1 DEF Record, RecordFails, TypeOK
    <2>2. CASE ~Pending(r)
      <3>1. \A q \in Requests : Pending(q) => req'[q] = req[q]
        BY <2>0, <2>2 DEF Goto, TypeOK
      <3>2. history[o] \subseteq history'[o] /\ lost[o] \subseteq lost'[o]
        BY <1>4 DEF Record, RecordFails, TypeOK
      <3> QED
        BY <1>0, <2>0, <3>1, <3>2
    <2> QED
      BY <2>1, <2>2
  <1>5. ASSUME NEW r \in Requests, Notify(r) PROVE Goal
    <2>1. \A q \in Requests : Pending(q) => req'[q] = req[q]
      BY <1>5 DEF Notify, TypeOK
    <2> QED
      BY <1>0, <1>5, <2>1 DEF Notify
  <1>6. ASSUME NEW r \in Requests, Abort(r) PROVE Goal
    <2>1. CASE Pending(r)
      BY <1>6, <2>1 DEF Abort, TypeOK
    <2>2. CASE ~Pending(r)
      <3>1. \A q \in Requests : Pending(q) => req'[q] = req[q]
        BY <1>6, <2>2 DEF Abort, TypeOK
      <3>2. lost[o] \subseteq lost'[o]
        BY <1>6 DEF Abort, TypeOK
      <3> QED
        BY <1>0, <1>6, <3>1, <3>2 DEF Abort
    <2> QED
      BY <2>1, <2>2
  <1>7. CASE UNCHANGED vars
    BY <1>0, <1>7 DEF vars
  <1> QED
    BY <1>1, <1>2, <1>3, <1>4, <1>5, <1>6, <1>7 DEF Next, Refuse

\* The history of every order accounts for every status its row has held, in
\* every reachable state: TrailAccountsForAll of the run orders.
THEOREM TrailCorrect == Spec => []TrailAccountsForAll
  <1>1. Init => TrailAccountsForAll
    BY DEF Init, TrailAccountsForAll
  <1> QED
    BY <1>1, SpecOrdersInv, NextTrail, PTL DEF Spec

-----------------------------------------------------------------------------
\* Once an order is delivered or cancelled and no UPDATE on it is pending, no
\* request moves it or gets as far as an UPDATE: TerminalOnceQuiet of the run
\* orders.
THEOREM TerminalCorrect == Spec => TerminalOnceQuiet
  <1> DEFINE Quiet(o) == IsTerminal(status[o]) /\ ~WritePending(o)
             Stays(o) == status'[o] = status[o] /\ ~WritePending(o)'
  <1>1. OrdersInv /\ [Next]_vars => [\A o \in OrderIds : Quiet(o) => Stays(o)]_vars
    <2> SUFFICES ASSUME OrdersInv, [Next]_vars, NEW o \in OrderIds, Quiet(o)
                 PROVE  Stays(o)
      OBVIOUS
    <2> USE DEF OrdersInv
    <2>0. status[o] \in {"delivered", "cancelled"} /\ status[o] # NotPlaced
      BY DEF IsTerminal, NotPlaced
    <2>1. ASSUME NEW r \in Requests, NEW p \in OrderIds, Checkout(r, p) PROVE Stays(o)
      <3>1. p # o
        BY <2>0, <2>1 DEF Checkout
      <3>2. req'[r].step = "record"
        BY <2>1 DEF Checkout, TypeOK
      <3> QED
        BY <2>1, <3>1, <3>2 DEF Checkout, Create, TypeOK, WritePending
    <2>2. ASSUME NEW r \in Requests, NEW p \in OrderIds,
                 BeginCancel(r, p) \/ \E target \in Status : BeginUpdate(r, p, target)
          PROVE  Stays(o)
      <3>1. p # o
        BY <2>0, <2>2 DEF BeginCancel, BeginUpdate, CanTransitionTo, allowedTransitions
      <3>2. req'[r].order = p /\ \A q \in Requests \ {r} : req'[q] = req[q]
        BY <2>2 DEF BeginCancel, BeginUpdate, TypeOK
      <3> QED
        BY <2>2, <3>1, <3>2 DEF BeginCancel, BeginUpdate, WritePending
    <2>3. ASSUME NEW r \in Requests, Write(r) PROVE Stays(o)
      <3>1. req[r] # NoJob /\ req[r].order # o /\ req[r].order \in OrderIds
        BY <2>3 DEF Write, WritePending, TypeOK, Job
      <3>2. status'[o] = status[o]
        BY <2>3, <3>1 DEF Write, UpdateOrderStatus, CancelOrder, TypeOK
      <3>3. ~WritePending(o)'
        BY <2>3, <3>1, GotoJob DEF Write, WritePending
      <3> QED
        BY <3>2, <3>3
    <2>4. ASSUME NEW r \in Requests, Record(r) \/ RecordFails(r) PROVE Stays(o)
      <3>1. req[r] # NoJob /\ Goto(r, "notify") /\ status' = status
        BY <2>4 DEF Record, RecordFails
      <3> QED
        BY <3>1, GotoJob DEF WritePending
    <2>5. ASSUME NEW r \in Requests, Notify(r) \/ Abort(r) PROVE Stays(o)
      BY <2>5 DEF Notify, Abort, WritePending, TypeOK
    <2>6. CASE UNCHANGED vars
      BY <2>6 DEF vars, WritePending
    <2> QED
      BY <2>1, <2>2, <2>3, <2>4, <2>5, <2>6 DEF Next, Refuse
  <1>2. Spec => [][Next]_vars /\ []OrdersInv
    BY SpecOrdersInv, PTL DEF Spec
  <1> QED
    BY <1>1, <1>2, PTL DEF TerminalOnceQuiet

-----------------------------------------------------------------------------
(***************************************************************************)
(* The serialised system implements OrderLifecycle.                        *)
(***************************************************************************)

\* What a request read is what the row still says when it writes.
FreshInv ==
    \A r \in Requests :
        req[r] # NoJob /\ req[r].step = "write" => status[req[r].order] = req[r].seen

SerialInv == OrdersInv /\ NoOverlap /\ FreshInv

\* SerialInv is inductive for the serialised system.
LEMMA SerialInvInductive ==
  /\ Init => SerialInv
  /\ SerialInv /\ [SerialNext]_vars => SerialInv'
  <1>1. Init => SerialInv
    BY InitOrdersInv DEF Init, SerialInv, NoOverlap, FreshInv
  <1>2. SerialInv /\ [SerialNext]_vars => SerialInv'
    <2> SUFFICES ASSUME SerialInv, [SerialNext]_vars PROVE SerialInv'
      OBVIOUS
    <2> USE DEF SerialInv
    <2>1. [Next]_vars
      BY DEF SerialNext
    <2>2. OrdersInv'
      BY <2>1, NextOrdersInv
    <2>3. NoOverlap'
      BY DEF SerialNext, NoOverlap, vars
    <2>4. FreshInv'
      <3> SUFFICES ASSUME NEW q \in Requests, req'[q] # NoJob, req'[q].step = "write"
                   PROVE  status'[req'[q].order] = req'[q].seen
        BY DEF FreshInv
      <3> USE DEF OrdersInv
      <3>1. ASSUME NEW r \in Requests, NEW o \in OrderIds, Checkout(r, o)
            PROVE  status'[req'[q].order] = req'[q].seen
        <4>1. q # r
          BY <3>1 DEF Checkout, TypeOK
        <4>2. req'[q] = req[q] /\ req[q].order \in OrderIds
          BY <3>1, <4>1 DEF Checkout, TypeOK, Job
        <4>3. status[req[q].order] # NotPlaced
          BY <4>2 DEF FreshInv, JobInv, CanTransitionTo, allowedTransitions, NotPlaced
        <4> QED
          BY <3>1, <4>2, <4>3 DEF Checkout, Create, FreshInv, TypeOK
      <3>2. ASSUME NEW r \in Requests, NEW o \in OrderIds,
                   BeginCancel(r, o) \/ \E target \in Status : BeginUpdate(r, o, target)
            PROVE  status'[req'[q].order] = req'[q].seen
        BY <3>2 DEF BeginCancel, BeginUpdate, FreshInv, TypeOK
      <3>3. ASSUME NEW r \in Requests, Write(r) PROVE status'[req'[q].order] = req'[q].seen
        <4>1. req[r] # NoJob /\ Goto(r, "record")
          BY <3>3 DEF Write
        <4>2. q # r
          BY <4>1, GotoJob
        <4>3. req'[q] = req[q]
          BY <4>1, <4>2, GotoJob
        <4>4. req[q].order # req[r].order
          BY <4>1, <4>2, <4>3 DEF NoOverlap
        <4> QED
          BY <3>3, <4>3, <4>4
             DEF Write, UpdateOrderStatus, CancelOrder, FreshInv, TypeOK, Job
      <3>4. ASSUME NEW r \in Requests, Record(r) \/ RecordFails(r)
            PROVE  status'[req'[q].order] = req'[q].seen
        <4>1. req[r] # NoJob /\ Goto(r, "notify") /\ status' = status
          BY <3>4 DEF Record, RecordFails
        <4>2. q # r
          BY <4>1, GotoJob
        <4> QED
          BY <4>1, <4>2, GotoJob DEF FreshInv
      <3>5. ASSUME NEW r \in Requests, Notify(r) \/ Abort(r)
            PROVE  status'[req'[q].order] = req'[q].seen
        BY <3>5 DEF Notify, Abort, FreshInv, TypeOK
      <3>6. CASE UNCHANGED vars
        BY <3>6 DEF vars, FreshInv
      <3> QED
        BY <2>1, <3>1, <3>2, <3>3, <3>4, <3>5, <3>6 DEF Next, Refuse
    <2> QED
      BY <2>2, <2>3, <2>4
  <1> QED
    BY <1>1, <1>2

\* With no two requests in flight about the same order, the read-check-write
\* code implements the order state machine: ImplementsLifecycle of the run
\* orders_serial, for any number of orders, requests and failures.
THEOREM SerialImplementsLifecycle == SerialSpec => ImplementsLifecycle
  <1>1. Init => Lifecycle!Init
    BY DEF Init, Lifecycle!Init, NotPlaced, Lifecycle!NotPlaced
  <1>2. SerialInv /\ [SerialNext]_vars => [Lifecycle!Next]_(Lifecycle!lifecycleVars)
    <2> SUFFICES ASSUME SerialInv, Next
                 PROVE  Lifecycle!Next \/ UNCHANGED <<status, stamps>>
      BY DEF SerialNext, vars, Lifecycle!lifecycleVars
    <2> USE DEF SerialInv, OrdersInv
    <2>1. ASSUME NEW r \in Requests, NEW o \in OrderIds, Checkout(r, o)
          PROVE  Lifecycle!Next
      <3>1. Lifecycle!Place(o)
        BY <2>1 DEF Checkout, Create, Lifecycle!Place, NotPlaced, Lifecycle!NotPlaced
      <3> QED
        BY <3>1 DEF Lifecycle!Next
    <2>2. ASSUME NEW r \in Requests, Write(r) PROVE Lifecycle!Next
      <3> DEFINE o == req[r].order
                 target == req[r].target
      <3>1. /\ req[r] # NoJob
            /\ o \in OrderIds
            /\ target \in Status
            /\ req[r].kind \in {"update", "cancel"}
            /\ req[r].kind = "cancel" => target = "cancelled"
            /\ CanTransitionTo(status[o], target)
        BY <2>2 DEF Write, TypeOK, Job, JobInv, FreshInv
      <3>2. Lifecycle!CanTransitionTo(status[o], target)
        BY <3>1 DEF CanTransitionTo, allowedTransitions,
                    Lifecycle!CanTransitionTo, Lifecycle!allowedTransitions
      <3>3. \E extra \in SUBSET ({target} \cap {"cancelled"}) :
              stamps' = [stamps EXCEPT ![o] =
                           @ \cup ({target} \cap Lifecycle!Milestone) \cup extra]
        <4>1. CASE req[r].kind = "update"
          <5>1. stamps' = [stamps EXCEPT ![o] = @ \cup ({target} \cap Milestone)]
            BY <2>2, <3>1, <4>1 DEF Write, UpdateOrderStatus
          <5>2. {} \in SUBSET ({target} \cap {"cancelled"})
            OBVIOUS
          <5>3. stamps' = [stamps EXCEPT ![o] =
                             @ \cup ({target} \cap Lifecycle!Milestone) \cup {}]
            BY <5>1 DEF Milestone, Lifecycle!Milestone
          <5> QED
            BY <5>2, <5>3
        <4>2. CASE req[r].kind = "cancel"
          <5>1. stamps' = [stamps EXCEPT ![o] = @ \cup {"cancelled"}]
            BY <2>2, <3>1, <4>2 DEF Write, CancelOrder
          <5>2. {"cancelled"} \in SUBSET ({target} \cap {"cancelled"})
            BY <3>1, <4>2
          <5>3. {target} \cap Lifecycle!Milestone = {}
            BY <3>1, <4>2 DEF Lifecycle!Milestone
          <5>4. stamps' = [stamps EXCEPT ![o] =
                             @ \cup ({target} \cap Lifecycle!Milestone) \cup {"cancelled"}]
            BY <5>1, <5>3
          <5> QED
            BY <5>2, <5>4
        <4> QED
          BY <3>1, <4>1, <4>2
      <3>4. status' = [status EXCEPT ![o] = target]
        BY <2>2, <3>1 DEF Write, UpdateOrderStatus, CancelOrder
      <3>5. Lifecycle!Advance(o, target)
        BY <3>2, <3>3, <3>4 DEF Lifecycle!Advance
      <3>6. target \in Lifecycle!Status
        BY <3>1 DEF Status, Lifecycle!Status
      <3> QED
        BY <3>1, <3>5, <3>6 DEF Lifecycle!Next
    <2>3. ASSUME NEW r \in Requests,
                 \/ Record(r) \/ RecordFails(r) \/ Notify(r) \/ Abort(r)
                 \/ \E o \in OrderIds :
                      \/ BeginCancel(r, o)
                      \/ \E target \in Status : BeginUpdate(r, o, target) \/ Refuse(r, o, target)
          PROVE  UNCHANGED <<status, stamps>>
      BY <2>3 DEF Record, RecordFails, Notify, Abort, BeginCancel, BeginUpdate, Refuse, vars
    <2> QED
      BY <2>1, <2>2, <2>3 DEF Next
  <1> QED
    BY <1>1, <1>2, SerialInvInductive, PTL
       DEF SerialSpec, ImplementsLifecycle, Lifecycle!Spec

-----------------------------------------------------------------------------
(***************************************************************************)
(* Timeline and notices without overlap.                                   *)
(***************************************************************************)

LEMMA Ranks ==
    /\ \A s \in Status : Rank[s] \in Nat
    /\ \A s, t \in Status : CanTransitionTo(s, t) => Rank[s] < Rank[t]
  <1>1. /\ Rank["placed"] = 1 /\ Rank["confirmed"] = 2 /\ Rank["preparing"] = 3
        /\ Rank["cancelled"] = 4 /\ Rank["ready_for_pickup"] = 5
        /\ Rank["out_for_delivery"] = 6 /\ Rank["delivered"] = 7
    BY DEF Rank
  <1>2. \A s \in Status : Rank[s] \in Nat
    BY <1>1 DEF Status
  <1>3. \A s, t \in Status : CanTransitionTo(s, t) => Rank[s] < Rank[t]
    BY <1>1 DEF CanTransitionTo, allowedTransitions
  <1> QED
    BY <1>2, <1>3

\* What a request has written is still the status of the row, and the history
\* is behind it.
TimelineInv ==
    /\ \A r \in Requests : req[r] # NoJob /\ req[r].step # "write" =>
         status[req[r].order] = req[r].target
    /\ \A o \in OrderIds : \A s \in history[o] :
         status[o] # NotPlaced /\ Rank[s] <= Rank[status[o]]
    /\ \A r \in Requests : req[r] # NoJob /\ req[r].step = "record" =>
         \A s \in history[req[r].order] : Rank[s] < Rank[req[r].target]

\* Each request that is in flight is about an order and a target.
LEMMA RequestAt ==
    ASSUME TypeOK, NEW r \in Requests, req[r] # NoJob
    PROVE  req[r].order \in OrderIds /\ req[r].target \in Status
  BY DEF TypeOK, Job

\* A request ends, or has not written yet.
LEMMA TimelineStays ==
    ASSUME TimelineInv, UNCHANGED <<status, history>>,
           \A q \in Requests :
             req'[q] = req[q] \/ req'[q] = NoJob \/ req'[q].step = "write"
    PROVE  TimelineInv'
  <1>1. \A q \in Requests : req'[q] # NoJob /\ req'[q].step # "write" =>
          status'[req'[q].order] = req'[q].target
    BY DEF TimelineInv
  <1>2. \A o \in OrderIds : \A s \in history'[o] :
          status'[o] # NotPlaced /\ Rank[s] <= Rank[status'[o]]
    BY DEF TimelineInv
  <1>3. \A q \in Requests : req'[q] # NoJob /\ req'[q].step = "record" =>
          \A s \in history'[req'[q].order] : Rank[s] < Rank[req'[q].target]
    BY DEF TimelineInv
  <1> QED
    BY <1>1, <1>2, <1>3 DEF TimelineInv

LEMMA CheckoutKeepsTimeline ==
    ASSUME SerialInv, TimelineInv, NEW r \in Requests, NEW o \in OrderIds, Checkout(r, o),
           NoOverlap'
    PROVE  TimelineInv'
  <1> USE DEF SerialInv, OrdersInv
  <1>1. PICK newJob : newJob = [kind |-> "checkout", step |-> "record", order |-> o,
                                seen |-> NotPlaced, target |-> "placed"]
    OBVIOUS
  <1>2. newJob \in Job /\ newJob.step = "record" /\ newJob.order = o /\ newJob.target = "placed"
    BY <1>1 DEF Job, Status
  <1>3. /\ req' = [req EXCEPT ![r] = newJob]
        /\ status' = [status EXCEPT ![o] = "placed"] /\ history' = history
    BY <1>1 DEF Checkout, Create
  <1>4. req'[r] = newJob /\ newJob # NoJob /\ \A q \in Requests \ {r} : req'[q] = req[q]
    BY <1>2, <1>3, NoJobAssumption DEF TypeOK
  <1>5. \A q \in Requests \ {r} : req[q] # NoJob => req[q].order # o
    BY <1>2, <1>4 DEF NoOverlap
  <1>6. history[o] = {}
    BY DEF Checkout, TimelineInv
  <1>7. status'[o] = "placed" /\ \A p \in OrderIds \ {o} : status'[p] = status[p]
    BY <1>3 DEF TypeOK
  <1>8. \A q \in Requests : req'[q] # NoJob /\ req'[q].step # "write" =>
          status'[req'[q].order] = req'[q].target
    BY <1>2, <1>4, <1>5, <1>7, RequestAt DEF TimelineInv
  <1>9. \A p \in OrderIds : \A s \in history'[p] :
          status'[p] # NotPlaced /\ Rank[s] <= Rank[status'[p]]
    BY <1>3, <1>6, <1>7 DEF TimelineInv
  <1>10. \A q \in Requests : req'[q] # NoJob /\ req'[q].step = "record" =>
           \A s \in history'[req'[q].order] : Rank[s] < Rank[req'[q].target]
    BY <1>2, <1>3, <1>4, <1>6 DEF TimelineInv
  <1> QED
    BY <1>8, <1>9, <1>10 DEF TimelineInv

LEMMA WriteKeepsTimeline ==
    ASSUME SerialInv, TimelineInv, NEW r \in Requests, Write(r)
    PROVE  TimelineInv'
  <1> USE DEF SerialInv, OrdersInv
  <1>1. PICK o \in OrderIds, t \in Status : o = req[r].order /\ t = req[r].target
    BY RequestAt DEF Write
  <1>2. req[r] # NoJob /\ req[r].step = "write" /\ Goto(r, "record") /\ history' = history
    BY DEF Write
  <1>3. /\ req'[r] # NoJob /\ req'[r].order = o /\ req'[r].target = t
        /\ req'[r].step = "record"
        /\ \A q \in Requests \ {r} : req'[q] = req[q]
    BY <1>1, <1>2, GotoJob
  <1>4. CanTransitionTo(status[o], t) /\ status[o] \in Status
    <2>1. status[o] = req[r].seen /\ CanTransitionTo(req[r].seen, t)
      BY <1>1, <1>2 DEF FreshInv, JobInv
    <2> QED
      BY <2>1 DEF CanTransitionTo, allowedTransitions, Status
  <1>5. status' = [status EXCEPT ![o] = t]
    BY <1>1, <1>2 DEF Write, UpdateOrderStatus, CancelOrder, JobInv
  <1>6. status'[o] = t /\ \A p \in OrderIds \ {o} : status'[p] = status[p]
    BY <1>5 DEF TypeOK
  <1>7. \A q \in Requests \ {r} : req[q] # NoJob => req[q].order # o
    BY <1>1, <1>2 DEF NoOverlap
  <1>8. \A s \in history[o] : Rank[s] < Rank[t]
    <2>1. TAKE s \in history[o]
    <2>2. s \in Status /\ Rank[s] <= Rank[status[o]]
      BY DEF TypeOK, TimelineInv
    <2> QED
      BY <1>4, <2>2, Ranks
  <1>9. \A q \in Requests : req'[q] # NoJob /\ req'[q].step # "write" =>
          status'[req'[q].order] = req'[q].target
    BY <1>3, <1>6, <1>7, RequestAt DEF TimelineInv
  <1>10. \A p \in OrderIds : \A s \in history'[p] :
           status'[p] # NotPlaced /\ Rank[s] <= Rank[status'[p]]
    <2>1. ASSUME NEW s \in history[o] PROVE t # NotPlaced /\ Rank[s] <= Rank[t]
      <3>1. s \in Status
        BY DEF TypeOK
      <3> QED
        BY <1>8, <3>1, Ranks DEF Status, NotPlaced
    <2> QED
      BY <1>2, <1>6, <2>1 DEF TimelineInv
  <1>11. \A q \in Requests : req'[q] # NoJob /\ req'[q].step = "record" =>
           \A s \in history'[req'[q].order] : Rank[s] < Rank[req'[q].target]
    BY <1>2, <1>3, <1>8 DEF TimelineInv
  <1> QED
    BY <1>9, <1>10, <1>11 DEF TimelineInv

LEMMA RecordKeepsTimeline ==
    ASSUME SerialInv, TimelineInv, NEW r \in Requests, Record(r) \/ RecordFails(r)
    PROVE  TimelineInv'
  <1> USE DEF SerialInv, OrdersInv
  <1>1. PICK o \in OrderIds, t \in Status : o = req[r].order /\ t = req[r].target
    BY RequestAt DEF Record, RecordFails
  <1>2. req[r] # NoJob /\ req[r].step = "record" /\ Goto(r, "notify") /\ status' = status
    BY DEF Record, RecordFails
  <1>3. /\ req'[r] # NoJob /\ req'[r].order = o /\ req'[r].target = t
        /\ req'[r].step = "notify"
        /\ \A q \in Requests \ {r} : req'[q] = req[q]
    BY <1>1, <1>2, GotoJob
  <1>4. \A p \in OrderIds : /\ p # o => history'[p] = history[p]
                            /\ history'[p] \subseteq history[p] \cup {t}
    BY <1>1 DEF Record, RecordFails, TypeOK
  <1>5. status[o] = t /\ t # NotPlaced /\ Rank[t] <= Rank[t]
    <2>1. status[o] = t /\ Rank[t] \in Nat
      BY <1>1, <1>2, Ranks DEF TimelineInv
    <2> QED
      BY <2>1 DEF Status, NotPlaced
  <1>6. \A q \in Requests \ {r} : req[q] # NoJob => req[q].order # o /\ req[q].order \in OrderIds
    BY <1>1, <1>2, RequestAt DEF NoOverlap
  <1>7. \A q \in Requests : req'[q] # NoJob /\ req'[q].step # "write" =>
          status'[req'[q].order] = req'[q].target
    BY <1>2, <1>3, <1>5 DEF TimelineInv
  <1>8. \A p \in OrderIds : \A s \in history'[p] :
          status'[p] # NotPlaced /\ Rank[s] <= Rank[status'[p]]
    BY <1>2, <1>4, <1>5 DEF TimelineInv
  <1>9. \A q \in Requests : req'[q] # NoJob /\ req'[q].step = "record" =>
          \A s \in history'[req'[q].order] : Rank[s] < Rank[req'[q].target]
    BY <1>3, <1>4, <1>6 DEF TimelineInv
  <1> QED
    BY <1>7, <1>8, <1>9 DEF TimelineInv

\* TimelineInv is inductive for the serialised system.
LEMMA TimelineInvInductive ==
    /\ Init => TimelineInv
    /\ SerialInv /\ TimelineInv /\ [SerialNext]_vars => TimelineInv'
  <1>1. Init => TimelineInv
    BY DEF Init, TimelineInv
  <1>2. ASSUME SerialInv, TimelineInv, [SerialNext]_vars PROVE TimelineInv'
    <2> USE <1>2 DEF SerialInv, OrdersInv
    <2>1. ASSUME NEW r \in Requests, NEW o \in OrderIds,
                 BeginCancel(r, o) \/ \E target \in Status : BeginUpdate(r, o, target)
          PROVE  TimelineInv'
      <3>1. UNCHANGED <<status, history>> /\ req'[r].step = "write"
        BY <2>1 DEF BeginCancel, BeginUpdate, TypeOK
      <3>2. \A q \in Requests \ {r} : req'[q] = req[q]
        BY <2>1 DEF BeginCancel, BeginUpdate, TypeOK
      <3> QED
        BY <3>1, <3>2, TimelineStays
    <2>2. ASSUME NEW r \in Requests, Notify(r) \/ Abort(r) PROVE TimelineInv'
      BY <2>2, TimelineStays DEF Notify, Abort, TypeOK
    <2>3. CASE UNCHANGED vars
      BY <2>3, TimelineStays DEF vars
    <2> QED
      BY <1>2, <2>1, <2>2, <2>3, CheckoutKeepsTimeline, WriteKeepsTimeline,
         RecordKeepsTimeline
         DEF SerialNext, Next, Refuse
  <1> QED
    BY <1>1, <1>2

LEMMA SpecTimelineInv == SerialSpec => [](SerialInv /\ TimelineInv)
  BY SerialInvInductive, TimelineInvInductive, PTL DEF SerialSpec

\* With no two requests in flight about the same order, each new line of an
\* order's history is about a later status than all lines before it:
\* TimelineInOrder of the run orders_serial.
THEOREM TimelineCorrect == SerialSpec => TimelineInOrder
  <1>1. ASSUME SerialInv, TimelineInv, [SerialNext]_vars, NEW o \in OrderIds,
               NEW new \in history'[o] \ history[o], NEW old \in history[o]
        PROVE  Rank[old] < Rank[new]
    <2>1. PICK r \in Requests : Record(r)
      BY <1>1 DEF SerialNext, Next, Checkout, BeginCancel, BeginUpdate, Refuse, Write,
                  RecordFails, Notify, Abort, vars
    <2>2. o = req[r].order /\ new = req[r].target
      BY <1>1, <2>1 DEF Record, TypeOK, SerialInv, OrdersInv
    <2> QED
      BY <1>1, <2>1, <2>2 DEF Record, TimelineInv
  <1>2. SerialInv /\ TimelineInv /\ [SerialNext]_vars =>
          [\A o \in OrderIds : \A new \in history'[o] \ history[o], old \in history[o] :
             Rank[old] < Rank[new]]_vars
    BY <1>1
  <1> QED
    BY <1>2, SpecTimelineInv, PTL DEF SerialSpec, TimelineInOrder

\* ... and each notification is about the status the order is in:
\* NoticesAreCurrent of the run orders_serial.
THEOREM NoticesCorrect == SerialSpec => NoticesAreCurrent
  <1>1. ASSUME SerialInv, TimelineInv, [SerialNext]_vars, NEW o \in OrderIds,
               NEW new \in notified'[o] \ notified[o]
        PROVE  new = status[o]
    <2>1. PICK r \in Requests : Notify(r)
      BY <1>1 DEF SerialNext, Next, Checkout, BeginCancel, BeginUpdate, Refuse, Write,
                  Record, RecordFails, Abort, vars
    <2>2. o = req[r].order /\ new = req[r].target
      BY <1>1, <2>1 DEF Notify, TypeOK, SerialInv, OrdersInv
    <2> QED
      BY <1>1, <2>1, <2>2 DEF Notify, TimelineInv
  <1>2. SerialInv /\ TimelineInv /\ [SerialNext]_vars =>
          [\A o \in OrderIds : notified'[o] \ notified[o] \subseteq {status[o]}]_vars
    BY <1>1
  <1> QED
    BY <1>2, SpecTimelineInv, PTL DEF SerialSpec, NoticesAreCurrent
=============================================================================
