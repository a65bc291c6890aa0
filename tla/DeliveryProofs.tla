--------------------------- MODULE DeliveryProofs ---------------------------
(***************************************************************************)
(* Proofs about Delivery and about Fulfilment, which extends it, for any   *)
(* orders, partners, assignments, caps and number of requests and          *)
(* failures: the counter of a partner's assignments errs only in the ways  *)
(* "excuses" names, and so the cap is kept unless it errs or two           *)
(* dispatches choose a partner at once; assignment and order drift apart   *)
(* only for the reasons Fulfilment names.                                  *)
(*                                                                         *)
(* The counter cannot be compared with the open assignments alone: what is *)
(* invariant is the sum of each with the requests that are still to adjust *)
(* it, which a statement changes on both sides or on neither.  The cap     *)
(* needs, besides, the offers chosen but not yet inserted.                 *)
(***************************************************************************)
EXTENDS Fulfilment, FiniteSetTheorems, TLAPS

USE SlotsAssumption

Held(p) == Cardinality(Open(p))

Coming(p, step) == Cardinality(Pending(p, step))

\* The two sums are equal and the cap is kept, each up to its excuses.
Balanced(p) ==
    /\ excuses[p] \cap {"uncounted", "stray"} = {} =>
         Held(p) + Coming(p, "release") <= activeCount[p] + Coming(p, "count")
    /\ excuses[p] \cap {"unreleased", "floored"} = {} =>
         activeCount[p] + Coming(p, "count") <= Held(p) + Coming(p, "release")
    /\ excuses[p] \cap {"overlap", "uncounted", "stray"} = {} =>
         Held(p) + Coming(p, "create") <= MaxActive

LoadInv == \A p \in Partners : Balanced(p)

-----------------------------------------------------------------------------
(***************************************************************************)
(* Types.                                                                  *)
(***************************************************************************)

LEMMA JobAt ==
    ASSUME TypeOK, NEW r \in Requests, job[r] # NoJob
    PROVE  /\ job[r] \in Job
           /\ job[r].step = "search" => job[r].order \in OrderIds
           /\ job[r].step = "create" => job[r].order \in OrderIds
           /\ job[r].step \in {"online", "create", "count", "release"} =>
                job[r].partner \in Partners
           /\ job[r].step = "release" =>
                job[r].asg \in Assignments /\ job[r].delivered \in BOOLEAN
  <1>1. job[r] \in Job
    BY DEF TypeOK
  <1>2. CASE job[r] \in GoingOnline
    BY <1>1, <1>2 DEF GoingOnline
  <1>3. CASE job[r] \in Offering
    BY <1>1, <1>3 DEF Offering
  <1>4. CASE job[r] \in Adjusting
    BY <1>1, <1>4 DEF Adjusting
  <1>5. CASE job[r] \in Syncing
    BY <1>1, <1>5 DEF Syncing
  <1>6. QED
    BY <1>1, <1>2, <1>3, <1>4, <1>5 DEF Job

\* What becomes of the request that slot r serves.
LEMMA JobsOf ==
    ASSUME TypeOK, NEW r \in Requests
    PROVE  /\ \A p \in Partners : [step |-> "online", partner |-> p] \in Job
           /\ \A o \in OrderIds : [step |-> "search", order |-> o] \in Job
           /\ \A o \in OrderIds, p \in Partners :
                [step |-> "create", order |-> o, partner |-> p] \in Job
           /\ \A p \in Partners : [step |-> "count", partner |-> p] \in Job
           /\ \A p \in Partners, a \in Assignments, delivered \in BOOLEAN :
                [step |-> "release", partner |-> p, asg |-> a, delivered |-> delivered] \in Job
           /\ \A a \in Assignments, target \in {"out_for_delivery", "delivered"} :
                [step |-> "sync", asg |-> a, target |-> target] \in Job
  BY DEF Job, GoingOnline, Offering, Adjusting, Syncing

\* A row is written; the request in slot r goes on.
LEMMA RowType ==
    ASSUME TypeOK, NEW a \in Assignments, asg[a] # None, NEW to \in AssignmentStatus,
           SetStatus(a, to)
    PROVE  /\ asg[a] \in Assignment /\ asg[a].partner \in Partners
           /\ asg' \in [Assignments -> Assignment \cup {None}]
           /\ asg'[a] # None /\ asg'[a].status = to
           /\ asg'[a].partner = asg[a].partner /\ asg'[a].order = asg[a].order
           /\ \A b \in Assignments \ {a} : asg'[b] = asg[b]
  <1>1. asg \in [Assignments -> Assignment \cup {None}] /\ asg[a] \in Assignment
    BY DEF TypeOK
  <1>2. PICK row : row = [asg[a] EXCEPT !.status = to]
    OBVIOUS
  <1>3. /\ row \in Assignment /\ row # None /\ row.status = to
        /\ row.partner = asg[a].partner /\ row.order = asg[a].order
    BY <1>1, <1>2 DEF Assignment
  <1>4. asg' = [asg EXCEPT ![a] = row]
    BY <1>2 DEF SetStatus
  <1>5. asg[a].partner \in Partners
    BY <1>1 DEF Assignment
  <1>6. QED
    BY <1>1, <1>3, <1>4, <1>5

LEMMA TypeInit == Init => TypeOK
  BY DEF Init, TypeOK, KYCStatus

LEMMA PartnerStepsKeepType ==
    ASSUME TypeOK
    PROVE  (OnlineStep => TypeOK') /\ (ReviewStep => TypeOK')
  <1>1. ASSUME NEW p \in Partners, GoOffline(p) PROVE TypeOK'
    BY <1>1 DEF GoOffline, TypeOK
  <1>2. ASSUME NEW p \in Partners, NEW r \in Requests, BeginOnline(r, p) PROVE TypeOK'
    BY <1>2, JobsOf DEF BeginOnline, Become, partnerVars, TypeOK
  <1>3. ASSUME NEW r \in Requests, SetPartnerOnline(r) PROVE TypeOK'
    <2>1. job[r].partner \in Partners
      BY <1>3, JobAt DEF SetPartnerOnline, At
    <2>2. QED
      BY <1>3, <2>1 DEF SetPartnerOnline, Become, TypeOK
  <1>4. ASSUME NEW p \in Partners, NEW verdict \in {"verified", "rejected"},
               AdminReviewKYC(p, verdict)
        PROVE  TypeOK'
    BY <1>4 DEF AdminReviewKYC, TypeOK, KYCStatus
  <1>5. QED
    BY <1>1, <1>2, <1>3, <1>4 DEF OnlineStep, ReviewStep

LEMMA DispatchKeepsType ==
    ASSUME TypeOK, NEW r \in Requests, DispatchStep(r)
    PROVE  TypeOK'
  <1>1. ASSUME NEW o \in OrderIds, BeginOffer(r, o) PROVE TypeOK'
    BY <1>1, JobsOf DEF BeginOffer, Become, partnerVars, TypeOK
  <1>2. ASSUME NEW p \in Partners, ListNearbyAvailable(r, p) PROVE TypeOK'
    <2>1. job[r].order \in OrderIds
      BY <1>2, JobAt DEF ListNearbyAvailable, At
    <2>2. job' \in [Requests -> Job \cup {NoJob}]
      BY <1>2, <2>1, JobsOf DEF ListNearbyAvailable, Become, TypeOK
    <2>3. excuses' \in [Partners -> SUBSET Excuse]
      BY <1>2 DEF ListNearbyAvailable, TypeOK, Excuse
    <2>4. QED
      BY <1>2, <2>2, <2>3 DEF ListNearbyAvailable, partnerVars, TypeOK
  <1>3. ASSUME NEW a \in Assignments, CreateAssignment(r, a) PROVE TypeOK'
    <2>1. job[r].order \in OrderIds /\ job[r].partner \in Partners
      BY <1>3, JobAt DEF CreateAssignment, At
    <2>2. CASE asg' = asg /\ Become(r, NoJob)
      BY <1>3, <2>2 DEF CreateAssignment, Become, partnerVars, TypeOK
    <2>3. CASE /\ asg' = [asg EXCEPT ![a] = [order |-> job[r].order, status |-> "offered",
                                             partner |-> job[r].partner]]
               /\ Become(r, [step |-> "count", partner |-> job[r].partner])
      <3>1. [order |-> job[r].order, status |-> "offered", partner |-> job[r].partner]
               \in Assignment
        BY <2>1 DEF Assignment, AssignmentStatus
      <3>2. asg' \in [Assignments -> Assignment \cup {None}]
        BY <2>3, <3>1 DEF TypeOK
      <3>3. job' \in [Requests -> Job \cup {NoJob}]
        BY <2>1, <2>3, JobsOf DEF Become, TypeOK
      <3>4. QED
        BY <1>3, <3>2, <3>3 DEF CreateAssignment, partnerVars, TypeOK
    <2>4. QED
      BY <1>3, <2>2, <2>3 DEF CreateAssignment
  <1>4. NobodyNearby(r) => TypeOK'
    BY DEF NobodyNearby, Become, partnerVars, TypeOK
  <1>5. ASSUME IncrementActiveCount(r) PROVE TypeOK'
    <2>1. job[r].partner \in Partners
      BY <1>5, JobAt DEF IncrementActiveCount, At
    <2>2. activeCount' \in [Partners -> Nat]
      BY <1>5, <2>1 DEF IncrementActiveCount, TypeOK
    <2>3. QED
      BY <1>5, <2>2 DEF IncrementActiveCount, Become, partnerVars, TypeOK
  <1>6. QED
    BY <1>1, <1>2, <1>3, <1>4, <1>5 DEF DispatchStep

LEMMA AssignmentKeepsType ==
    ASSUME TypeOK, NEW a \in Assignments
    PROVE  /\ Accept(a) => TypeOK'
           /\ \A r \in Requests : Reject(r, a) \/ MarkPickedUp(r, a) \/ MarkDelivered(r, a)
                                    \/ Cancel(r, a) => TypeOK'
  <1>1. ASSUME Accept(a) PROVE TypeOK'
    <2>1. asg' \in [Assignments -> Assignment \cup {None}]
      BY <1>1, RowType DEF Accept, Is, AssignmentStatus
    <2>2. QED
      BY <1>1, <2>1 DEF Accept, partnerVars, TypeOK
  <1>2. ASSUME NEW r \in Requests, Reject(r, a) PROVE TypeOK'
    <2>1. asg[a] # None /\ SetStatus(a, "rejected") /\ "rejected" \in AssignmentStatus
      BY <1>2 DEF Reject, Is, AssignmentStatus
    <2>2. asg' \in [Assignments -> Assignment \cup {None}] /\ asg[a].partner \in Partners
      BY <2>1, RowType
    <2>3. job' \in [Requests -> Job \cup {NoJob}]
      BY <1>2, <2>2, JobsOf DEF Reject, BeginRelease, Become, TypeOK
    <2>4. QED
      BY <1>2, <2>2, <2>3 DEF Reject, partnerVars, TypeOK
  <1>3. ASSUME NEW r \in Requests, MarkPickedUp(r, a) PROVE TypeOK'
    <2>1. asg[a] # None /\ SetStatus(a, "picked_up") /\ "picked_up" \in AssignmentStatus
      BY <1>3 DEF MarkPickedUp, Is, AssignmentStatus
    <2>2. asg' \in [Assignments -> Assignment \cup {None}]
      BY <2>1, RowType
    <2>3. job' \in [Requests -> Job \cup {NoJob}]
      BY <1>3, JobsOf DEF MarkPickedUp, Become, TypeOK
    <2>4. QED
      BY <1>3, <2>2, <2>3 DEF MarkPickedUp, partnerVars, TypeOK
  <1>4. ASSUME NEW r \in Requests, MarkDelivered(r, a) PROVE TypeOK'
    <2>1. asg[a] # None /\ SetStatus(a, "delivered") /\ "delivered" \in AssignmentStatus
      BY <1>4 DEF MarkDelivered, Is, AssignmentStatus
    <2>2. asg' \in [Assignments -> Assignment \cup {None}] /\ asg[a].partner \in Partners
      BY <2>1, RowType
    <2>3. job' \in [Requests -> Job \cup {NoJob}]
      BY <1>4, <2>2, JobsOf DEF MarkDelivered, BeginRelease, Become, TypeOK
    <2>4. QED
      BY <1>4, <2>2, <2>3 DEF MarkDelivered, partnerVars, TypeOK
  <1>5. ASSUME NEW r \in Requests, Cancel(r, a) PROVE TypeOK'
    <2>1. asg[a] # None /\ SetStatus(a, "cancelled") /\ "cancelled" \in AssignmentStatus
      BY <1>5 DEF Cancel, AssignmentStatus
    <2>2. asg' \in [Assignments -> Assignment \cup {None}] /\ asg[a].partner \in Partners
      BY <2>1, RowType
    <2>3. job' \in [Requests -> Job \cup {NoJob}]
      BY <1>5, <2>2, JobsOf DEF Cancel, BeginRelease, Become, TypeOK
    <2>4. excuses' \in [Partners -> SUBSET Excuse]
      BY <1>5 DEF Cancel, TypeOK, Excuse
    <2>5. QED
      BY <1>5, <2>2, <2>3, <2>4 DEF Cancel, partnerVars, TypeOK
  <1>6. QED
    BY <1>1, <1>2, <1>3, <1>4, <1>5

LEMMA AfterReleaseType ==
    ASSUME TypeOK, NEW r \in Requests, At(r, "release"), AfterRelease(r)
    PROVE  \E newJob \in Job \cup {NoJob} :
             /\ Become(r, newJob)
             /\ newJob = NoJob \/ newJob.step = "sync"
  <1>1. CASE job[r].delivered
    <2>1. PICK newJob : newJob = [step |-> "sync", asg |-> job[r].asg, target |-> "delivered"]
      OBVIOUS
    <2>2. newJob \in Job /\ newJob.step = "sync"
      BY <2>1, JobAt, JobsOf DEF At
    <2>3. Become(r, newJob)
      BY <1>1, <2>1 DEF AfterRelease
    <2>4. QED
      BY <2>2, <2>3
  <1>2. CASE ~ job[r].delivered
    BY <1>2 DEF AfterRelease
  <1>3. QED
    BY <1>1, <1>2

LEMMA CounterKeepsType ==
    ASSUME TypeOK, NEW r \in Requests
    PROVE  /\ DecrementActiveCount(r) => TypeOK'
           /\ CountFails(r) => TypeOK'
           /\ Abort(r) => TypeOK'
           /\ OrderAnswers(r) => TypeOK'
  <1>1. ASSUME DecrementActiveCount(r) PROVE TypeOK'
    <2>1. job[r].partner \in Partners
      BY <1>1, JobAt DEF DecrementActiveCount, At
    <2>2. job' \in [Requests -> Job \cup {NoJob}]
      BY <1>1, AfterReleaseType DEF DecrementActiveCount, Become, TypeOK
    <2>3. activeCount' \in [Partners -> Nat]
      <3>1. \A n \in Nat : Decrement(n) \in Nat
        BY DEF Decrement
      <3>2. QED
        BY <1>1, <2>1, <3>1 DEF DecrementActiveCount, TypeOK
    <2>4. excuses' \in [Partners -> SUBSET Excuse]
      BY <1>1, <2>1 DEF DecrementActiveCount, TypeOK, Excuse
    <2>5. QED
      BY <1>1, <2>2, <2>3, <2>4 DEF DecrementActiveCount, partnerVars, TypeOK
  <1>2. ASSUME CountFails(r) PROVE TypeOK'
    <2>1. faults' \in 0 .. MaxFaults
      BY <1>2 DEF CountFails, Fault, TypeOK
    <2>2. job' \in [Requests -> Job \cup {NoJob}]
      BY <1>2, AfterReleaseType DEF CountFails, Become, TypeOK
    <2>3. excuses' \in [Partners -> SUBSET Excuse]
      BY <1>2 DEF CountFails, Excused, TypeOK, Excuse
    <2>4. QED
      BY <1>2, <2>1, <2>2, <2>3 DEF CountFails, partnerVars, TypeOK
  <1>3. ASSUME Abort(r) PROVE TypeOK'
    <2>1. faults' \in 0 .. MaxFaults
      BY <1>3 DEF Abort, Fault, TypeOK
    <2>2. job' \in [Requests -> Job \cup {NoJob}]
      BY <1>3 DEF Abort, Become, TypeOK
    <2>3. excuses' \in [Partners -> SUBSET Excuse]
      BY <1>3 DEF Abort, TypeOK, Excuse
    <2>4. QED
      BY <1>3, <2>1, <2>2, <2>3 DEF Abort, partnerVars, TypeOK
  <1>4. OrderAnswers(r) => TypeOK'
    BY DEF OrderAnswers, Become, partnerVars, TypeOK
  <1>5. QED
    BY <1>1, <1>2, <1>3, <1>4

LEMMA NextKeepsType ==
    ASSUME TypeOK, [Next]_vars
    PROVE  TypeOK'
  <1>1. CASE UNCHANGED vars
    BY <1>1 DEF vars, TypeOK
  <1>2. CASE Next
    BY <1>2, PartnerStepsKeepType, DispatchKeepsType, AssignmentKeepsType, CounterKeepsType
    DEF Next, Step, AnswerStep, HandOverStep, CancelStep
  <1>3. QED
    BY <1>1, <1>2

\* Every reachable state of Delivery is well typed.
THEOREM TypeCorrect == Spec => []TypeOK
  BY TypeInit, NextKeepsType, PTL DEF Spec

-----------------------------------------------------------------------------
(***************************************************************************)
(* Counting.                                                               *)
(***************************************************************************)

Unit(b) == IF b THEN 1 ELSE 0

\* Row row is an open assignment of p; request j is to adjust the counter of
\* p, or to offer p an order.
OpenFor(row, p) == /\ row # None /\ row.partner = p
                   /\ row.status \in {"offered", "accepted", "picked_up"}

Serves(j, p, step) == j # NoJob /\ j.step = step /\ j.partner = p

\* Two finite sets that differ in x at most.
LEMMA OneChanged ==
    ASSUME NEW S, IsFiniteSet(S), NEW T, NEW x, T \ {x} = S \ {x}
    PROVE  /\ Cardinality(S) \in Nat
           /\ Cardinality(T) = Cardinality(S) - Unit(x \in S) + Unit(x \in T)
  <1>1. Cardinality(S) \in Nat
    BY FS_CardinalityType
  <1>2. CASE x \in S /\ x \in T
    <2>1. T = S
      BY <1>2
    <2>2. QED
      BY <1>1, <1>2, <2>1 DEF Unit
  <1>3. CASE x \in S /\ x \notin T
    <2>1. T = S \ {x}
      BY <1>3
    <2>2. Cardinality(T) = Cardinality(S) - 1
      BY <1>3, <2>1, FS_RemoveElement
    <2>3. QED
      BY <1>1, <1>3, <2>2 DEF Unit
  <1>4. CASE x \notin S /\ x \in T
    <2>1. T = S \cup {x}
      BY <1>4
    <2>2. Cardinality(T) = Cardinality(S) + 1
      BY <1>4, <2>1, FS_AddElement
    <2>3. QED
      BY <1>1, <1>4, <2>2 DEF Unit
  <1>5. CASE x \notin S /\ x \notin T
    <2>1. T = S
      BY <1>5
    <2>2. QED
      BY <1>1, <1>5, <2>1 DEF Unit
  <1>6. QED
    BY <1>2, <1>3, <1>4, <1>5, <1>1

LEMMA Counts ==
    ASSUME NEW p
    PROVE  /\ IsFiniteSet(Open(p)) /\ Held(p) \in Nat
           /\ \A step : IsFiniteSet(Pending(p, step)) /\ Coming(p, step) \in Nat
  <1>1. Open(p) \subseteq Assignments /\ \A step : Pending(p, step) \subseteq Requests
    BY DEF Open, Pending
  <1>2. IsFiniteSet(Open(p)) /\ \A step : IsFiniteSet(Pending(p, step))
    BY <1>1, FS_Subset
  <1>3. QED
    BY <1>2, FS_CardinalityType DEF Held, Coming

LEMMA CountsAfter ==
    ASSUME NEW p
    PROVE  Held(p)' \in Nat /\ \A step : Coming(p, step)' \in Nat
  <1>1. Open(p)' \subseteq Assignments /\ \A step : Pending(p, step)' \subseteq Requests
    BY DEF Open, Pending
  <1>2. IsFiniteSet(Open(p)') /\ \A step : IsFiniteSet(Pending(p, step)')
    BY <1>1, FS_Subset
  <1>3. QED
    BY <1>2, FS_CardinalityType DEF Held, Coming

\* The request in slot r moves on.
LEMMA RequestMoves ==
    ASSUME TypeOK, NEW r \in Requests, NEW newJob, Become(r, newJob), NEW p, NEW step
    PROVE  Coming(p, step)' = Coming(p, step) - Unit(Serves(job[r], p, step))
                                + Unit(Serves(newJob, p, step))
  <1>1. job'[r] = newJob /\ \A q \in Requests \ {r} : job'[q] = job[q]
    BY DEF Become, TypeOK
  <1>2. Pending(p, step)' \ {r} = Pending(p, step) \ {r}
    BY <1>1 DEF Pending, At
  <1>3. (r \in Pending(p, step)) <=> Serves(job[r], p, step)
    BY DEF Pending, At, Serves
  <1>4. (r \in Pending(p, step)') <=> Serves(newJob, p, step)
    BY <1>1 DEF Pending, At, Serves
  <1>5. Cardinality(Pending(p, step)')
          = Cardinality(Pending(p, step)) - Unit(r \in Pending(p, step))
              + Unit(r \in Pending(p, step)')
    BY <1>2, Counts, OneChanged
  <1>6. QED
    BY <1>3, <1>4, <1>5 DEF Coming, Unit

\* The row of assignment a is written.
LEMMA RowChanges ==
    ASSUME TypeOK, NEW a \in Assignments, NEW row, asg' = [asg EXCEPT ![a] = row], NEW p
    PROVE  Held(p)' = Held(p) - Unit(OpenFor(asg[a], p)) + Unit(OpenFor(row, p))
  <1>1. asg'[a] = row /\ \A b \in Assignments \ {a} : asg'[b] = asg[b]
    BY DEF TypeOK
  <1>2. Open(p)' \ {a} = Open(p) \ {a}
    BY <1>1 DEF Open
  <1>3. (a \in Open(p)) <=> OpenFor(asg[a], p)
    BY DEF Open, OpenFor
  <1>4. (a \in Open(p)') <=> OpenFor(row, p)
    BY <1>1 DEF Open, OpenFor
  <1>5. Cardinality(Open(p)')
          = Cardinality(Open(p)) - Unit(a \in Open(p)) + Unit(a \in Open(p)')
    BY <1>2, Counts, OneChanged
  <1>6. QED
    BY <1>3, <1>4, <1>5 DEF Held, Unit

\* An assignment's status is set.
LEMMA StatusChanges ==
    ASSUME TypeOK, NEW a \in Assignments, asg[a] # None, NEW to \in AssignmentStatus,
           SetStatus(a, to), NEW p
    PROVE  Held(p)' = Held(p) - Unit(OpenFor(asg[a], p))
                        + Unit(asg[a].partner = p
                                 /\ to \in {"offered", "accepted", "picked_up"})
  <1>1. PICK row : row = [asg[a] EXCEPT !.status = to]
    OBVIOUS
  <1>2. asg[a] \in Assignment
    BY DEF TypeOK
  <1>3. row # None /\ row.partner = asg[a].partner /\ row.status = to
    BY <1>1, <1>2 DEF Assignment
  <1>4. asg' = [asg EXCEPT ![a] = row]
    BY <1>1 DEF SetStatus
  <1>5. OpenFor(row, p) <=> /\ asg[a].partner = p
                            /\ to \in {"offered", "accepted", "picked_up"}
    BY <1>3 DEF OpenFor
  <1>6. QED
    BY <1>4, <1>5, RowChanges DEF Unit

\* Whom each kind of request serves.
LEMMA JobsServe ==
    ASSUME TypeOK, NEW r \in Requests, NEW p \in Partners, NEW step \in {"create", "count", "release"}
    PROVE  /\ ~ Serves(NoJob, p, step)
           /\ \A j \in Job : j.step \notin {"create", "count", "release"} => ~ Serves(j, p, step)
           /\ \A j \in Job : Serves(j, p, step) <=> j.step = step /\ j.partner = p
  BY DEF Serves

-----------------------------------------------------------------------------
(***************************************************************************)
(* The counter and the cap.                                                *)
(***************************************************************************)

\* A request that adjusts nothing goes on to adjust nothing.
LEMMA Aside ==
    ASSUME TypeOK, NEW r \in Requests, NEW newJob \in Job \cup {NoJob}, Become(r, newJob),
           \A j \in {job[r], newJob} :
             j = NoJob \/ j.step \notin {"create", "count", "release"},
           NEW p \in Partners
    PROVE  \A step \in {"create", "count", "release"} : Coming(p, step)' = Coming(p, step)
  <1>1. TAKE step \in {"create", "count", "release"}
  <1>2. ~ Serves(job[r], p, step) /\ ~ Serves(newJob, p, step)
    BY DEF Serves
  <1>3. Coming(p, step)' = Coming(p, step) - Unit(Serves(job[r], p, step))
                             + Unit(Serves(newJob, p, step))
    BY RequestMoves
  <1>4. QED
    BY <1>2, <1>3, Counts DEF Unit

\* A step that changes none of the numbers.
LEMMA NothingCounts ==
    ASSUME NEW p \in Partners, Balanced(p),
           UNCHANGED <<Held(p), activeCount, excuses>>,
           \A step \in {"create", "count", "release"} : Coming(p, step)' = Coming(p, step)
    PROVE  Balanced(p)'
  <1>1. /\ Coming(p, "create")' = Coming(p, "create")
        /\ Coming(p, "count")' = Coming(p, "count")
        /\ Coming(p, "release")' = Coming(p, "release")
    OBVIOUS
  <1>2. QED
    BY <1>1 DEF Balanced

LEMMA LoadInit == Init => LoadInv
  <1>1. SUFFICES ASSUME Init, NEW p \in Partners PROVE Balanced(p)
    BY DEF LoadInv
  <1>2. Open(p) = {} /\ \A step : Pending(p, step) = {}
    BY <1>1 DEF Init, Open, Pending, At
  <1>3. Held(p) = 0 /\ \A step : Coming(p, step) = 0
    BY <1>2, FS_EmptySet DEF Held, Coming
  <1>4. activeCount[p] = 0
    BY <1>1 DEF Init
  <1>5. QED
    BY <1>3, <1>4, SlotsAssumption DEF Balanced

LEMMA PartnerStepsKeepLoad ==
    ASSUME TypeOK, LoadInv, NEW p \in Partners, OnlineStep \/ ReviewStep
    PROVE  Balanced(p)'
  <1>1. ASSUME UNCHANGED <<activeCount, asg, job, excuses>> PROVE Balanced(p)'
    <2>1. UNCHANGED Held(p) /\ \A step : Coming(p, step)' = Coming(p, step)
      BY <1>1 DEF Held, Coming, Open, Pending, At
    <2>2. QED
      BY <1>1, <2>1, NothingCounts DEF LoadInv
  <1>2. ASSUME NEW r \in Requests, NEW newJob \in Job \cup {NoJob}, Become(r, newJob),
               UNCHANGED <<activeCount, asg, excuses>>,
               Free(r) \/ At(r, "online"), newJob = NoJob \/ newJob.step = "online"
        PROVE  Balanced(p)'
    <2>1. UNCHANGED Held(p)
      BY <1>2 DEF Held, Open
    <2>2. \A step \in {"create", "count", "release"} : Coming(p, step)' = Coming(p, step)
      BY <1>2, Aside DEF Free, At
    <2>3. QED
      BY <1>2, <2>1, <2>2, NothingCounts DEF LoadInv
  <1>3. ASSUME NEW q \in Partners, NEW r \in Requests, BeginOnline(r, q) PROVE Balanced(p)'
    <2>1. PICK newJob : newJob = [step |-> "online", partner |-> q]
      OBVIOUS
    <2>2. newJob \in Job /\ newJob.step = "online"
      BY <2>1, JobsOf
    <2>3. QED
      BY <1>2, <1>3, <2>1, <2>2 DEF BeginOnline
  <1>4. ASSUME NEW r \in Requests, SetPartnerOnline(r) PROVE Balanced(p)'
    BY <1>2, <1>4 DEF SetPartnerOnline
  <1>5. QED
    BY <1>1, <1>3, <1>4 DEF OnlineStep, ReviewStep, GoOffline, AdminReviewKYC

LEMMA OfferStepsKeepLoad ==
    ASSUME TypeOK, LoadInv, NEW p \in Partners, NEW r \in Requests,
           (\E o \in OrderIds : BeginOffer(r, o)) \/ NobodyNearby(r) \/ OrderAnswers(r)
    PROVE  Balanced(p)'
  <1>1. PICK newJob \in Job \cup {NoJob} :
          Become(r, newJob) /\ (newJob = NoJob \/ newJob.step = "search")
    <2>1. ASSUME NEW o \in OrderIds, BeginOffer(r, o)
          PROVE  \E newJob \in Job \cup {NoJob} :
                   Become(r, newJob) /\ (newJob = NoJob \/ newJob.step = "search")
      <3>1. PICK newJob : newJob = [step |-> "search", order |-> o]
        OBVIOUS
      <3>2. newJob \in Job /\ newJob.step = "search"
        BY <3>1, JobsOf
      <3>3. QED
        BY <2>1, <3>1, <3>2 DEF BeginOffer
    <2>2. QED
      BY <2>1 DEF NobodyNearby, OrderAnswers
  <1>2. job[r] = NoJob \/ job[r].step \notin {"create", "count", "release"}
    BY DEF BeginOffer, NobodyNearby, OrderAnswers, Free, At
  <1>3. UNCHANGED <<activeCount, asg, excuses>>
    BY DEF BeginOffer, NobodyNearby, OrderAnswers
  <1>4. UNCHANGED Held(p)
    BY <1>3 DEF Held, Open
  <1>5. \A step \in {"create", "count", "release"} : Coming(p, step)' = Coming(p, step)
    BY <1>1, <1>2, Aside
  <1>6. QED
    BY <1>3, <1>4, <1>5, NothingCounts DEF LoadInv

\* A partner is chosen: nobody else has chosen the partner, or it is noted.
LEMMA ChoiceKeepsLoad ==
    ASSUME TypeOK, LoadInv, NEW p \in Partners, NEW r \in Requests, NEW q \in Partners,
           ListNearbyAvailable(r, q)
    PROVE  Balanced(p)'
  <1>1. PICK newJob : newJob = [step |-> "create", order |-> job[r].order, partner |-> q]
    OBVIOUS
  <1>2. newJob \in Job /\ newJob.step = "create" /\ newJob.partner = q /\ Become(r, newJob)
    BY <1>1, JobAt, JobsOf DEF ListNearbyAvailable, At
  <1>3. /\ UNCHANGED <<activeCount, asg>> /\ At(r, "search")
        /\ excuses'[p] = IF p = q THEN excuses[p] \cup
                                         {why \in {"overlap"} : \E s \in Requests : Choosing(s, q)}
                                  ELSE excuses[p]
    BY DEF ListNearbyAvailable, TypeOK
  <1>4. Held(p)' = Held(p)
    BY <1>3 DEF Held, Open
  <1>5. /\ Coming(p, "count")' = Coming(p, "count")
        /\ Coming(p, "release")' = Coming(p, "release")
        /\ Coming(p, "create")' = Coming(p, "create") + Unit(p = q)
    <2>1. \A step \in {"create", "count", "release"} :
            Coming(p, step)' = Coming(p, step) - Unit(Serves(job[r], p, step))
                                 + Unit(Serves(newJob, p, step))
      BY <1>2, RequestMoves
    <2>2. /\ \A step \in {"create", "count", "release"} : ~ Serves(job[r], p, step)
          /\ ~ Serves(newJob, p, "count") /\ ~ Serves(newJob, p, "release")
          /\ Serves(newJob, p, "create") <=> p = q
      BY <1>2, <1>3 DEF Serves, At
    <2>3. QED
      BY <2>1, <2>2, Counts DEF Unit
  <1>6. Balanced(p) /\ activeCount[p] \in Nat
    BY DEF LoadInv, TypeOK
  <1>7. CASE p # q
    BY <1>3, <1>4, <1>5, <1>6, <1>7, Counts DEF Balanced, Unit
  <1>8. CASE p = q /\ "overlap" \in excuses'[p]
    BY <1>3, <1>4, <1>5, <1>6, <1>8, Counts DEF Balanced, Unit
  <1>9. CASE p = q /\ "overlap" \notin excuses'[p]
    <2>1. \A s \in Requests : ~ Choosing(s, p)
      BY <1>3, <1>9
    <2>2. Pending(p, "create") = {} /\ Pending(p, "count") = {}
      BY <2>1 DEF Pending, At, Choosing
    <2>3. Coming(p, "create") = 0 /\ Coming(p, "count") = 0
      BY <2>2, FS_EmptySet DEF Coming
    <2>4. activeCount[p] < MaxActive
      BY <1>9 DEF ListNearbyAvailable, Available
    <2>5. excuses[p] \subseteq excuses'[p]
      BY <1>3
    <2>6. QED
      BY <1>3, <1>4, <1>5, <1>6, <1>9, <2>3, <2>4, <2>5, Counts, SlotsAssumption
      DEF Balanced, Unit
  <1>10. QED
    BY <1>7, <1>8, <1>9

\* The offer is inserted and is still to be counted, or is not inserted.
LEMMA CreateKeepsLoad ==
    ASSUME TypeOK, LoadInv, NEW p \in Partners, NEW r \in Requests, NEW a \in Assignments,
           CreateAssignment(r, a)
    PROVE  Balanced(p)'
  <1>1. /\ job[r] # NoJob /\ job[r].step = "create" /\ job[r].partner \in Partners
        /\ job[r].order \in OrderIds /\ asg[a] = None /\ UNCHANGED <<activeCount, excuses>>
    BY JobAt DEF CreateAssignment, At
  <1>2. /\ Serves(job[r], p, "create") <=> job[r].partner = p
        /\ ~ Serves(job[r], p, "count") /\ ~ Serves(job[r], p, "release")
    BY <1>1 DEF Serves
  <1>3. Balanced(p) /\ activeCount[p] \in Nat
    BY DEF LoadInv, TypeOK
  <1>4. CASE asg' = asg /\ Become(r, NoJob)
    <2>1. Held(p)' = Held(p)
      BY <1>4 DEF Held, Open
    <2>2. \A step \in {"create", "count", "release"} :
            Coming(p, step)' = Coming(p, step) - Unit(Serves(job[r], p, step))
                                 + Unit(Serves(NoJob, p, step))
      BY <1>4, RequestMoves
    <2>3. /\ Coming(p, "create")' <= Coming(p, "create")
          /\ Coming(p, "count")' = Coming(p, "count")
          /\ Coming(p, "release")' = Coming(p, "release")
      BY <1>2, <2>2, Counts, JobsServe DEF Unit
    <2>4. QED
      BY <1>1, <1>3, <2>1, <2>3, Counts, CountsAfter, SlotsAssumption DEF Balanced
  <1>5. CASE /\ asg' = [asg EXCEPT ![a] = [order |-> job[r].order, status |-> "offered",
                                           partner |-> job[r].partner]]
             /\ Become(r, [step |-> "count", partner |-> job[r].partner])
    <2>1. PICK row : row = [order |-> job[r].order, status |-> "offered",
                            partner |-> job[r].partner]
      OBVIOUS
    <2>2. row \in Assignment /\ row.partner = job[r].partner /\ row.status = "offered"
      BY <1>1, <2>1 DEF Assignment, AssignmentStatus
    <2>3. OpenFor(row, p) <=> job[r].partner = p
      BY <2>2 DEF OpenFor
    <2>4. Held(p)' = Held(p) + Unit(job[r].partner = p)
      <3>1. asg' = [asg EXCEPT ![a] = row] /\ ~ OpenFor(asg[a], p)
        BY <1>1, <1>5, <2>1 DEF OpenFor
      <3>2. Held(p)' = Held(p) - Unit(OpenFor(asg[a], p)) + Unit(OpenFor(row, p))
        BY <3>1, RowChanges
      <3>3. CASE job[r].partner = p
        BY <2>3, <3>1, <3>2, <3>3, Counts DEF Unit
      <3>4. CASE job[r].partner # p
        BY <2>3, <3>1, <3>2, <3>4, Counts DEF Unit
      <3>5. QED
        BY <3>3, <3>4
    <2>5. PICK newJob : newJob = [step |-> "count", partner |-> job[r].partner]
      OBVIOUS
    <2>6. newJob \in Job /\ newJob.step = "count" /\ newJob.partner = job[r].partner
      BY <1>1, <2>5, JobsOf
    <2>7. \A step \in {"create", "count", "release"} :
            Coming(p, step)' = Coming(p, step) - Unit(Serves(job[r], p, step))
                                 + Unit(Serves(newJob, p, step))
      BY <1>5, <2>5, RequestMoves
    <2>8. /\ Serves(newJob, p, "count") <=> job[r].partner = p
          /\ ~ Serves(newJob, p, "create") /\ ~ Serves(newJob, p, "release")
      BY <2>6 DEF Serves
    <2>9. /\ Coming(p, "create")' = Coming(p, "create") - Unit(job[r].partner = p)
          /\ Coming(p, "count")' = Coming(p, "count") + Unit(job[r].partner = p)
          /\ Coming(p, "release")' = Coming(p, "release")
      BY <1>2, <2>7, <2>8, Counts DEF Unit
    <2>10. QED
      BY <1>1, <1>3, <2>4, <2>9, Counts, CountsAfter, SlotsAssumption DEF Balanced, Unit
  <1>6. QED
    BY <1>4, <1>5 DEF CreateAssignment

LEMMA IncrementKeepsLoad ==
    ASSUME TypeOK, LoadInv, NEW p \in Partners, NEW r \in Requests, IncrementActiveCount(r)
    PROVE  Balanced(p)'
  <1>1. /\ job[r] # NoJob /\ job[r].step = "count" /\ job[r].partner \in Partners
        /\ Become(r, NoJob) /\ UNCHANGED <<asg, excuses>>
    BY JobAt DEF IncrementActiveCount, At
  <1>2. Balanced(p) /\ activeCount[p] \in Nat
    BY DEF LoadInv, TypeOK
  <1>3. activeCount'[p] = activeCount[p] + Unit(job[r].partner = p)
    BY <1>2 DEF IncrementActiveCount, TypeOK, Unit
  <1>4. Held(p)' = Held(p)
    BY <1>1 DEF Held, Open
  <1>5. \A step \in {"create", "count", "release"} :
          Coming(p, step)' = Coming(p, step) - Unit(Serves(job[r], p, step))
                               + Unit(Serves(NoJob, p, step))
    BY <1>1, RequestMoves
  <1>6. /\ Serves(job[r], p, "count") <=> job[r].partner = p
        /\ ~ Serves(job[r], p, "create") /\ ~ Serves(job[r], p, "release")
    BY <1>1 DEF Serves
  <1>7. /\ Coming(p, "create")' = Coming(p, "create")
        /\ Coming(p, "count")' = Coming(p, "count") - Unit(job[r].partner = p)
        /\ Coming(p, "release")' = Coming(p, "release")
    <2>1. CASE job[r].partner = p
      BY <1>5, <1>6, <2>1, Counts, JobsServe DEF Unit
    <2>2. CASE job[r].partner # p
      BY <1>5, <1>6, <2>2, Counts, JobsServe DEF Unit
    <2>3. QED
      BY <2>1, <2>2
  <1>8. QED
    BY <1>1, <1>2, <1>3, <1>4, <1>7, Counts, CountsAfter DEF Balanced, Unit

\* An assignment ends, or is ended again: its slot is to be released.
LEMMA ReleaseBegins ==
    ASSUME TypeOK, NEW p \in Partners, NEW r \in Requests, NEW a \in Assignments,
           NEW delivered \in BOOLEAN, Free(r), asg[a] # None, BeginRelease(r, a, delivered)
    PROVE  /\ Coming(p, "create")' = Coming(p, "create")
           /\ Coming(p, "count")' = Coming(p, "count")
           /\ Coming(p, "release")' = Coming(p, "release") + Unit(asg[a].partner = p)
  <1>1. asg[a].partner \in Partners
    BY DEF TypeOK, Assignment
  <1>2. PICK newJob : newJob = [step |-> "release", partner |-> asg[a].partner, asg |-> a,
                                delivered |-> delivered]
    OBVIOUS
  <1>3. newJob \in Job /\ newJob.step = "release" /\ newJob.partner = asg[a].partner
    BY <1>1, <1>2, JobsOf
  <1>4. \A step \in {"create", "count", "release"} :
          Coming(p, step)' = Coming(p, step) - Unit(Serves(job[r], p, step))
                               + Unit(Serves(newJob, p, step))
    BY <1>2, RequestMoves DEF BeginRelease
  <1>5. /\ \A step \in {"create", "count", "release"} : ~ Serves(job[r], p, step)
        /\ Serves(newJob, p, "release") <=> asg[a].partner = p
        /\ ~ Serves(newJob, p, "create") /\ ~ Serves(newJob, p, "count")
    BY <1>3 DEF Serves, Free
  <1>6. CASE asg[a].partner = p
    BY <1>4, <1>5, <1>6, Counts DEF Unit
  <1>7. CASE asg[a].partner # p
    BY <1>4, <1>5, <1>7, Counts DEF Unit
  <1>8. QED
    BY <1>6, <1>7

LEMMA AnswersKeepLoad ==
    ASSUME TypeOK, LoadInv, NEW p \in Partners, NEW a \in Assignments
    PROVE  /\ Accept(a) => Balanced(p)'
           /\ \A r \in Requests :
                Reject(r, a) \/ MarkPickedUp(r, a) \/ MarkDelivered(r, a) => Balanced(p)'
  <1>1. Balanced(p) /\ activeCount[p] \in Nat
    BY DEF LoadInv, TypeOK
  <1>2. ASSUME Accept(a) PROVE Balanced(p)'
    <2>1. /\ asg[a] # None /\ SetStatus(a, "accepted") /\ "accepted" \in AssignmentStatus
          /\ OpenFor(asg[a], p) <=> asg[a].partner = p
      BY <1>2 DEF Accept, Is, AssignmentStatus, OpenFor
    <2>2. Held(p)' = Held(p)
      BY <2>1, StatusChanges, Counts DEF Unit
    <2>3. UNCHANGED <<activeCount, excuses>> /\ \A step : Coming(p, step)' = Coming(p, step)
      BY <1>2 DEF Accept, Coming, Pending, At
    <2>4. QED
      BY <1>1, <2>2, <2>3, NothingCounts
  <1>3. ASSUME NEW r \in Requests, MarkPickedUp(r, a) PROVE Balanced(p)'
    <2>1. /\ asg[a] # None /\ SetStatus(a, "picked_up") /\ "picked_up" \in AssignmentStatus
          /\ OpenFor(asg[a], p) <=> asg[a].partner = p
      BY <1>3 DEF MarkPickedUp, Is, AssignmentStatus, OpenFor
    <2>2. Held(p)' = Held(p)
      BY <2>1, StatusChanges, Counts DEF Unit
    <2>3. PICK newJob : newJob = [step |-> "sync", asg |-> a, target |-> "out_for_delivery"]
      OBVIOUS
    <2>4. newJob \in Job /\ newJob.step = "sync" /\ Become(r, newJob) /\ job[r] = NoJob
      BY <1>3, <2>3, JobsOf DEF MarkPickedUp, Free
    <2>5. \A step \in {"create", "count", "release"} : Coming(p, step)' = Coming(p, step)
      BY <2>4, Aside
    <2>6. QED
      BY <1>1, <1>3, <2>2, <2>5, NothingCounts DEF MarkPickedUp
  <1>4. ASSUME NEW r \in Requests, NEW to \in {"rejected", "delivered"},
               NEW delivered \in BOOLEAN, NEW from \in {"offered", "picked_up"},
               Free(r), Is(a, from), SetStatus(a, to), BeginRelease(r, a, delivered),
               UNCHANGED <<activeCount, excuses>>
        PROVE  Balanced(p)'
    <2>1. /\ asg[a] # None /\ to \in AssignmentStatus
          /\ OpenFor(asg[a], p) <=> asg[a].partner = p
          /\ to \notin {"offered", "accepted", "picked_up"}
      BY <1>4 DEF Is, AssignmentStatus, OpenFor
    <2>2. Held(p)' = Held(p) - Unit(asg[a].partner = p)
      BY <1>4, <2>1, StatusChanges, Counts DEF Unit
    <2>3. /\ Coming(p, "create")' = Coming(p, "create")
          /\ Coming(p, "count")' = Coming(p, "count")
          /\ Coming(p, "release")' = Coming(p, "release") + Unit(asg[a].partner = p)
      BY <1>4, <2>1, ReleaseBegins
    <2>4. QED
      BY <1>1, <1>4, <2>2, <2>3, Counts, CountsAfter DEF Balanced, Unit
  <1>5. QED
    BY <1>2, <1>3, <1>4 DEF Reject, MarkDelivered

\* Of an assignment that is over the slot is released once more: it is noted.
LEMMA CancelKeepsLoad ==
    ASSUME TypeOK, LoadInv, NEW p \in Partners, NEW r \in Requests, NEW a \in Assignments,
           Cancel(r, a)
    PROVE  Balanced(p)'
  <1>1. Balanced(p) /\ activeCount[p] \in Nat
    BY DEF LoadInv, TypeOK
  <1>2. /\ asg[a] # None /\ SetStatus(a, "cancelled") /\ "cancelled" \in AssignmentStatus
        /\ Free(r) /\ BeginRelease(r, a, FALSE) /\ UNCHANGED activeCount
    BY DEF Cancel, AssignmentStatus
  <1>3. Held(p)' = Held(p) - Unit(OpenFor(asg[a], p))
    BY <1>2, StatusChanges, Counts DEF Unit
  <1>4. /\ Coming(p, "create")' = Coming(p, "create")
        /\ Coming(p, "count")' = Coming(p, "count")
        /\ Coming(p, "release")' = Coming(p, "release") + Unit(asg[a].partner = p)
    BY <1>2, ReleaseBegins
  <1>5. /\ excuses[p] \subseteq excuses'[p]
        /\ asg[a].partner = p /\ ~ OpenFor(asg[a], p) => "stray" \in excuses'[p]
        /\ OpenFor(asg[a], p) => asg[a].partner = p
    <2>1. (a \in Open(p)) <=> OpenFor(asg[a], p)
      BY DEF Open, OpenFor
    <2>2. QED
      BY <2>1 DEF Cancel, TypeOK, OpenFor
  <1>6. CASE OpenFor(asg[a], p)
    BY <1>1, <1>2, <1>3, <1>4, <1>5, <1>6, Counts, CountsAfter DEF Balanced, Unit
  <1>7. CASE ~ OpenFor(asg[a], p)
    BY <1>1, <1>2, <1>3, <1>4, <1>5, <1>7, Counts, CountsAfter DEF Balanced, Unit
  <1>8. QED
    BY <1>6, <1>7

\* A request that was to adjust the counter is over.
LEMMA RequestEnds ==
    ASSUME TypeOK, NEW p \in Partners, NEW r \in Requests, job[r] # NoJob,
           NEW newJob \in Job \cup {NoJob}, Become(r, newJob),
           newJob = NoJob \/ newJob.step = "sync"
    PROVE  \A step \in {"create", "count", "release"} :
             Coming(p, step)' = Coming(p, step)
                                  - (IF job[r].step = step /\ job[r].partner = p THEN 1 ELSE 0)
  <1>1. TAKE step \in {"create", "count", "release"}
  <1>2. Coming(p, step)' = Coming(p, step) - Unit(Serves(job[r], p, step))
                             + Unit(Serves(newJob, p, step))
    BY RequestMoves
  <1>3. /\ ~ Serves(newJob, p, step)
        /\ Serves(job[r], p, step) <=> job[r].step = step /\ job[r].partner = p
    BY DEF Serves
  <1>4. QED
    BY <1>2, <1>3, Counts DEF Unit

LEMMA DecrementKeepsLoad ==
    ASSUME TypeOK, LoadInv, NEW p \in Partners, NEW r \in Requests, DecrementActiveCount(r)
    PROVE  Balanced(p)'
  <1>1. /\ job[r] # NoJob /\ job[r].step = "release" /\ job[r].partner \in Partners
        /\ UNCHANGED asg
    BY JobAt DEF DecrementActiveCount, At
  <1>2. Balanced(p) /\ activeCount[p] \in Nat
    BY DEF LoadInv, TypeOK
  <1>3. PICK newJob \in Job \cup {NoJob} :
          Become(r, newJob) /\ (newJob = NoJob \/ newJob.step = "sync")
    BY AfterReleaseType DEF DecrementActiveCount
  <1>4. \A step \in {"create", "count", "release"} :
          Coming(p, step)' = Coming(p, step)
                               - (IF job[r].step = step /\ job[r].partner = p THEN 1 ELSE 0)
    BY <1>1, <1>3, RequestEnds
  <1>5. /\ Coming(p, "create")' = Coming(p, "create")
        /\ Coming(p, "count")' = Coming(p, "count")
        /\ Coming(p, "release")' = Coming(p, "release")
                                      - (IF job[r].partner = p THEN 1 ELSE 0)
    BY <1>1, <1>4, Counts
  <1>6. Held(p)' = Held(p)
    BY <1>1 DEF Held, Open
  <1>7. CASE job[r].partner # p
    <2>1. activeCount'[p] = activeCount[p] /\ excuses'[p] = excuses[p]
      BY <1>7 DEF DecrementActiveCount, TypeOK
    <2>2. QED
      BY <1>2, <1>5, <1>6, <1>7, <2>1, Counts DEF Balanced
  <1>8. CASE job[r].partner = p /\ activeCount[p] = 0
    <2>1. /\ activeCount'[p] = 0 /\ excuses[p] \subseteq excuses'[p]
          /\ "floored" \in excuses'[p]
      BY <1>8 DEF DecrementActiveCount, Decrement, TypeOK
    <2>2. QED
      BY <1>2, <1>5, <1>6, <1>8, <2>1, Counts, CountsAfter DEF Balanced
  <1>9. CASE job[r].partner = p /\ activeCount[p] # 0
    <2>1. activeCount'[p] = activeCount[p] - 1 /\ excuses[p] \subseteq excuses'[p]
      BY <1>9 DEF DecrementActiveCount, Decrement, TypeOK
    <2>2. QED
      BY <1>2, <1>5, <1>6, <1>9, <2>1, Counts, CountsAfter DEF Balanced
  <1>10. QED
    BY <1>7, <1>8, <1>9

\* The adjustment a request was about to make is lost, and it is noted.
LEMMA LossKeepsLoad ==
    ASSUME TypeOK, LoadInv, NEW p \in Partners, NEW r \in Requests, CountFails(r) \/ Abort(r)
    PROVE  Balanced(p)'
  <1>1. job[r] # NoJob /\ UNCHANGED <<activeCount, asg>>
    BY DEF CountFails, Abort, At, Free
  <1>2. Balanced(p) /\ activeCount[p] \in Nat
    BY DEF LoadInv, TypeOK
  <1>3. PICK newJob \in Job \cup {NoJob} :
          Become(r, newJob) /\ (newJob = NoJob \/ newJob.step = "sync")
    BY AfterReleaseType DEF CountFails, Abort
  <1>4. \A step \in {"create", "count", "release"} :
          Coming(p, step)' = Coming(p, step)
                               - (IF job[r].step = step /\ job[r].partner = p THEN 1 ELSE 0)
    BY <1>1, <1>3, RequestEnds
  <1>5. Held(p)' = Held(p)
    BY <1>1 DEF Held, Open
  <1>6. /\ excuses[p] \subseteq excuses'[p]
        /\ job[r].step = "count" /\ job[r].partner = p => "uncounted" \in excuses'[p]
        /\ job[r].step = "release" /\ job[r].partner = p => "unreleased" \in excuses'[p]
    <2>1. CASE CountFails(r)
      BY <2>1 DEF CountFails, Excused, At, TypeOK
    <2>2. CASE Abort(r)
      BY <2>2 DEF Abort, TypeOK
    <2>3. QED
      BY <2>1, <2>2
  <1>7. CASE job[r].step \notin {"create", "count", "release"} \/ job[r].partner # p
    <2>1. /\ Coming(p, "create")' = Coming(p, "create")
          /\ Coming(p, "count")' = Coming(p, "count")
          /\ Coming(p, "release")' = Coming(p, "release")
      BY <1>4, <1>7, Counts
    <2>2. QED
      BY <1>1, <1>2, <1>5, <1>6, <2>1, Counts DEF Balanced
  <1>8. CASE job[r].step = "create" /\ job[r].partner = p
    <2>1. /\ Coming(p, "create")' = Coming(p, "create") - 1
          /\ Coming(p, "count")' = Coming(p, "count")
          /\ Coming(p, "release")' = Coming(p, "release")
      BY <1>4, <1>8, Counts
    <2>2. QED
      BY <1>1, <1>2, <1>5, <1>6, <2>1, Counts, CountsAfter, SlotsAssumption DEF Balanced
  <1>9. CASE job[r].step = "count" /\ job[r].partner = p
    <2>1. /\ Coming(p, "create")' = Coming(p, "create")
          /\ Coming(p, "count")' = Coming(p, "count") - 1
          /\ Coming(p, "release")' = Coming(p, "release")
      BY <1>4, <1>9, Counts
    <2>2. QED
      BY <1>1, <1>2, <1>5, <1>6, <1>9, <2>1, Counts, CountsAfter DEF Balanced
  <1>10. CASE job[r].step = "release" /\ job[r].partner = p
    <2>1. /\ Coming(p, "create")' = Coming(p, "create")
          /\ Coming(p, "count")' = Coming(p, "count")
          /\ Coming(p, "release")' = Coming(p, "release") - 1
      BY <1>4, <1>10, Counts
    <2>2. QED
      BY <1>1, <1>2, <1>5, <1>6, <1>10, <2>1, Counts, CountsAfter DEF Balanced
  <1>11. QED
    BY <1>7, <1>8, <1>9, <1>10

LEMMA NextKeepsLoad ==
    ASSUME TypeOK, LoadInv, [Next]_vars
    PROVE  LoadInv'
  <1>1. SUFFICES ASSUME NEW p \in Partners PROVE Balanced(p)'
    BY DEF LoadInv
  <1>2. CASE UNCHANGED vars
    <2>1. UNCHANGED Held(p) /\ \A step : Coming(p, step)' = Coming(p, step)
      BY <1>2 DEF vars, Held, Coming, Open, Pending, At
    <2>2. QED
      BY <1>2, <2>1, NothingCounts DEF vars, LoadInv
  <1>3. CASE Next
    <2>1. CASE OnlineStep \/ ReviewStep
      BY <2>1, PartnerStepsKeepLoad
    <2>2. CASE AnswerStep
      BY <2>2, AnswersKeepLoad DEF AnswerStep
    <2>3. ASSUME NEW r \in Requests, DispatchStep(r) PROVE Balanced(p)'
      BY <2>3, OfferStepsKeepLoad, ChoiceKeepsLoad, CreateKeepsLoad, IncrementKeepsLoad
      DEF DispatchStep
    <2>4. ASSUME NEW r \in Requests, HandOverStep(r) \/ CancelStep(r) PROVE Balanced(p)'
      BY <2>4, AnswersKeepLoad, CancelKeepsLoad DEF HandOverStep, CancelStep
    <2>5. ASSUME NEW r \in Requests,
                 DecrementActiveCount(r) \/ CountFails(r) \/ Abort(r) \/ OrderAnswers(r)
          PROVE  Balanced(p)'
      BY <2>5, DecrementKeepsLoad, LossKeepsLoad, OfferStepsKeepLoad
    <2>6. QED
      BY <1>3, <2>1, <2>2, <2>3, <2>4, <2>5 DEF Next, Step
  <1>4. QED
    BY <1>2, <1>3

LEMMA LoadAlways == Spec => []LoadInv
  BY TypeCorrect, LoadInit, NextKeepsLoad, PTL DEF Spec

\* active_assignment_count errs in neither direction unless a statement
\* failed, an assignment that was over was cancelled, or a release overtook
\* the increment it belongs to.
THEOREM LoadCorrect == Spec => []LoadAccountedFor
  <1>1. LoadInv => LoadAccountedFor
    BY DEF LoadInv, Balanced, LoadAccountedFor, LoadNeverUnderstated, LoadNeverOverstated,
           Held, Coming
  <1>2. QED
    BY <1>1, LoadAlways, PTL

\* No partner has more than MaxActiveDeliveries assignments open, unless two
\* dispatches chose the partner at once or the counter had lost one.
THEOREM CapCorrect == Spec => []CapKept
  <1>1. LoadInv => CapKept
    <2>1. SUFFICES ASSUME NEW p \in Partners, Balanced(p),
                          excuses[p] \cap {"overlap", "uncounted", "stray"} = {}
                   PROVE  Held(p) <= MaxActive
      BY DEF LoadInv, CapKept, Held
    <2>2. Held(p) + Coming(p, "create") <= MaxActive
      BY <2>1 DEF Balanced
    <2>3. QED
      BY <2>2, Counts, SlotsAssumption
  <1>2. QED
    BY <1>1, LoadAlways, PTL

-----------------------------------------------------------------------------
(***************************************************************************)
(* Assignments and requests, step by step.                                 *)
(***************************************************************************)

\* Request r is on its way to tell the order that a was picked up, delivered.
PickingUp(r, a) == At(r, "sync") /\ job[r].asg = a /\ job[r].target = "out_for_delivery"

Delivering(r, a) ==
    \/ At(r, "release") /\ job[r].asg = a /\ job[r].delivered
    \/ At(r, "sync") /\ job[r].asg = a /\ job[r].target = "delivered"

\* A row is never removed or given to another order; one that comes to be
\* picked up or delivered has a request on its way.
RowsGoOn ==
    \A a \in Assignments :
      /\ asg[a] # None => asg'[a] # None /\ asg'[a].order = asg[a].order
      /\ Is(a, "picked_up")' => Is(a, "picked_up") \/ \E r \in Requests : PickingUp(r, a)'
      /\ Is(a, "delivered")' => Is(a, "delivered") \/ \E r \in Requests : Delivering(r, a)'

AboutAssignment(j) == j # NoJob /\ j.step \in {"release", "sync"}

\* A request keeps its errand until it ends.
JobsGoOn ==
    \A r \in Requests :
      /\ At(r, "sync") => job'[r] \in {job[r], NoJob}
      /\ \A a \in Assignments : Delivering(r, a) => Delivering(r, a)' \/ job'[r] = NoJob
      /\ AboutAssignment(job'[r]) =>
           \/ job[r] = NoJob /\ asg[job'[r].asg] # None
           \/ AboutAssignment(job[r]) /\ job'[r].asg = job[r].asg

LEMMA OneJob ==
    ASSUME TypeOK, NEW r \in Requests, NEW newJob, Become(r, newJob)
    PROVE  job'[r] = newJob /\ \A q \in Requests \ {r} : job'[q] = job[q]
  BY DEF Become, TypeOK

\* Slot r begins, goes on with or ends something else.
LEMMA OtherErrands ==
    ASSUME TypeOK, NEW r \in Requests, NEW newJob, Become(r, newJob),
           ~ AboutAssignment(job[r]), ~ AboutAssignment(newJob)
    PROVE  JobsGoOn
  <1>1. job'[r] = newJob /\ \A q \in Requests \ {r} : job'[q] = job[q]
    BY OneJob
  <1>2. ASSUME NEW q \in Requests \ {r}
        PROVE  /\ At(q, "sync") => job'[q] \in {job[q], NoJob}
               /\ \A a \in Assignments : Delivering(q, a) => Delivering(q, a)' \/ job'[q] = NoJob
               /\ AboutAssignment(job'[q]) => AboutAssignment(job[q]) /\ job'[q].asg = job[q].asg
    BY <1>1, <1>2 DEF At, Delivering, AboutAssignment
  <1>3. /\ ~ At(r, "sync") /\ ~ AboutAssignment(job'[r])
        /\ \A a \in Assignments : ~ Delivering(r, a)
    BY <1>1 DEF At, Delivering, AboutAssignment
  <1>4. QED
    BY <1>2, <1>3 DEF JobsGoOn

\* An assignment that is there sends slot r on an errand.
LEMMA NewErrand ==
    ASSUME TypeOK, NEW r \in Requests, Free(r), NEW newJob, Become(r, newJob),
           asg[newJob.asg] # None
    PROVE  JobsGoOn
  <1>1. job'[r] = newJob /\ \A q \in Requests \ {r} : job'[q] = job[q]
    BY OneJob
  <1>2. ASSUME NEW q \in Requests \ {r}
        PROVE  /\ At(q, "sync") => job'[q] \in {job[q], NoJob}
               /\ \A a \in Assignments : Delivering(q, a) => Delivering(q, a)' \/ job'[q] = NoJob
               /\ AboutAssignment(job'[q]) => AboutAssignment(job[q]) /\ job'[q].asg = job[q].asg
    BY <1>1, <1>2 DEF At, Delivering, AboutAssignment
  <1>3. /\ ~ At(r, "sync") /\ job[r] = NoJob /\ asg[job'[r].asg] # None
        /\ \A a \in Assignments : ~ Delivering(r, a)
    BY <1>1 DEF At, Delivering, Free
  <1>4. QED
    BY <1>2, <1>3 DEF JobsGoOn

\* The request in slot r ends, or goes on to the order.
LEMMA ErrandGoesOn ==
    ASSUME TypeOK, NEW r \in Requests, AboutAssignment(job[r]), NEW newJob, Become(r, newJob),
           \/ newJob = NoJob
           \/ /\ At(r, "release") /\ newJob.step = "sync" /\ newJob.asg = job[r].asg
              /\ newJob.target = "delivered" /\ newJob # NoJob
    PROVE  JobsGoOn
  <1>1. job'[r] = newJob /\ \A q \in Requests \ {r} : job'[q] = job[q]
    BY OneJob
  <1>2. ASSUME NEW q \in Requests \ {r}
        PROVE  /\ At(q, "sync") => job'[q] \in {job[q], NoJob}
               /\ \A a \in Assignments : Delivering(q, a) => Delivering(q, a)' \/ job'[q] = NoJob
               /\ AboutAssignment(job'[q]) => AboutAssignment(job[q]) /\ job'[q].asg = job[q].asg
    BY <1>1, <1>2 DEF At, Delivering, AboutAssignment
  <1>3. CASE newJob = NoJob
    BY <1>1, <1>2, <1>3 DEF JobsGoOn, AboutAssignment
  <1>4. CASE newJob # NoJob
    <2>1. /\ At(r, "release") /\ newJob.step = "sync" /\ newJob.asg = job[r].asg
          /\ newJob.target = "delivered"
      BY <1>4
    <2>2. /\ ~ At(r, "sync") /\ AboutAssignment(job[r]) /\ job'[r].asg = job[r].asg
          /\ \A a \in Assignments : Delivering(r, a) => Delivering(r, a)'
      BY <1>1, <1>4, <2>1 DEF At, Delivering, AboutAssignment
    <2>3. QED
      BY <1>2, <2>2 DEF JobsGoOn
  <1>5. QED
    BY <1>3, <1>4

LEMMA RowsStay ==
    ASSUME UNCHANGED asg
    PROVE  RowsGoOn
  BY DEF RowsGoOn, Is

LEMMA JobsStay ==
    ASSUME UNCHANGED job
    PROVE  JobsGoOn
  BY DEF JobsGoOn, At, Delivering, AboutAssignment

\* A row is changed to a status that no order has to follow.
LEMMA QuietRow ==
    ASSUME TypeOK, NEW a \in Assignments, asg[a] # None,
           NEW to \in {"accepted", "rejected", "cancelled"}, SetStatus(a, to)
    PROVE  RowsGoOn
  <1>1. /\ asg'[a] # None /\ asg'[a].status = to /\ asg'[a].order = asg[a].order
        /\ \A b \in Assignments \ {a} : asg'[b] = asg[b]
    <2>1. to \in AssignmentStatus
      BY DEF AssignmentStatus
    <2>2. QED
      BY <2>1, RowType
  <1>2. QED
    BY <1>1 DEF RowsGoOn, Is

LEMMA PartnerStepsGoOn ==
    ASSUME TypeOK, OnlineStep \/ ReviewStep
    PROVE  RowsGoOn /\ JobsGoOn
  <1>1. UNCHANGED asg
    BY DEF OnlineStep, ReviewStep, GoOffline, BeginOnline, SetPartnerOnline, AdminReviewKYC
  <1>2. ASSUME NEW q \in Partners, NEW r \in Requests, BeginOnline(r, q) PROVE JobsGoOn
    <2>1. PICK newJob : newJob = [step |-> "online", partner |-> q]
      OBVIOUS
    <2>2. Become(r, newJob) /\ ~ AboutAssignment(newJob) /\ ~ AboutAssignment(job[r])
      BY <1>2, <2>1 DEF BeginOnline, Free, AboutAssignment
    <2>3. QED
      BY <2>2, OtherErrands
  <1>3. ASSUME NEW r \in Requests, SetPartnerOnline(r) PROVE JobsGoOn
    BY <1>3, OtherErrands DEF SetPartnerOnline, At, AboutAssignment
  <1>4. QED
    BY <1>1, <1>2, <1>3, RowsStay, JobsStay
    DEF OnlineStep, ReviewStep, GoOffline, AdminReviewKYC

LEMMA DispatchGoesOn ==
    ASSUME TypeOK, NEW r \in Requests, DispatchStep(r)
    PROVE  RowsGoOn /\ JobsGoOn
  <1>1. ASSUME NEW newJob, Become(r, newJob), newJob = NoJob \/ newJob.step \in {"search", "create", "count"}
        PROVE  JobsGoOn
    <2>1. ~ AboutAssignment(newJob) /\ ~ AboutAssignment(job[r])
      BY <1>1 DEF DispatchStep, BeginOffer, ListNearbyAvailable, CreateAssignment, NobodyNearby,
                  IncrementActiveCount, At, Free, AboutAssignment
    <2>2. QED
      BY <1>1, <2>1, OtherErrands
  <1>2. ASSUME NEW o \in OrderIds, BeginOffer(r, o) PROVE RowsGoOn /\ JobsGoOn
    <2>1. PICK newJob : newJob = [step |-> "search", order |-> o]
      OBVIOUS
    <2>2. Become(r, newJob) /\ newJob.step = "search" /\ UNCHANGED asg
      BY <1>2, <2>1 DEF BeginOffer
    <2>3. QED
      BY <1>1, <2>2, RowsStay
  <1>3. ASSUME NEW q \in Partners, ListNearbyAvailable(r, q) PROVE RowsGoOn /\ JobsGoOn
    <2>1. PICK newJob : newJob = [step |-> "create", order |-> job[r].order, partner |-> q]
      OBVIOUS
    <2>2. Become(r, newJob) /\ newJob.step = "create" /\ UNCHANGED asg
      BY <1>3, <2>1 DEF ListNearbyAvailable
    <2>3. QED
      BY <1>1, <2>2, RowsStay
  <1>4. ASSUME NEW a \in Assignments, CreateAssignment(r, a) PROVE RowsGoOn /\ JobsGoOn
    <2>1. CASE asg' = asg /\ Become(r, NoJob)
      BY <1>1, <2>1, RowsStay
    <2>2. CASE /\ asg' = [asg EXCEPT ![a] = [order |-> job[r].order, status |-> "offered",
                                             partner |-> job[r].partner]]
               /\ Become(r, [step |-> "count", partner |-> job[r].partner])
      <3>1. PICK row : row = [order |-> job[r].order, status |-> "offered",
                              partner |-> job[r].partner]
        OBVIOUS
      <3>2. /\ asg'[a] = row /\ row.status = "offered" /\ asg[a] = None
            /\ \A b \in Assignments \ {a} : asg'[b] = asg[b]
        BY <1>4, <2>2, <3>1 DEF CreateAssignment, TypeOK
      <3>3. RowsGoOn
        BY <3>2 DEF RowsGoOn, Is
      <3>4. PICK newJob : newJob = [step |-> "count", partner |-> job[r].partner]
        OBVIOUS
      <3>5. Become(r, newJob) /\ newJob.step = "count"
        BY <2>2, <3>4
      <3>6. QED
        BY <1>1, <3>3, <3>5
    <2>3. QED
      BY <1>4, <2>1, <2>2 DEF CreateAssignment
  <1>5. NobodyNearby(r) \/ IncrementActiveCount(r) => RowsGoOn /\ JobsGoOn
    BY <1>1, RowsStay DEF NobodyNearby, IncrementActiveCount
  <1>6. QED
    BY <1>2, <1>3, <1>4, <1>5 DEF DispatchStep

LEMMA AssignmentGoesOn ==
    ASSUME TypeOK, NEW a \in Assignments
    PROVE  /\ Accept(a) => RowsGoOn /\ JobsGoOn
           /\ \A r \in Requests : Reject(r, a) \/ MarkPickedUp(r, a) \/ MarkDelivered(r, a)
                                    \/ Cancel(r, a) => RowsGoOn /\ JobsGoOn
  <1>1. Accept(a) => RowsGoOn /\ JobsGoOn
    BY QuietRow, JobsStay DEF Accept, Is
  <1>2. ASSUME NEW r \in Requests, NEW delivered \in BOOLEAN, asg[a] # None, Free(r),
               BeginRelease(r, a, delivered)
        PROVE  /\ JobsGoOn
               /\ delivered => Delivering(r, a)'
    <2>1. PICK newJob : newJob = [step |-> "release", partner |-> asg[a].partner, asg |-> a,
                                  delivered |-> delivered]
      OBVIOUS
    <2>2. /\ newJob.asg = a /\ newJob.step = "release" /\ newJob.delivered = delivered
          /\ Become(r, newJob)
      BY <1>2, <2>1 DEF BeginRelease
    <2>3. newJob # NoJob
      <3>1. asg[a].partner \in Partners
        BY <1>2 DEF TypeOK, Assignment
      <3>2. QED
        BY <2>1, <3>1, JobsOf
    <2>4. job'[r] = newJob
      BY <2>2, OneJob
    <2>5. delivered => Delivering(r, a)'
      BY <2>2, <2>3, <2>4 DEF Delivering, At
    <2>6. QED
      BY <1>2, <2>2, <2>5, NewErrand
  <1>3. ASSUME NEW r \in Requests, Reject(r, a) PROVE RowsGoOn /\ JobsGoOn
    BY <1>2, <1>3, QuietRow DEF Reject, Is
  <1>4. ASSUME NEW r \in Requests, Cancel(r, a) PROVE RowsGoOn /\ JobsGoOn
    BY <1>2, <1>4, QuietRow DEF Cancel
  <1>5. ASSUME NEW r \in Requests, MarkDelivered(r, a) PROVE RowsGoOn /\ JobsGoOn
    <2>1. JobsGoOn /\ Delivering(r, a)'
      BY <1>2, <1>5 DEF MarkDelivered, Is
    <2>2. /\ asg'[a] # None /\ asg'[a].status = "delivered" /\ asg'[a].order = asg[a].order
          /\ \A b \in Assignments \ {a} : asg'[b] = asg[b]
      <3>1. asg[a] # None /\ SetStatus(a, "delivered") /\ "delivered" \in AssignmentStatus
        BY <1>5 DEF MarkDelivered, Is, AssignmentStatus
      <3>2. QED
        BY <3>1, RowType
    <2>3. RowsGoOn
      BY <2>1, <2>2 DEF RowsGoOn, Is
    <2>4. QED
      BY <2>1, <2>3
  <1>6. ASSUME NEW r \in Requests, MarkPickedUp(r, a) PROVE RowsGoOn /\ JobsGoOn
    <2>1. PICK newJob : newJob = [step |-> "sync", asg |-> a, target |-> "out_for_delivery"]
      OBVIOUS
    <2>2. /\ newJob # NoJob /\ newJob.step = "sync" /\ newJob.asg = a
          /\ newJob.target = "out_for_delivery" /\ Become(r, newJob)
      BY <1>6, <2>1, JobsOf DEF MarkPickedUp
    <2>3. PickingUp(r, a)'
      BY <2>2, OneJob DEF PickingUp, At
    <2>4. asg[a] # None /\ Free(r) /\ SetStatus(a, "picked_up") /\ "picked_up" \in AssignmentStatus
      BY <1>6 DEF MarkPickedUp, Is, AssignmentStatus
    <2>5. JobsGoOn
      BY <2>2, <2>4, NewErrand
    <2>6. /\ asg'[a] # None /\ asg'[a].status = "picked_up" /\ asg'[a].order = asg[a].order
          /\ \A b \in Assignments \ {a} : asg'[b] = asg[b]
      BY <2>4, RowType
    <2>7. RowsGoOn
      BY <2>3, <2>6 DEF RowsGoOn, Is
    <2>8. QED
      BY <2>5, <2>7
  <1>7. QED
    BY <1>1, <1>3, <1>4, <1>5, <1>6

LEMMA CounterGoesOn ==
    ASSUME TypeOK, NEW r \in Requests, DecrementActiveCount(r) \/ CountFails(r) \/ Abort(r)
    PROVE  RowsGoOn /\ JobsGoOn
  <1>1. RowsGoOn
    BY RowsStay DEF DecrementActiveCount, CountFails, Abort
  <1>2. ASSUME Become(r, NoJob) PROVE JobsGoOn
    <2>1. PICK newJob : newJob = NoJob
      OBVIOUS
    <2>2. Become(r, newJob) /\ ~ AboutAssignment(newJob)
      BY <1>2, <2>1 DEF AboutAssignment
    <2>3. CASE AboutAssignment(job[r])
      BY <2>1, <2>2, <2>3, ErrandGoesOn
    <2>4. CASE ~ AboutAssignment(job[r])
      BY <2>2, <2>4, OtherErrands
    <2>5. QED
      BY <2>3, <2>4
  <1>3. ASSUME At(r, "release"), AfterRelease(r) PROVE JobsGoOn
    <2>1. AboutAssignment(job[r])
      BY <1>3 DEF At, AboutAssignment
    <2>2. CASE job[r].delivered
      <3>1. PICK newJob : newJob = [step |-> "sync", asg |-> job[r].asg, target |-> "delivered"]
        OBVIOUS
      <3>2. newJob \in Job /\ Become(r, newJob)
        BY <1>3, <2>2, <3>1, JobAt, JobsOf DEF At, AfterRelease
      <3>3. /\ newJob # NoJob /\ newJob.step = "sync" /\ newJob.asg = job[r].asg
            /\ newJob.target = "delivered"
        BY <3>1, <3>2
      <3>4. QED
        BY <1>3, <2>1, <3>2, <3>3, ErrandGoesOn
    <2>3. CASE ~ job[r].delivered
      BY <1>2, <1>3, <2>3 DEF AfterRelease
    <2>4. QED
      BY <2>2, <2>3
  <1>4. QED
    BY <1>1, <1>2, <1>3 DEF DecrementActiveCount, CountFails, Abort

LEMMA StepGoesOn ==
    ASSUME TypeOK, Step
    PROVE  RowsGoOn /\ JobsGoOn
  BY PartnerStepsGoOn, DispatchGoesOn, AssignmentGoesOn, CounterGoesOn
  DEF Step, AnswerStep, HandOverStep, CancelStep

-----------------------------------------------------------------------------
(***************************************************************************)
(* Assignment and order.                                                   *)
(***************************************************************************)

\* An UPDATE that has been decided on is allowed from the status it was
\* decided on; that of a delivery request is the one its assignment calls for.
UpdateInv ==
    /\ \A q \in Requests \cup Staff :
         update[q] # NoJob => CanTransitionTo(update[q].seen, update[q].target)
    /\ \A r \in Requests : update[r] # NoJob =>
         /\ At(r, "sync")
         /\ update[r].order = asg[job[r].asg].order
         /\ update[r].target = job[r].target

Errands == \A r \in Requests : AboutAssignment(job[r]) => asg[job[r].asg] # None

Explained(a) == a \in refused \cup unsynced \/ asg[a].order \in overwritten

\* The order of a picked up or delivered assignment has followed, or the
\* request that did that step is still to tell it.
FollowInv ==
    \A a \in Assignments : asg[a] # None /\ ~ Explained(a) =>
      /\ Is(a, "picked_up") => \/ status[asg[a].order] \in {"out_for_delivery", "delivered"}
                               \/ \E r \in Requests : PickingUp(r, a)
      /\ Is(a, "delivered") => \/ status[asg[a].order] = "delivered"
                               \/ \E r \in Requests : Delivering(r, a)

FulfilmentInv == FulfilmentTypeOK /\ Errands /\ UpdateInv /\ FollowInv

LEMMA ErrandAt ==
    ASSUME TypeOK, NEW r \in Requests, AboutAssignment(job[r])
    PROVE  /\ job[r].asg \in Assignments
           /\ job[r].step = "sync" => job[r].target \in {"out_for_delivery", "delivered"}
  <1>1. job[r] \in Job /\ job[r].step \in {"release", "sync"}
    BY DEF TypeOK, AboutAssignment
  <1>2. job[r] \in Adjusting \cup Syncing
    BY <1>1 DEF Job, GoingOnline, Offering
  <1>3. QED
    BY <1>1, <1>2 DEF Adjusting, Syncing

LEMMA FulfilmentInitial == FulfilmentInit => FulfilmentInv
  <1>1. SUFFICES ASSUME FulfilmentInit PROVE FulfilmentInv
    OBVIOUS
  <1>2. FulfilmentTypeOK
    BY <1>1, TypeInit, FulfilmentAssumption DEF FulfilmentInit, FulfilmentTypeOK, Status
  <1>3. Errands /\ UpdateInv /\ FollowInv
    BY <1>1 DEF FulfilmentInit, Init, Errands, UpdateInv, FollowInv, AboutAssignment
  <1>4. QED
    BY <1>2, <1>3 DEF FulfilmentInv

\* Every step of Fulfilment is one of Delivery, or leaves Delivery alone.
LEMMA FulfilmentSteps ==
    ASSUME [FulfilmentNext]_fulfilmentVars
    PROVE  [Next]_vars
  BY DEF FulfilmentNext, fulfilmentVars, DeliveryStep, SyncDecides, SyncRefused, SyncWrites,
         BeginUpdate, StaffWrites, Next

LEMMA DeliveryStepKeepsUpdates ==
    ASSUME FulfilmentInv, DeliveryStep
    PROVE  FulfilmentTypeOK' /\ Errands' /\ UpdateInv'
  <1> DEFINE ended == {r \in Requests : OwesOrder(r) /\ job'[r] = NoJob}
  <1>1. TypeOK /\ TypeOK' /\ RowsGoOn /\ JobsGoOn
    BY FulfilmentSteps, NextKeepsType, StepGoesOn
    DEF FulfilmentInv, FulfilmentTypeOK, FulfilmentNext, DeliveryStep
  <1>2. /\ unsynced' = unsynced \cup {job[r].asg : r \in ended}
        /\ update' = [q \in Requests \cup Staff |-> IF q \in ended THEN NoJob ELSE update[q]]
        /\ UNCHANGED <<status, overwritten, refused>>
    BY DEF DeliveryStep
  <1>3. \A r \in ended : job[r].asg \in Assignments
    BY <1>1, ErrandAt DEF OwesOrder, At, AboutAssignment
  <1>4. FulfilmentTypeOK'
    BY <1>1, <1>2, <1>3 DEF FulfilmentInv, FulfilmentTypeOK
  <1>5. Errands'
    <2>1. SUFFICES ASSUME NEW r \in Requests, AboutAssignment(job'[r])
                   PROVE  asg'[job'[r].asg] # None
      BY DEF Errands, AboutAssignment
    <2>2. job'[r].asg \in Assignments
      <3>1. AboutAssignment(job[r])'
        BY <2>1 DEF AboutAssignment
      <3>2. job'[r] \in Job /\ job'[r].step \in {"release", "sync"}
        BY <1>1, <2>1 DEF TypeOK, AboutAssignment
      <3>3. job'[r] \in Adjusting \cup Syncing
        BY <3>2 DEF Job, GoingOnline, Offering
      <3>4. QED
        BY <3>2, <3>3 DEF Adjusting, Syncing
    <2>3. asg[job'[r].asg] # None
      BY <1>1, <2>1 DEF JobsGoOn, FulfilmentInv, Errands
    <2>4. QED
      BY <1>1, <2>2, <2>3 DEF RowsGoOn
  <1>6. UpdateInv'
    <2>1. \A q \in Requests \cup Staff : update'[q] \in {update[q], NoJob}
      BY <1>2
    <2>2. \A q \in Requests \cup Staff :
            update'[q] # NoJob => CanTransitionTo(update'[q].seen, update'[q].target)
      BY <2>1 DEF FulfilmentInv, UpdateInv
    <2>3. ASSUME NEW r \in Requests, update'[r] # NoJob
          PROVE  /\ job'[r] = job[r] /\ At(r, "sync")
                 /\ update'[r].order = asg'[job'[r].asg].order
                 /\ update'[r].target = job'[r].target
      <3>1. update'[r] = update[r] /\ r \notin ended
        BY <1>2, <2>3
      <3>2. /\ At(r, "sync") /\ update[r].order = asg[job[r].asg].order
            /\ update[r].target = job[r].target
        BY <2>3, <3>1 DEF FulfilmentInv, UpdateInv
      <3>3. job'[r] = job[r]
        BY <1>1, <3>1, <3>2 DEF JobsGoOn, OwesOrder
      <3>4. AboutAssignment(job[r])
        BY <3>2 DEF At, AboutAssignment
      <3>5. job[r].asg \in Assignments /\ asg[job[r].asg] # None
        BY <1>1, <3>4, ErrandAt DEF FulfilmentInv, Errands
      <3>6. asg'[job[r].asg].order = asg[job[r].asg].order
        BY <1>1, <3>5 DEF RowsGoOn
      <3>7. QED
        BY <3>1, <3>2, <3>3, <3>6
    <2>4. QED
      BY <2>2, <2>3 DEF UpdateInv, At
  <1>7. QED
    BY <1>4, <1>5, <1>6

LEMMA DeliveryStepKeepsFollow ==
    ASSUME FulfilmentInv, DeliveryStep
    PROVE  FollowInv'
  <1>1. RowsGoOn /\ JobsGoOn
    BY StepGoesOn DEF FulfilmentInv, FulfilmentTypeOK, DeliveryStep
  <1>2. SUFFICES ASSUME NEW a \in Assignments, asg'[a] # None, ~ Explained(a)'
                 PROVE  /\ Is(a, "picked_up")' =>
                             \/ status'[asg'[a].order] \in {"out_for_delivery", "delivered"}
                             \/ \E r \in Requests : PickingUp(r, a)'
                        /\ Is(a, "delivered")' =>
                             \/ status'[asg'[a].order] = "delivered"
                             \/ \E r \in Requests : Delivering(r, a)'
    BY DEF FollowInv
  <1>3. \A r \in Requests : OwesOrder(r) /\ job'[r] = NoJob => job[r].asg # a
    BY <1>2 DEF DeliveryStep, Explained
  <1>4. ASSUME asg[a] # None
        PROVE  ~ Explained(a) /\ status'[asg'[a].order] = status[asg[a].order]
    BY <1>1, <1>2, <1>4 DEF RowsGoOn, DeliveryStep, Explained
  <1>5. ASSUME NEW r \in Requests, PickingUp(r, a) PROVE PickingUp(r, a)'
    <2>1. job'[r] # NoJob /\ job'[r] \in {job[r], NoJob}
      BY <1>1, <1>3, <1>5 DEF PickingUp, OwesOrder, JobsGoOn
    <2>2. QED
      BY <1>5, <2>1 DEF PickingUp, At
  <1>6. ASSUME NEW r \in Requests, Delivering(r, a) PROVE Delivering(r, a)'
    <2>1. job'[r] # NoJob
      BY <1>3, <1>6 DEF Delivering, OwesOrder
    <2>2. QED
      BY <1>1, <1>6, <2>1 DEF JobsGoOn
  <1>7. ASSUME Is(a, "picked_up")'
        PROVE  \/ status'[asg'[a].order] \in {"out_for_delivery", "delivered"}
               \/ \E r \in Requests : PickingUp(r, a)'
    <2>1. CASE Is(a, "picked_up")
      BY <1>4, <1>5, <2>1 DEF FulfilmentInv, FollowInv, Is
    <2>2. CASE ~ Is(a, "picked_up")
      BY <1>1, <1>7, <2>2 DEF RowsGoOn
    <2>3. QED
      BY <2>1, <2>2
  <1>8. ASSUME Is(a, "delivered")'
        PROVE  \/ status'[asg'[a].order] = "delivered"
               \/ \E r \in Requests : Delivering(r, a)'
    <2>1. CASE Is(a, "delivered")
      BY <1>4, <1>6, <2>1 DEF FulfilmentInv, FollowInv, Is
    <2>2. CASE ~ Is(a, "delivered")
      BY <1>1, <1>8, <2>2 DEF RowsGoOn
    <2>3. QED
      BY <2>1, <2>2
  <1>9. QED
    BY <1>7, <1>8

LEMMA UpdateAt ==
    ASSUME FulfilmentTypeOK, NEW q \in Requests \cup Staff, update[q] # NoJob
    PROVE  /\ update[q] \in Update
           /\ update[q].order \in OrderIds /\ update[q].target \in Status
  BY DEF FulfilmentTypeOK, Update

\* An order is read, and an UPDATE of it decided on.
LEMMA DecisionKeepsInv ==
    ASSUME FulfilmentInv, NEW q \in Requests \cup Staff, NEW o \in OrderIds,
           NEW target \in Status, Decide(q, o, target), CanTransitionTo(status[o], target),
           UNCHANGED <<vars, status, overwritten, syncVars>>,
           q \in Requests => At(q, "sync") /\ o = asg[job[q].asg].order /\ target = job[q].target
    PROVE  FulfilmentInv'
  <1>1. PICK decision : decision = [order |-> o, seen |-> status[o], target |-> target]
    OBVIOUS
  <1>2. /\ decision \in Update /\ decision # NoJob
        /\ decision.order = o /\ decision.seen = status[o] /\ decision.target = target
    BY <1>1, FulfilmentAssumption DEF FulfilmentInv, FulfilmentTypeOK, Update
  <1>3. update' = [update EXCEPT ![q] = decision]
    BY <1>1 DEF Decide
  <1>4. /\ update'[q] = decision
        /\ \A p \in (Requests \cup Staff) \ {q} : update'[p] = update[p]
    BY <1>3 DEF FulfilmentInv, FulfilmentTypeOK
  <1>5. FulfilmentTypeOK'
    BY <1>2, <1>3 DEF FulfilmentInv, FulfilmentTypeOK, TypeOK, vars, syncVars
  <1>6. UpdateInv'
    BY <1>2, <1>4 DEF FulfilmentInv, UpdateInv, vars, At
  <1>7. Errands' /\ FollowInv'
    BY DEF FulfilmentInv, Errands, AboutAssignment, FollowInv, Explained, Is, PickingUp,
           Delivering, At, vars, syncVars
  <1>8. QED
    BY <1>5, <1>6, <1>7 DEF FulfilmentInv

\* The order row is updated; the request may end with it.
LEMMA StatusIsWritten ==
    ASSUME FulfilmentInv, NEW q \in Requests \cup Staff, update[q] # NoJob, WriteStatus(q)
    PROVE  /\ status' \in [OrderIds -> Status] /\ overwritten' \subseteq OrderIds
           /\ status'[update[q].order] = update[q].target
           /\ overwritten \subseteq overwritten'
           /\ \A o \in OrderIds \ overwritten' :
                /\ status[o] \in {"out_for_delivery", "delivered"} =>
                     status'[o] \in {"out_for_delivery", "delivered"}
                /\ status[o] = "delivered" => status'[o] = "delivered" /\ o # update[q].order
  <1>1. update[q].order \in OrderIds /\ update[q].target \in Status
    BY UpdateAt DEF FulfilmentInv
  <1>2. CanTransitionTo(update[q].seen, update[q].target)
    BY DEF FulfilmentInv, UpdateInv
  <1>3. /\ status \in [OrderIds -> Status] /\ overwritten \subseteq OrderIds
        /\ status' = [status EXCEPT ![update[q].order] = update[q].target]
        /\ overwritten' = overwritten \cup {o \in {update[q].order} : status[o] # update[q].seen}
    BY DEF FulfilmentInv, FulfilmentTypeOK, WriteStatus
  <1>4. ASSUME NEW o \in OrderIds \ overwritten', o = update[q].order
        PROVE  CanTransitionTo(status[o], status'[o])
    BY <1>1, <1>2, <1>3, <1>4
  <1>5. \A s, t : CanTransitionTo(s, t) =>
          s # "delivered" /\ (s = "out_for_delivery" => t = "delivered")
    BY DEF CanTransitionTo, allowedTransitions
  <1>6. QED
    BY <1>1, <1>3, <1>4, <1>5

LEMMA StaffWritesKeepInv ==
    ASSUME FulfilmentInv, NEW q \in Staff, StaffWrites(q)
    PROVE  FulfilmentInv'
  <1>1. /\ update[q] # NoJob /\ WriteStatus(q) /\ UNCHANGED <<vars, syncVars>>
        /\ update' = [update EXCEPT ![q] = NoJob]
    BY DEF StaffWrites, WriteStatus, Forget
  <1>2. FulfilmentTypeOK'
    BY <1>1, StatusIsWritten DEF FulfilmentInv, FulfilmentTypeOK, TypeOK, vars, syncVars
  <1>3. UpdateInv' /\ Errands'
    BY <1>1 DEF FulfilmentInv, FulfilmentTypeOK, UpdateInv, Errands, AboutAssignment, At, vars
  <1>4. FollowInv'
    <2>1. SUFFICES ASSUME NEW a \in Assignments, asg[a] # None, ~ Explained(a)'
                   PROVE  /\ Is(a, "picked_up") =>
                               \/ status'[asg[a].order] \in {"out_for_delivery", "delivered"}
                               \/ \E r \in Requests : PickingUp(r, a)
                          /\ Is(a, "delivered") =>
                               \/ status'[asg[a].order] = "delivered"
                               \/ \E r \in Requests : Delivering(r, a)
      BY <1>1 DEF FollowInv, Is, PickingUp, Delivering, At, vars
    <2>2. asg[a].order \in OrderIds \ overwritten' /\ ~ Explained(a)
      BY <1>1, <2>1, StatusIsWritten
      DEF FulfilmentInv, FulfilmentTypeOK, TypeOK, Assignment, Explained, vars, syncVars
    <2>3. QED
      BY <1>1, <2>1, <2>2, StatusIsWritten DEF FulfilmentInv, FollowInv
  <1>5. QED
    BY <1>2, <1>3, <1>4 DEF FulfilmentInv

\* A delivery request has its answer: what ends with it, and what does not.
LEMMA AnswerEnds ==
    ASSUME FulfilmentInv, NEW r \in Requests, OrderAnswers(r)
    PROVE  /\ TypeOK' /\ Errands'
           /\ job[r] # NoJob /\ job[r].asg \in Assignments /\ asg[job[r].asg] # None
           /\ job[r].target \in {"out_for_delivery", "delivered"}
           /\ asg' = asg /\ job'[r] = NoJob /\ \A p \in Requests \ {r} : job'[p] = job[p]
  <1>1. TypeOK /\ At(r, "sync") /\ asg' = asg /\ Become(r, NoJob)
    BY DEF FulfilmentInv, FulfilmentTypeOK, OrderAnswers
  <1>2. TypeOK'
    BY <1>1, CounterKeepsType
  <1>3. job'[r] = NoJob /\ \A p \in Requests \ {r} : job'[p] = job[p]
    BY <1>1, OneJob
  <1>4. AboutAssignment(job[r])
    BY <1>1 DEF At, AboutAssignment
  <1>5. Errands'
    BY <1>1, <1>3 DEF FulfilmentInv, Errands, AboutAssignment
  <1>6. QED
    BY <1>1, <1>2, <1>3, <1>4, <1>5, ErrandAt DEF FulfilmentInv, Errands, At

LEMMA SyncRefusedKeepsInv ==
    ASSUME FulfilmentInv, NEW r \in Requests, SyncRefused(r)
    PROVE  FulfilmentInv'
  <1>1. /\ OrderAnswers(r) /\ update[r] = NoJob /\ refused' = refused \cup {job[r].asg}
        /\ UNCHANGED <<status, update, overwritten, unsynced>>
    BY DEF SyncRefused, orderVars
  <1>2. FulfilmentTypeOK'
    BY <1>1, AnswerEnds DEF FulfilmentInv, FulfilmentTypeOK
  <1>3. UpdateInv'
    BY <1>1, AnswerEnds DEF FulfilmentInv, UpdateInv, At
  <1>4. FollowInv'
    <2>1. SUFFICES ASSUME NEW a \in Assignments, asg[a] # None, ~ Explained(a)'
                   PROVE  /\ Is(a, "picked_up") =>
                               \/ status[asg[a].order] \in {"out_for_delivery", "delivered"}
                               \/ \E p \in Requests : PickingUp(p, a)'
                          /\ Is(a, "delivered") =>
                               \/ status[asg[a].order] = "delivered"
                               \/ \E p \in Requests : Delivering(p, a)'
      BY <1>1, AnswerEnds DEF FollowInv, Is
    <2>2. a # job[r].asg /\ ~ Explained(a)
      BY <1>1, <2>1, AnswerEnds DEF Explained
    <2>3. \A p \in Requests : /\ PickingUp(p, a) => PickingUp(p, a)'
                              /\ Delivering(p, a) => Delivering(p, a)'
      BY <1>1, <2>2, AnswerEnds DEF PickingUp, Delivering, At
    <2>4. QED
      BY <2>1, <2>2, <2>3 DEF FulfilmentInv, FollowInv
  <1>5. QED
    BY <1>1, <1>2, <1>3, <1>4, AnswerEnds DEF FulfilmentInv

\* The order follows its assignment.  If the assignment has gone on meanwhile,
\* the request that did so is still on its way.
LEMMA SyncWritesKeepsInv ==
    ASSUME FulfilmentInv, NEW r \in Requests, SyncWrites(r)
    PROVE  FulfilmentInv'
  <1>1. /\ update[r] # NoJob /\ WriteStatus(r) /\ OrderAnswers(r) /\ UNCHANGED syncVars
        /\ update' = [update EXCEPT ![r] = NoJob]
    BY DEF SyncWrites, WriteStatus, Forget
  <1>2. FulfilmentTypeOK'
    BY <1>1, AnswerEnds, StatusIsWritten DEF FulfilmentInv, FulfilmentTypeOK, syncVars
  <1>3. UpdateInv'
    <2>1. update'[r] = NoJob /\ \A q \in (Requests \cup Staff) \ {r} : update'[q] = update[q]
      BY <1>1 DEF FulfilmentInv, FulfilmentTypeOK
    <2>2. QED
      BY <1>1, <2>1, AnswerEnds DEF FulfilmentInv, UpdateInv, At
  <1>4. FollowInv'
    <2>1. SUFFICES ASSUME NEW a \in Assignments, asg[a] # None, ~ Explained(a)'
                   PROVE  /\ Is(a, "picked_up") =>
                               \/ status'[asg[a].order] \in {"out_for_delivery", "delivered"}
                               \/ \E p \in Requests : PickingUp(p, a)'
                          /\ Is(a, "delivered") =>
                               \/ status'[asg[a].order] = "delivered"
                               \/ \E p \in Requests : Delivering(p, a)'
      BY <1>1, AnswerEnds DEF FollowInv, Is
    <2>2. asg[a].order \in OrderIds \ overwritten' /\ ~ Explained(a)
      BY <1>1, <2>1, AnswerEnds, StatusIsWritten
      DEF FulfilmentInv, FulfilmentTypeOK, TypeOK, Assignment, Explained, syncVars
    <2>3. /\ update[r].order = asg[job[r].asg].order /\ update[r].target = job[r].target
          /\ status'[update[r].order] = job[r].target
      BY <1>1, StatusIsWritten DEF FulfilmentInv, UpdateInv
    <2>4. \A p \in Requests \ {r} : /\ PickingUp(p, a) => PickingUp(p, a)'
                                    /\ Delivering(p, a) => Delivering(p, a)'
      BY <1>1, AnswerEnds DEF PickingUp, Delivering, At
    <2>5. ASSUME Is(a, "picked_up")
          PROVE  \/ status'[asg[a].order] \in {"out_for_delivery", "delivered"}
                 \/ \E p \in Requests : PickingUp(p, a)'
      <3>1. CASE status[asg[a].order] \in {"out_for_delivery", "delivered"}
        BY <1>1, <2>2, <3>1, StatusIsWritten
      <3>2. CASE PickingUp(r, a)
        BY <2>3, <3>2 DEF PickingUp
      <3>3. CASE \E p \in Requests \ {r} : PickingUp(p, a)
        BY <2>4, <3>3
      <3>4. QED
        BY <2>1, <2>2, <2>5, <3>1, <3>2, <3>3 DEF FulfilmentInv, FollowInv
    <2>6. ASSUME Is(a, "delivered")
          PROVE  \/ status'[asg[a].order] = "delivered"
                 \/ \E p \in Requests : Delivering(p, a)'
      <3>1. CASE status[asg[a].order] = "delivered"
        BY <1>1, <2>2, <3>1, StatusIsWritten
      <3>2. CASE Delivering(r, a)
        <4>1. At(r, "sync")
          BY <1>1 DEF OrderAnswers
        <4>2. QED
          BY <2>3, <3>2, <4>1 DEF Delivering, At
      <3>3. CASE \E p \in Requests \ {r} : Delivering(p, a)
        BY <2>4, <3>3
      <3>4. QED
        BY <2>1, <2>2, <2>6, <3>1, <3>2, <3>3 DEF FulfilmentInv, FollowInv
    <2>7. QED
      BY <2>5, <2>6
  <1>5. QED
    BY <1>1, <1>2, <1>3, <1>4, AnswerEnds DEF FulfilmentInv

LEMMA FulfilmentKeepsInv ==
    ASSUME FulfilmentInv, [FulfilmentNext]_fulfilmentVars
    PROVE  FulfilmentInv'
  <1>1. CASE UNCHANGED fulfilmentVars
    BY <1>1 DEF fulfilmentVars, vars, orderVars, syncVars, FulfilmentInv, FulfilmentTypeOK, TypeOK,
                Errands, AboutAssignment, UpdateInv, FollowInv, Explained, Is, PickingUp,
                Delivering, At
  <1>2. ASSUME NEW q \in Staff, NEW o \in OrderIds, NEW target \in Status,
               BeginUpdate(q, o, target)
        PROVE  FulfilmentInv'
    BY <1>2, DecisionKeepsInv, FulfilmentAssumption DEF BeginUpdate
  <1>3. ASSUME NEW r \in Requests, SyncDecides(r) PROVE FulfilmentInv'
    <2>1. PICK o, target : o = asg[job[r].asg].order /\ target = job[r].target
      OBVIOUS
    <2>2. At(r, "sync") /\ AboutAssignment(job[r])
      BY <1>3 DEF SyncDecides, At, AboutAssignment
    <2>3. /\ job[r].asg \in Assignments /\ asg[job[r].asg] # None
          /\ target \in {"out_for_delivery", "delivered"}
      BY <2>1, <2>2, ErrandAt DEF FulfilmentInv, FulfilmentTypeOK, Errands, At
    <2>4. o \in OrderIds /\ target \in Status
      BY <2>1, <2>3 DEF FulfilmentInv, FulfilmentTypeOK, TypeOK, Assignment, Status
    <2>5. QED
      BY <1>3, <2>1, <2>2, <2>4, DecisionKeepsInv DEF SyncDecides
  <1>4. CASE DeliveryStep
    BY <1>4, DeliveryStepKeepsUpdates, DeliveryStepKeepsFollow DEF FulfilmentInv
  <1>5. QED
    BY <1>1, <1>2, <1>3, <1>4, StaffWritesKeepInv, SyncRefusedKeepsInv, SyncWritesKeepsInv
    DEF FulfilmentNext

\* Composed with the orders, Delivery does nothing it could not do alone: what
\* is proved of it above holds of the composition.
THEOREM FulfilmentIsDelivery == FulfilmentSpec => Spec
  <1>1. FulfilmentInit => Init
    BY DEF FulfilmentInit
  <1>2. QED
    BY <1>1, FulfilmentSteps, PTL DEF FulfilmentSpec, Spec

\* The order of a picked up or delivered assignment is in step, unless its
\* request is still to end, was refused or failed, or another request has
\* overwritten the order: DriftExplained of the run fulfilment.
THEOREM DriftCorrect == FulfilmentSpec => []DriftExplained
  <1>1. FulfilmentSpec => []FulfilmentInv
    BY FulfilmentInitial, FulfilmentKeepsInv, PTL DEF FulfilmentSpec
  <1>2. FulfilmentInv => DriftExplained
    <2>1. SUFFICES ASSUME FulfilmentInv, NEW a \in Assignments, asg[a] # None,
                          ~ Explained(a), ~ Moving(a)
                   PROVE  InStep(a)
      BY DEF DriftExplained, Explained
    <2>2. \A r \in Requests : ~ PickingUp(r, a) /\ ~ Delivering(r, a)
      BY <2>1 DEF Moving, PickingUp, Delivering, At
    <2>3. QED
      BY <2>1, <2>2 DEF FulfilmentInv, FollowInv, InStep
  <1>3. QED
    BY <1>1, <1>2, PTL
=============================================================================
