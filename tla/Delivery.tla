------------------------------ MODULE Delivery ------------------------------
(***************************************************************************)
(* The Delivery module: delivery_service.go over repository.go over        *)
(* delivery.sql.  Partners are reviewed, go online, and are offered        *)
(* orders; an assignment is one offer of one order to one partner.         *)
(*                                                                         *)
(* How many assignments a partner has open is kept twice: in the rows of   *)
(* delivery_assignments and in the counter active_assignment_count, which  *)
(* the service adjusts in a statement of its own after the row has         *)
(* changed, dropping the error.  Dispatch trusts the counter.              *)
(*                                                                         *)
(* Distance is abstracted: any eligible partner may be the nearest.  What  *)
(* MarkPickedUp and MarkDelivered do to the order is in Fulfilment.        *)
(***************************************************************************)
EXTENDS Integers, FiniteSets

CONSTANTS
    OrderIds,
    Partners,            \* registered partners
    Assignments,         \* the delivery_assignments rows that may be created
    Requests,            \* request slots: how many requests can be in flight
    NoJob,               \* job[r] of a slot that serves no request
    None,                \* no row
    MaxActive,           \* DispatchConfig.MaxActiveDeliveries
    MaxFaults            \* bound: how many statements may fail

VARIABLES
    kyc,                 \* kyc[p]: delivery_partners.kyc_status
    online,              \* the partners with is_online
    activeCount,         \* activeCount[p]: active_assignment_count
    asg,                 \* asg[a]: the assignment row, or None
    job,                 \* job[r]: the request in slot r, or NoJob
    excuses,             \* history variable: what has gone wrong with the
                         \* counter of partner p so far
    faults               \* how many statements have failed so far

partnerVars == <<kyc, online>>
vars == <<kyc, online, activeCount, asg, job, excuses, faults>>

-----------------------------------------------------------------------------
KYCStatus == {"pending", "under_review", "verified", "rejected"}

AssignmentStatus ==
    {"offered", "accepted", "rejected", "picked_up", "delivered", "cancelled"}

Assignment == [order : OrderIds, partner : Partners, status : AssignmentStatus]

GoingOnline == [step : {"online"}, partner : Partners]
Offering == [step : {"search"}, order : OrderIds]
              \cup [step : {"create"}, order : OrderIds, partner : Partners]
Adjusting == [step : {"count"}, partner : Partners]
               \cup [step : {"release"}, partner : Partners,
                     asg : Assignments, delivered : BOOLEAN]
Syncing == [step : {"sync"}, asg : Assignments, target : {"out_for_delivery", "delivered"}]

Job == GoingOnline \cup Offering \cup Adjusting \cup Syncing

ASSUME SlotsAssumption ==
    /\ NoJob \notin Job
    /\ None \notin Assignment
    /\ IsFiniteSet(Assignments) /\ IsFiniteSet(Requests)
    /\ MaxActive \in Nat /\ MaxFaults \in Nat

Excuse == {"overlap", "uncounted", "stray", "floored", "unreleased"}

TypeOK ==
    /\ kyc \in [Partners -> KYCStatus]
    /\ online \subseteq Partners
    /\ activeCount \in [Partners -> Nat]
    /\ asg \in [Assignments -> Assignment \cup {None}]
    /\ job \in [Requests -> Job \cup {NoJob}]
    /\ excuses \in [Partners -> SUBSET Excuse]
    /\ faults \in 0 .. MaxFaults

\* RegisterPartner inserts a partner with these column defaults.
Init ==
    /\ kyc = [p \in Partners |-> "pending"]
    /\ online = {}
    /\ activeCount = [p \in Partners |-> 0]
    /\ asg = [a \in Assignments |-> None]
    /\ job = [r \in Requests |-> NoJob]
    /\ excuses = [p \in Partners |-> {}]
    /\ faults = 0

Free(r) == job[r] = NoJob

At(r, step) == job[r] # NoJob /\ job[r].step = step

Become(r, newJob) == job' = [job EXCEPT ![r] = newJob]

Excused(p, why) == excuses' = [excuses EXCEPT ![p] = @ \cup {why}]

\* The row of assignment a exists and has the given status.
Is(a, s) == asg[a] # None /\ asg[a].status = s

SetStatus(a, s) == asg' = [asg EXCEPT ![a] = [@ EXCEPT !.status = s]]

\* The assignments the partner has to do something about.
Open(p) == {a \in Assignments : asg[a] # None /\ asg[a].partner = p
                                  /\ asg[a].status \in {"offered", "accepted", "picked_up"}}

\* What the unique index on delivery_assignments counts as active.
ActiveFor(o) == {a \in Assignments : asg[a] # None /\ asg[a].order = o
                                       /\ asg[a].status \notin {"rejected", "cancelled"}}

-----------------------------------------------------------------------------
(***************************************************************************)
(* Partners: review and availability.                                      *)
(***************************************************************************)

AdminReviewKYC(p, verdict) ==
    /\ kyc' = [kyc EXCEPT ![p] = verdict]
    /\ UNCHANGED <<online, activeCount, asg, job, excuses, faults>>

\* SetOnline(true): the partner is read and must be verified.
BeginOnline(r, p) ==
    /\ Free(r)
    /\ kyc[p] = "verified"
    /\ Become(r, [step |-> "online", partner |-> p])
    /\ UNCHANGED <<partnerVars, activeCount, asg, excuses, faults>>

SetPartnerOnline(r) ==
    /\ At(r, "online")
    /\ online' = online \cup {job[r].partner}
    /\ Become(r, NoJob)
    /\ UNCHANGED <<kyc, activeCount, asg, excuses, faults>>

\* SetOnline(false) checks nothing.
GoOffline(p) ==
    /\ online' = online \ {p}
    /\ UNCHANGED <<kyc, activeCount, asg, job, excuses, faults>>

-----------------------------------------------------------------------------
(***************************************************************************)
(* FindAndOffer: look for an active assignment, search a partner, insert   *)
(* the offer, count it.                                                    *)
(***************************************************************************)

\* The order is found, in whatever status, and has no active assignment.
BeginOffer(r, o) ==
    /\ Free(r)
    /\ ActiveFor(o) = {}
    /\ Become(r, [step |-> "search", order |-> o])
    /\ UNCHANGED <<partnerVars, activeCount, asg, excuses, faults>>

\* A dispatch has chosen partner p and not yet counted the offer.
Choosing(r, p) == job[r] # NoJob /\ job[r].step \in {"create", "count"} /\ job[r].partner = p

\* Mutant: the cap is checked with <= instead of <.
MutantAvailable(p) == p \in online /\ kyc[p] = "verified" /\ activeCount[p] <= MaxActive

Available(p) == p \in online /\ kyc[p] = "verified" /\ activeCount[p] < MaxActive

\* The search returns a partner; history notes when another dispatch has
\* chosen the same one.
ListNearbyAvailable(r, p) ==
    /\ At(r, "search")
    /\ Available(p)
    /\ Become(r, [step |-> "create", order |-> job[r].order, partner |-> p])
    /\ excuses' = [excuses EXCEPT ![p] = @ \cup
                     {why \in {"overlap"} : \E s \in Requests : Choosing(s, p)}]
    /\ UNCHANGED <<partnerVars, activeCount, asg, faults>>

\* Nobody is available nearby.
NobodyNearby(r) ==
    /\ At(r, "search")
    /\ Become(r, NoJob)
    /\ UNCHANGED <<partnerVars, activeCount, asg, excuses, faults>>

\* The offer is inserted, unless the unique index finds that the order has
\* been offered in the meantime.
CreateAssignment(r, a) ==
    /\ At(r, "create")
    /\ asg[a] = None
    /\ \/ /\ ActiveFor(job[r].order) = {}
          /\ asg' = [asg EXCEPT ![a] = [order |-> job[r].order, status |-> "offered",
                                        partner |-> job[r].partner]]
          /\ Become(r, [step |-> "count", partner |-> job[r].partner])
       \/ /\ ActiveFor(job[r].order) # {}
          /\ Become(r, NoJob)
          /\ UNCHANGED asg
    /\ UNCHANGED <<partnerVars, activeCount, excuses, faults>>

IncrementActiveCount(r) ==
    /\ At(r, "count")
    /\ activeCount' = [activeCount EXCEPT ![job[r].partner] = @ + 1]
    /\ Become(r, NoJob)
    /\ UNCHANGED <<partnerVars, asg, excuses, faults>>

-----------------------------------------------------------------------------
(***************************************************************************)
(* The life of an assignment.  Accept, Reject, MarkPickedUp and            *)
(* MarkDelivered are UPDATEs guarded by the status they start from; Cancel *)
(* is keyed by id alone.                                                   *)
(***************************************************************************)

\* The partner accepts; the customer is notified.
Accept(a) ==
    /\ Is(a, "offered")
    /\ SetStatus(a, "accepted")
    /\ UNCHANGED <<partnerVars, activeCount, job, excuses, faults>>

BeginRelease(r, a, delivered) ==
    Become(r, [step |-> "release", partner |-> asg[a].partner, asg |-> a,
               delivered |-> delivered])

\* Mutant: a rejected partner keeps the slot.
MutantReject(r, a) ==
    /\ Free(r)
    /\ Is(a, "offered")
    /\ SetStatus(a, "rejected")
    /\ UNCHANGED <<partnerVars, activeCount, job, excuses, faults>>

Reject(r, a) ==
    /\ Free(r)
    /\ Is(a, "offered")
    /\ SetStatus(a, "rejected")
    /\ BeginRelease(r, a, FALSE)
    /\ UNCHANGED <<partnerVars, activeCount, excuses, faults>>

\* The partner has the food; the order is to follow.
MarkPickedUp(r, a) ==
    /\ Free(r)
    /\ Is(a, "accepted")
    /\ SetStatus(a, "picked_up")
    /\ Become(r, [step |-> "sync", asg |-> a, target |-> "out_for_delivery"])
    /\ UNCHANGED <<partnerVars, activeCount, excuses, faults>>

\* The customer's code was right.
MarkDelivered(r, a) ==
    /\ Free(r)
    /\ Is(a, "picked_up")
    /\ SetStatus(a, "delivered")
    /\ BeginRelease(r, a, TRUE)
    /\ UNCHANGED <<partnerVars, activeCount, excuses, faults>>

\* Cancel of any assignment, also of one that is over: its slot has then
\* been released before.
Cancel(r, a) ==
    /\ Free(r)
    /\ asg[a] # None
    /\ SetStatus(a, "cancelled")
    /\ BeginRelease(r, a, FALSE)
    /\ excuses' = [excuses EXCEPT ![asg[a].partner] = @ \cup
                     {why \in {"stray"} : a \notin Open(asg[a].partner)}]
    /\ UNCHANGED <<partnerVars, activeCount, faults>>

\* After the counter: a delivery goes on to the order, the others are done.
AfterRelease(r) ==
    IF job[r].delivered
      THEN Become(r, [step |-> "sync", asg |-> job[r].asg, target |-> "delivered"])
      ELSE Become(r, NoJob)

\* GREATEST(active_assignment_count - 1, 0)
Decrement(n) == IF n = 0 THEN 0 ELSE n - 1

\* The counter is decremented; history notes when it was already 0.
DecrementActiveCount(r) ==
    /\ At(r, "release")
    /\ LET p == job[r].partner IN
         /\ activeCount' = [activeCount EXCEPT ![p] = Decrement(@)]
         /\ excuses' = [excuses EXCEPT ![p] = @ \cup
                          {why \in {"floored"} : activeCount[p] = 0}]
    /\ AfterRelease(r)
    /\ UNCHANGED <<partnerVars, asg, faults>>

\* orders.UpdateStatus is called and its error dropped: see Fulfilment.
OrderAnswers(r) ==
    /\ At(r, "sync")
    /\ Become(r, NoJob)
    /\ UNCHANGED <<partnerVars, activeCount, asg, excuses, faults>>

-----------------------------------------------------------------------------
Fault == faults < MaxFaults /\ faults' = faults + 1

\* A counter statement fails; the service drops the error and carries on.
CountFails(r) ==
    /\ Fault
    /\ \/ At(r, "count") /\ Excused(job[r].partner, "uncounted") /\ Become(r, NoJob)
       \/ At(r, "release") /\ Excused(job[r].partner, "unreleased") /\ AfterRelease(r)
    /\ UNCHANGED <<partnerVars, activeCount, asg>>

\* The request ends before its next statement: the statement fails, the
\* context is cancelled, the process stops.
Abort(r) ==
    /\ ~Free(r)
    /\ Fault
    /\ excuses' = IF job[r].step \in {"count", "release"}
                    THEN [excuses EXCEPT ![job[r].partner] = @ \cup
                            {IF job[r].step = "count" THEN "uncounted" ELSE "unreleased"}]
                    ELSE excuses
    /\ Become(r, NoJob)
    /\ UNCHANGED <<partnerVars, activeCount, asg>>

\* Everything but the answer of the Orders module.
OnlineStep ==
    \E p \in Partners :
       \/ GoOffline(p)
       \/ \E r \in Requests : BeginOnline(r, p) \/ SetPartnerOnline(r)

ReviewStep ==
    \E p \in Partners, verdict \in {"verified", "rejected"} : AdminReviewKYC(p, verdict)

DispatchStep(r) ==
    \/ \E o \in OrderIds : BeginOffer(r, o)
    \/ \E p \in Partners : ListNearbyAvailable(r, p)
    \/ \E a \in Assignments : CreateAssignment(r, a)
    \/ NobodyNearby(r) \/ IncrementActiveCount(r)

AnswerStep == \E a \in Assignments : Accept(a) \/ \E r \in Requests : Reject(r, a)

HandOverStep(r) == \E a \in Assignments : MarkPickedUp(r, a) \/ MarkDelivered(r, a)

CancelStep(r) == \E a \in Assignments : Cancel(r, a)

Step ==
    \/ OnlineStep \/ ReviewStep \/ AnswerStep
    \/ \E r \in Requests :
          \/ DispatchStep(r) \/ HandOverStep(r) \/ CancelStep(r)
          \/ DecrementActiveCount(r) \/ CountFails(r) \/ Abort(r)

Next == Step \/ \E r \in Requests : OrderAnswers(r)

Spec == Init /\ [][Next]_vars

-----------------------------------------------------------------------------
(***************************************************************************)
(* Properties.                                                             *)
(***************************************************************************)

\* The requests that are about to adjust the counter of p.
Pending(p, step) == {r \in Requests : At(r, step) /\ job[r].partner = p}

\* The counter never hides work: the open assignments of a partner are all
\* in it, or about to be counted, unless an increment was lost to a failure
\* or an assignment that was already over was cancelled.  Releases that are
\* still to come are in it too, so that they cannot take another
\* assignment's place.
LoadNeverUnderstated ==
    \A p \in Partners : excuses[p] \cap {"uncounted", "stray"} = {} =>
        Cardinality(Open(p)) + Cardinality(Pending(p, "release"))
          <= activeCount[p] + Cardinality(Pending(p, "count"))

\* The counter never withholds a slot: what it counts is open or about to be
\* released, unless a decrement was lost to a failure or came before the
\* increment it belongs to and found the counter at 0.
LoadNeverOverstated ==
    \A p \in Partners : excuses[p] \cap {"unreleased", "floored"} = {} =>
        activeCount[p] + Cardinality(Pending(p, "count"))
          <= Cardinality(Open(p)) + Cardinality(Pending(p, "release"))

\* Whatever the order of offers, answers, counts and releases, the counter
\* errs in neither direction without one of the reasons above.
LoadAccountedFor == LoadNeverUnderstated /\ LoadNeverOverstated

\* No partner carries more than MaxActiveDeliveries assignments, unless two
\* dispatches chose the partner at once or the counter had lost one.
CapKept ==
    \A p \in Partners : excuses[p] \cap {"overlap", "uncounted", "stray"} = {} =>
        Cardinality(Open(p)) <= MaxActive
=============================================================================
