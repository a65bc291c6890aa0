-------------------------- MODULE RestaurantsProofs --------------------------
(***************************************************************************)
(* Proofs about Restaurants, for any document types, days, users and       *)
(* number of requests.                                                     *)
(*                                                                         *)
(* What makes the properties inductive: what SubmitForApproval has found   *)
(* stays true until its UPDATE, because no statement takes a document away *)
(* and hours are only away while they are replaced; at most one            *)
(* replacement of a day, and one document review, is under way unless      *)
(* "unsure" or "disturbed" says so; an undisturbed review finds the        *)
(* documents as they are when it sets kyc_status; and uncontested, nobody  *)
(* decides about an approved restaurant, or opens one that is not.         *)
(***************************************************************************)
EXTENDS Restaurants, TLAPS

USE RestaurantsAssumption

\* Requests are about a restaurant that exists.
Onboarded == \A r \in Requests : job[r] # NoJob => restaurant # None

HasDocuments == \A t \in Required : document[t] # None

HasHours == \E d \in Days : hours[d] > 0 \/ d \in unsure \/ Replacing(d) # {}

\* What the restaurant has been found to have, by the requests too that have
\* not written it yet.
CompleteInv ==
    /\ restaurant # None /\ restaurant.status # "draft" => HasDocuments /\ HasHours
    /\ \A r \in Requests :
         /\ At(r, "documents") => HasHours
         /\ At(r, "status") => HasDocuments /\ HasHours

HoursInv ==
    \A d \in Days \ unsure :
       /\ \A q, r \in Replacing(d) : q = r
       /\ hours[d] <= IF Replacing(d) = {} THEN 1 ELSE 0

\* A review that is going to set kyc_status to 'rejected' if it comes to that.
Rejecting(r) ==
    \/ At(r, "list") /\ job[r].verdict = "rejected"
    \/ At(r, "kyc") /\ job[r].to = "rejected"

ReviewInv ==
    ~ disturbed =>
       /\ \A q, r \in Reviewing : q = r
       /\ \A r \in Requests : At(r, "kyc") /\ job[r].to = "verified" => AllVerified
       /\ restaurant # None /\ restaurant.kyc = "verified" /\ ~ AllVerified =>
            \E r \in Requests : Rejecting(r)

TypeInv == TypeOK /\ Onboarded

-----------------------------------------------------------------------------
(***************************************************************************)
(* Types.                                                                  *)
(***************************************************************************)

LEMMA JobAt ==
    ASSUME TypeOK, NEW r \in Requests, job[r] # NoJob
    PROVE  /\ job[r] \in Job
           /\ job[r].step \in {"hours", "documents", "status"} =>
                job[r] \in [step : {"hours", "documents", "status"}, to : Status]
           /\ job[r].step = "accepting" => job[r] \in [step : {"accepting"}, to : BOOLEAN]
           /\ job[r].step = "insert" => job[r] \in [step : {"insert"}, day : Days]
           /\ job[r].step = "list" =>
                job[r] \in [step : {"list"}, verdict : {"verified", "rejected"}]
           /\ job[r].step = "kyc" =>
                job[r] \in [step : {"kyc"}, to : {"verified", "rejected"}]
  <1>1. job[r] \in Job
    BY DEF TypeOK
  <1>2. QED
    BY <1>1 DEF Job

\* A slot takes another request, or the next step of its own.
LEMMA BecomeType ==
    ASSUME TypeInv, NEW r \in Requests, NEW newJob \in Job \cup {NoJob}, Become(r, newJob),
           restaurant' # None \/ newJob = NoJob, restaurant # None => restaurant' # None
    PROVE  /\ job' \in [Requests -> Job \cup {NoJob}]
           /\ job'[r] = newJob
           /\ \A q \in Requests \ {r} : job'[q] = job[q]
           /\ Onboarded'
  BY DEF Become, TypeInv, TypeOK, Onboarded

LEMMA TypeInit == Init => TypeInv
  <1> SUFFICES ASSUME Init PROVE TypeInv
    OBVIOUS
  <1>1. TypeOK
    BY DEF Init, TypeOK
  <1>2. Onboarded
    BY DEF Init, Onboarded
  <1>3. QED
    BY <1>1, <1>2 DEF TypeInv

LEMMA OwnerKeepsType ==
    ASSUME TypeInv
    PROVE  /\ Onboard => TypeInv'
           /\ SetServiceArea => TypeInv'
           /\ StaffStep => TypeInv'
           /\ DocumentStep => TypeInv'
  <1> USE DEF TypeInv, TypeOK, Onboarded
  <1>1. Onboard => TypeInv'
    BY DEF Onboard, Restaurant, Status, KYCStatus
  <1>2. ASSUME SetServiceArea PROVE TypeInv'
    <2>1. restaurant \in Restaurant /\ restaurant' = [restaurant EXCEPT !.area = TRUE]
      BY <1>2 DEF SetServiceArea
    <2>2. restaurant' \in Restaurant
      BY <2>1 DEF Restaurant
    <2>3. QED
      BY <1>2, <2>2 DEF SetServiceArea
  <1>3. ASSUME StaffStep PROVE TypeInv'
    <2>1. PICK u \in Users : AddStaff(u) \/ RevokeStaff(u)
      BY <1>3 DEF StaffStep
    <2>2. QED
      BY <2>1 DEF AddStaff, RevokeStaff
  <1>4. ASSUME DocumentStep PROVE TypeInv'
    <2>1. PICK t \in Documents :
             UploadDocument(t) \/ \E verdict \in {"verified", "rejected"} : ReviewElsewhere(t, verdict)
      BY <1>4 DEF DocumentStep
    <2>2. document' \in [Documents -> KYCStatus \cup {None}]
      BY <2>1 DEF UploadDocument, ReviewElsewhere, KYCStatus
    <2>3. disturbed' \in BOOLEAN
      BY <2>1 DEF UploadDocument, ReviewElsewhere
    <2>4. QED
      BY <2>1, <2>2, <2>3 DEF UploadDocument, ReviewElsewhere
  <1>5. QED
    BY <1>1, <1>2, <1>3, <1>4

LEMMA HoursKeepType ==
    ASSUME TypeInv, NEW r \in Requests, HoursStep(r)
    PROVE  TypeInv'
  <1>1. CASE InsertHours(r)
    <2>1. Become(r, NoJob) /\ job[r].day \in Days
      BY <1>1, JobAt DEF InsertHours, At, Done, TypeInv
    <2>2. hours' \in [Days -> Nat]
      BY <1>1, <2>1 DEF InsertHours, TypeInv, TypeOK
    <2>3. restaurant' = restaurant
      BY <1>1 DEF InsertHours
    <2>4. job' \in [Requests -> Job \cup {NoJob}] /\ Onboarded'
      BY <2>1, <2>3, BecomeType
    <2>5. QED
      BY <1>1, <2>2, <2>4 DEF InsertHours, TypeInv, TypeOK
  <1>2. CASE \E d \in Days : SetOperatingHours(r, d)
    <2>1. PICK d \in Days : SetOperatingHours(r, d)
      BY <1>2
    <2>2. [step |-> "insert", day |-> d] \in Job
      BY DEF Job
    <2>3. Become(r, [step |-> "insert", day |-> d]) /\ restaurant' # None
      BY <2>1 DEF SetOperatingHours, Free
    <2>4. job' \in [Requests -> Job \cup {NoJob}] /\ Onboarded'
      BY <2>2, <2>3, BecomeType
    <2>5. hours' \in [Days -> Nat] /\ unsure' \subseteq Days
      BY <2>1 DEF SetOperatingHours, TypeInv, TypeOK
    <2>6. QED
      BY <2>1, <2>4, <2>5 DEF SetOperatingHours, TypeInv, TypeOK
  <1>3. QED
    BY <1>1, <1>2 DEF HoursStep

\* A request of the status part, or a review, only moves on.
LEMMA MoveKeepsType ==
    ASSUME TypeInv, NEW r \in Requests, NEW newJob \in Job \cup {NoJob}, Become(r, newJob),
           restaurant # None, UNCHANGED <<restaurant, hours, staff>>,
           document' \in [Documents -> KYCStatus \cup {None}],
           unsure' \subseteq Days, disturbed' \in BOOLEAN, contested' \in BOOLEAN
    PROVE  TypeInv'
  <1>1. job' \in [Requests -> Job \cup {NoJob}] /\ Onboarded'
    BY BecomeType
  <1>2. QED
    BY <1>1 DEF TypeInv, TypeOK

LEMMA StatusKeepsType ==
    ASSUME TypeInv, NEW r \in Requests, StatusStep(r)
    PROVE  TypeInv'
  <1>t. TypeOK /\ (job[r] # NoJob => restaurant # None)
    BY DEF TypeInv, Onboarded
  <1>u. restaurant # None => restaurant \in Restaurant
    BY <1>t DEF TypeOK
  <1>1. CASE SubmitForApproval(r)
    <2>1. [step |-> "hours", to |-> "pending_approval"] \in Job
      BY DEF Job, Status
    <2>2. QED
      BY <1>1, <1>t, <2>1, MoveKeepsType DEF SubmitForApproval, Free, TypeOK
  <1>2. CASE ListOperatingHours(r)
    <2>1. job[r] # NoJob /\ job[r].step = "hours"
      BY <1>2 DEF ListOperatingHours, At
    <2>2. [job[r] EXCEPT !.step = "documents"] \in Job
      BY <1>t, <2>1, JobAt DEF Job
    <2>3. \/ Become(r, NoJob)
          \/ Become(r, [job[r] EXCEPT !.step = "documents"])
      BY <1>2 DEF ListOperatingHours, Done
    <2>4. QED
      BY <1>2, <1>t, <2>1, <2>2, <2>3, MoveKeepsType DEF ListOperatingHours, TypeOK
  <1>3. CASE ListDocuments(r)
    <2>1. job[r] # NoJob /\ job[r].step = "documents"
      BY <1>3 DEF ListDocuments, At
    <2>2. [job[r] EXCEPT !.step = "status"] \in Job
      BY <1>t, <2>1, JobAt DEF Job
    <2>3. \/ Become(r, NoJob)
          \/ Become(r, [job[r] EXCEPT !.step = "status"])
      BY <1>3 DEF ListDocuments, Done
    <2>4. QED
      BY <1>3, <1>t, <2>1, <2>2, <2>3, MoveKeepsType DEF ListDocuments, TypeOK
  <1>4. CASE SetStatus(r)
    <2>1. job[r] # NoJob /\ job[r].to \in Status
      BY <1>4, <1>t, JobAt DEF SetStatus, At
    <2>2. restaurant' \in Restaurant
      BY <1>4, <1>t, <1>u, <2>1 DEF SetStatus, Restaurant
    <2>3. Become(r, NoJob)
      BY <1>4 DEF SetStatus, Done
    <2>4. job' \in [Requests -> Job \cup {NoJob}] /\ Onboarded'
      BY <2>2, <2>3, BecomeType
    <2>5. QED
      BY <1>4, <2>2, <2>4 DEF SetStatus, TypeInv, TypeOK
  <1>5. CASE \E accepting \in BOOLEAN : SetAcceptingOrders(r, accepting)
    <2>1. PICK accepting \in BOOLEAN : SetAcceptingOrders(r, accepting)
      BY <1>5
    <2>2. [step |-> "accepting", to |-> accepting] \in Job
      BY DEF Job
    <2>3. QED
      BY <2>1, <2>2, <1>t, MoveKeepsType DEF SetAcceptingOrders, Free, TypeOK
  <1>6. CASE WriteAccepting(r)
    <2>1. job[r] # NoJob /\ job[r].to \in BOOLEAN
      BY <1>6, <1>t, JobAt DEF WriteAccepting, At
    <2>2. restaurant' \in Restaurant
      BY <1>6, <1>t, <1>u, <2>1 DEF WriteAccepting, Restaurant
    <2>3. Become(r, NoJob)
      BY <1>6 DEF WriteAccepting, Done
    <2>4. job' \in [Requests -> Job \cup {NoJob}] /\ Onboarded'
      BY <2>2, <2>3, BecomeType
    <2>5. QED
      BY <1>6, <2>2, <2>4 DEF WriteAccepting, TypeInv, TypeOK
  <1>7. QED
    BY <1>1, <1>2, <1>3, <1>4, <1>5, <1>6 DEF StatusStep

LEMMA ReviewKeepsType ==
    ASSUME TypeInv, NEW r \in Requests, ReviewStep(r)
    PROVE  TypeInv'
  <1>t. TypeOK /\ (job[r] # NoJob => restaurant # None)
    BY DEF TypeInv, Onboarded
  <1>u. restaurant # None => restaurant \in Restaurant
    BY <1>t DEF TypeOK
  <1>1. CASE \E to \in {"approved", "rejected"} : AdminReview(r, to)
    <2>1. PICK to \in {"approved", "rejected"} : AdminReview(r, to)
      BY <1>1
    <2>2. [step |-> "status", to |-> to] \in Job
      BY DEF Job, Status
    <2>3. QED
      BY <2>1, <2>2, <1>t, MoveKeepsType DEF AdminReview, Free, TypeOK
  <1>2. CASE \E verdict \in {"verified", "rejected"} :
                ReviewForeign(r, verdict) \/ \E t \in Documents : ReviewDocument(r, t, verdict)
    <2>1. PICK verdict \in {"verified", "rejected"} :
             ReviewForeign(r, verdict) \/ \E t \in Documents : ReviewDocument(r, t, verdict)
      BY <1>2
    <2>2. [step |-> "list", verdict |-> verdict] \in Job
      BY DEF Job
    <2>3. document' \in [Documents -> KYCStatus \cup {None}]
      BY <2>1, <1>t DEF ReviewForeign, ReviewDocument, TypeOK, KYCStatus
    <2>4. /\ Become(r, [step |-> "list", verdict |-> verdict])
          /\ restaurant # None /\ UNCHANGED <<restaurant, hours, staff, unsure>>
          /\ disturbed' \in BOOLEAN /\ contested' = contested
      BY <2>1 DEF ReviewForeign, ReviewDocument, Free
    <2>5. QED
      BY <2>2, <2>3, <2>4, <1>t, MoveKeepsType DEF TypeOK
  <1>3. CASE ListForKYC(r)
    <2>1. job[r] # NoJob
      BY <1>3 DEF ListForKYC, At
    <2>2. PICK newJob \in Job \cup {NoJob} : Become(r, newJob)
      BY <1>3 DEF ListForKYC, Done, Job
    <2>3. QED
      BY <1>3, <1>t, <2>1, <2>2, MoveKeepsType DEF ListForKYC, TypeOK
  <1>4. CASE SetKYCStatus(r)
    <2>1. job[r] # NoJob /\ job[r].to \in KYCStatus
      BY <1>4, <1>t, JobAt DEF SetKYCStatus, At, KYCStatus
    <2>2. restaurant' \in Restaurant
      BY <1>4, <1>t, <1>u, <2>1 DEF SetKYCStatus, Restaurant
    <2>3. Become(r, NoJob) /\ disturbed' \in BOOLEAN
      BY <1>4 DEF SetKYCStatus, Done
    <2>4. job' \in [Requests -> Job \cup {NoJob}] /\ Onboarded'
      BY <2>2, <2>3, BecomeType
    <2>5. QED
      BY <1>4, <2>2, <2>3, <2>4 DEF SetKYCStatus, TypeInv, TypeOK
  <1>5. QED
    BY <1>1, <1>2, <1>3, <1>4 DEF ReviewStep

LEMMA AbortKeepsType ==
    ASSUME TypeInv, NEW r \in Requests, Abort(r)
    PROVE  TypeInv'
  <1>1. /\ Become(r, NoJob) /\ restaurant # None
        /\ UNCHANGED <<restaurant, hours, document, staff, contested>>
        /\ disturbed' \in BOOLEAN
    BY DEF Abort, Done, TypeInv, Onboarded
  <1>2. At(r, "insert") => job[r].day \in Days
    BY JobAt DEF At, TypeInv
  <1>3. unsure' \subseteq Days
    BY <1>2 DEF Abort, TypeInv, TypeOK
  <1>4. QED
    BY <1>1, <1>3, MoveKeepsType DEF TypeInv, TypeOK

LEMMA NextKeepsType ==
    ASSUME TypeInv, [Next]_vars
    PROVE  TypeInv'
  <1>1. CASE UNCHANGED vars
    BY <1>1 DEF vars, TypeInv, TypeOK, Onboarded
  <1>2. CASE Next
    BY <1>2, OwnerKeepsType, HoursKeepType, StatusKeepsType, ReviewKeepsType, AbortKeepsType
    DEF Next
  <1>3. QED
    BY <1>1, <1>2

\* Every reachable state of Restaurants is well typed, and every request is
\* about a restaurant that exists.
THEOREM TypeCorrect == Spec => []TypeOK
  <1>1. TypeInv => TypeOK
    BY DEF TypeInv
  <1>2. QED
    BY <1>1, TypeInit, NextKeepsType, PTL DEF Spec

-----------------------------------------------------------------------------
(***************************************************************************)
(* SetOperatingHours.                                                      *)
(***************************************************************************)

\* A request that is not in the middle of replacing hours, before or after.
LEMMA HoursUntouched ==
    ASSUME TypeInv, NEW r \in Requests, NEW newJob, Become(r, newJob),
           ~ At(r, "insert"), newJob = NoJob \/ newJob.step # "insert"
    PROVE  \A d \in Days : Replacing(d)' = Replacing(d)
  <1>1. /\ job'[r] = newJob
        /\ \A q \in Requests \ {r} : job'[q] = job[q]
    BY DEF Become, TypeInv, TypeOK
  <1>2. ASSUME NEW d \in Days, NEW q \in Requests
        PROVE  q \in Replacing(d)' <=> q \in Replacing(d)
    BY <1>1 DEF Replacing, At
  <1>3. QED
    BY <1>2 DEF Replacing

\* Everything but the replacement of hours itself, and what breaks it off.
LEMMA OthersLeaveHours ==
    ASSUME TypeInv, Next
    PROVE  \/ /\ UNCHANGED <<hours, unsure>>
              /\ \A d \in Days : Replacing(d)' = Replacing(d)
           \/ \E r \in Requests : HoursStep(r) \/ Abort(r)
  <1>1. ASSUME Onboard \/ SetServiceArea \/ StaffStep \/ DocumentStep
        PROVE  UNCHANGED <<hours, unsure, job>>
    BY <1>1
    DEF Onboard, SetServiceArea, StaffStep, AddStaff, RevokeStaff, DocumentStep, UploadDocument,
        ReviewElsewhere
  <1>2. UNCHANGED job => \A d \in Days : Replacing(d)' = Replacing(d)
    BY DEF Replacing, At
  <1>3. ASSUME NEW r \in Requests, StatusStep(r) \/ ReviewStep(r)
        PROVE  /\ UNCHANGED <<hours, unsure>>
               /\ \A d \in Days : Replacing(d)' = Replacing(d)
    <2>1. CASE SubmitForApproval(r)
      BY <2>1, HoursUntouched DEF SubmitForApproval, Free, At
    <2>2. CASE ListOperatingHours(r)
      <3>1. /\ job[r] # NoJob /\ job[r].step = "hours"
            /\ Become(r, NoJob) \/ Become(r, [job[r] EXCEPT !.step = "documents"])
        BY <2>2 DEF ListOperatingHours, At, Done
      <3>2. [job[r] EXCEPT !.step = "documents"].step = "documents"
        BY <3>1, JobAt DEF TypeInv
      <3>3. QED
        BY <2>2, <3>1, <3>2, HoursUntouched DEF ListOperatingHours, At
    <2>3. CASE ListDocuments(r)
      <3>1. /\ job[r] # NoJob /\ job[r].step = "documents"
            /\ Become(r, NoJob) \/ Become(r, [job[r] EXCEPT !.step = "status"])
        BY <2>3 DEF ListDocuments, At, Done
      <3>2. [job[r] EXCEPT !.step = "status"].step = "status"
        BY <3>1, JobAt DEF TypeInv
      <3>3. QED
        BY <2>3, <3>1, <3>2, HoursUntouched DEF ListDocuments, At
    <2>4. CASE SetStatus(r) \/ WriteAccepting(r)
      BY <2>4, HoursUntouched DEF SetStatus, WriteAccepting, At, Done
    <2>5. CASE \E accepting \in BOOLEAN : SetAcceptingOrders(r, accepting)
      BY <2>5, HoursUntouched DEF SetAcceptingOrders, Free, At
    <2>6. CASE \E to \in {"approved", "rejected"} : AdminReview(r, to)
      BY <2>6, HoursUntouched DEF AdminReview, Free, At
    <2>7. CASE \E verdict \in {"verified", "rejected"} :
                  ReviewForeign(r, verdict) \/ \E t \in Documents : ReviewDocument(r, t, verdict)
      BY <2>7, HoursUntouched DEF ReviewForeign, ReviewDocument, Free, At
    <2>8. CASE ListForKYC(r)
      <3>1. ~ At(r, "insert")
        BY <2>8 DEF ListForKYC, At
      <3>2. PICK newJob : Become(r, newJob) /\ (newJob = NoJob \/ newJob.step = "kyc")
        BY <2>8 DEF ListForKYC, Done
      <3>3. QED
        BY <2>8, <3>1, <3>2, HoursUntouched DEF ListForKYC
    <2>9. CASE SetKYCStatus(r)
      BY <2>9, HoursUntouched DEF SetKYCStatus, At, Done
    <2>10. QED
      BY <1>3, <2>1, <2>2, <2>3, <2>4, <2>5, <2>6, <2>7, <2>8, <2>9 DEF StatusStep, ReviewStep
  <1>4. QED
    BY <1>1, <1>2, <1>3 DEF Next

LEMMA ReplacingOf ==
    ASSUME TypeInv, NEW r \in Requests
    PROVE  /\ \A d \in Days : SetOperatingHours(r, d) =>
                /\ Replacing(d)' = Replacing(d) \cup {r} /\ r \notin Replacing(d)
                /\ \A e \in Days \ {d} : Replacing(e)' = Replacing(e)
           /\ InsertHours(r) \/ Abort(r) =>
                \A d \in Days : Replacing(d)' = Replacing(d) \ {r}
  <1>1. ASSUME NEW d \in Days, SetOperatingHours(r, d)
        PROVE  /\ Replacing(d)' = Replacing(d) \cup {r} /\ r \notin Replacing(d)
               /\ \A e \in Days \ {d} : Replacing(e)' = Replacing(e)
    <2>1. /\ job[r] = NoJob
          /\ job' = [job EXCEPT ![r] = [step |-> "insert", day |-> d]]
      BY <1>1 DEF SetOperatingHours, Free, Become
    <2>2. /\ job'[r] = [step |-> "insert", day |-> d] /\ job'[r] # NoJob
          /\ \A q \in Requests \ {r} : job'[q] = job[q]
      BY <2>1 DEF TypeInv, TypeOK, Job
    <2>3. ASSUME NEW e \in Days, NEW q \in Requests
          PROVE  q \in Replacing(e)' <=> q \in Replacing(e) \/ (q = r /\ e = d)
      BY <2>1, <2>2 DEF Replacing, At
    <2>4. QED
      BY <2>1, <2>3 DEF Replacing, At
  <1>2. ASSUME InsertHours(r) \/ Abort(r), NEW d \in Days
        PROVE  Replacing(d)' = Replacing(d) \ {r}
    <2>1. /\ job'[r] = NoJob
          /\ \A q \in Requests \ {r} : job'[q] = job[q]
      BY <1>2 DEF InsertHours, Abort, Done, Become, TypeInv, TypeOK
    <2>2. ASSUME NEW q \in Requests
          PROVE  q \in Replacing(d)' <=> q \in Replacing(d) /\ q # r
      BY <2>1 DEF Replacing, At
    <2>3. QED
      BY <2>2 DEF Replacing
  <1>3. QED
    BY <1>1, <1>2

LEMMA NextKeepsHours ==
    ASSUME TypeInv, HoursInv, [Next]_vars
    PROVE  HoursInv'
  <1>1. CASE UNCHANGED <<hours, unsure>> /\ \A d \in Days : Replacing(d)' = Replacing(d)
    BY <1>1 DEF HoursInv
  <1>2. ASSUME NEW r \in Requests, NEW e \in Days, SetOperatingHours(r, e)
        PROVE  HoursInv'
    <2>1. ASSUME NEW d \in Days \ unsure'
          PROVE  /\ \A q, s \in Replacing(d)' : q = s
                 /\ hours'[d] <= IF Replacing(d)' = {} THEN 1 ELSE 0
      <3>1. CASE d = e
        <4>1. Replacing(e) = {}
          BY <1>2, <2>1, <3>1 DEF SetOperatingHours
        <4>2. Replacing(e)' = {r}
          BY <1>2, <4>1, ReplacingOf
        <4>3. hours'[e] = 0
          BY <1>2 DEF SetOperatingHours, TypeInv, TypeOK
        <4>4. QED
          BY <3>1, <4>2, <4>3
      <3>2. CASE d # e
        <4>1. d \notin unsure /\ hours'[d] = hours[d]
          BY <1>2, <2>1, <3>2 DEF SetOperatingHours, TypeInv, TypeOK
        <4>2. Replacing(d)' = Replacing(d)
          BY <1>2, <3>2, ReplacingOf
        <4>3. QED
          BY <4>1, <4>2 DEF HoursInv
      <3>3. QED
        BY <3>1, <3>2
    <2>2. QED
      BY <2>1 DEF HoursInv
  <1>3. ASSUME NEW r \in Requests, InsertHours(r)
        PROVE  HoursInv'
    <2>1. ASSUME NEW d \in Days \ unsure'
          PROVE  /\ \A q, s \in Replacing(d)' : q = s
                 /\ hours'[d] <= IF Replacing(d)' = {} THEN 1 ELSE 0
      <3>1. d \in Days \ unsure /\ Replacing(d)' = Replacing(d) \ {r}
        BY <1>3, ReplacingOf DEF InsertHours
      <3>2. CASE job[r].day = d
        <4>1. r \in Replacing(d)
          BY <1>3, <3>2 DEF InsertHours, Replacing
        <4>2. Replacing(d)' = {} /\ hours[d] <= 0
          BY <3>1, <4>1 DEF HoursInv
        <4>3. hours'[d] = hours[d] + 1 /\ hours[d] \in Nat
          BY <1>3, <3>2 DEF InsertHours, TypeInv, TypeOK
        <4>4. QED
          BY <4>2, <4>3
      <3>3. CASE job[r].day # d
        <4>1. r \notin Replacing(d) /\ hours'[d] = hours[d]
          BY <1>3, <3>3 DEF InsertHours, Replacing, TypeInv, TypeOK
        <4>2. QED
          BY <3>1, <4>1 DEF HoursInv
      <3>4. QED
        BY <3>2, <3>3
    <2>2. QED
      BY <2>1 DEF HoursInv
  <1>4. ASSUME NEW r \in Requests, Abort(r)
        PROVE  HoursInv'
    <2>1. ASSUME NEW d \in Days \ unsure'
          PROVE  /\ \A q, s \in Replacing(d)' : q = s
                 /\ hours'[d] <= IF Replacing(d)' = {} THEN 1 ELSE 0
      <3>1. d \in Days \ unsure /\ Replacing(d)' = Replacing(d) \ {r} /\ hours' = hours
        BY <1>4, ReplacingOf DEF Abort
      <3>2. r \notin Replacing(d)
        BY <1>4 DEF Abort, Replacing
      <3>3. QED
        BY <3>1, <3>2 DEF HoursInv
    <2>2. QED
      BY <2>1 DEF HoursInv
  <1>5. CASE UNCHANGED vars
    BY <1>1, <1>5 DEF vars, Replacing, At
  <1>6. QED
    BY <1>1, <1>2, <1>3, <1>4, <1>5, OthersLeaveHours DEF HoursStep

\* A day never has two rows of hours, and none while they are replaced, unless
\* replacements of the day overlapped or broke off.
THEOREM HoursCorrect == Spec => []HoursReplaced
  <1>1. Init => HoursInv
    BY DEF Init, HoursInv, Replacing, At
  <1>2. HoursInv => HoursReplaced
    BY DEF HoursInv, HoursReplaced
  <1>3. QED
    BY <1>1, <1>2, TypeInit, NextKeepsType, NextKeepsHours, PTL DEF Spec

-----------------------------------------------------------------------------
(***************************************************************************)
(* SubmitForApproval.                                                      *)
(***************************************************************************)

\* What a restaurant has been found to have it keeps.
LEMMA HoursStay ==
    ASSUME TypeInv, HasHours, [Next]_vars
    PROVE  HasHours'
  <1>0. PICK d \in Days : hours[d] > 0 \/ d \in unsure \/ Replacing(d) # {}
    BY DEF HasHours
  <1>1. CASE UNCHANGED <<hours, unsure>> /\ \A e \in Days : Replacing(e)' = Replacing(e)
    BY <1>0, <1>1 DEF HasHours
  <1>2. ASSUME NEW r \in Requests, NEW e \in Days, SetOperatingHours(r, e)
        PROVE  HasHours'
    <2>1. CASE d = e
      <3>1. Replacing(d)' # {}
        BY <1>2, <2>1, ReplacingOf
      <3>2. QED
        BY <3>1 DEF HasHours
    <2>2. CASE d # e
      <3>1. hours'[d] = hours[d] /\ (d \in unsure => d \in unsure')
        BY <1>2, <2>2 DEF SetOperatingHours, TypeInv, TypeOK
      <3>2. Replacing(d)' = Replacing(d)
        BY <1>2, <2>2, ReplacingOf
      <3>3. QED
        BY <1>0, <3>1, <3>2 DEF HasHours
    <2>3. QED
      BY <2>1, <2>2
  <1>3. ASSUME NEW r \in Requests, InsertHours(r)
        PROVE  HasHours'
    <2>1. CASE job[r].day = d
      <3>1. hours[d] \in Nat /\ hours'[d] = hours[d] + 1
        BY <1>3, <2>1 DEF InsertHours, TypeInv, TypeOK
      <3>2. hours'[d] > 0
        BY <3>1
      <3>3. QED
        BY <3>2 DEF HasHours
    <2>2. CASE job[r].day # d
      <3>1. r \notin Replacing(d) /\ hours'[d] = hours[d] /\ unsure' = unsure
        BY <1>3, <2>2 DEF InsertHours, Replacing, TypeInv, TypeOK
      <3>2. Replacing(d)' = Replacing(d)
        BY <1>3, <3>1, ReplacingOf
      <3>3. QED
        BY <1>0, <3>1, <3>2 DEF HasHours
    <2>3. QED
      BY <2>1, <2>2
  <1>4. ASSUME NEW r \in Requests, Abort(r)
        PROVE  HasHours'
    <2>1. hours' = hours /\ unsure \subseteq unsure'
      BY <1>4 DEF Abort
    <2>2. Replacing(d)' = Replacing(d) \ {r}
      BY <1>4, ReplacingOf
    <2>3. r \in Replacing(d) => d \in unsure'
      BY <1>4 DEF Abort, Replacing
    <2>4. QED
      BY <1>0, <2>1, <2>2, <2>3 DEF HasHours
  <1>5. CASE UNCHANGED vars
    BY <1>1, <1>5 DEF vars, Replacing, At
  <1>6. QED
    BY <1>1, <1>2, <1>3, <1>4, <1>5, OthersLeaveHours DEF HoursStep

LEMMA DocumentsStay ==
    ASSUME TypeInv, HasDocuments, [Next]_vars
    PROVE  HasDocuments'
  <1>1. CASE UNCHANGED document
    BY <1>1 DEF HasDocuments
  <1>2. ASSUME DocumentStep
        PROVE  HasDocuments'
    <2>1. PICK t \in Documents, status \in KYCStatus : document' = [document EXCEPT ![t] = status]
      BY <1>2 DEF DocumentStep, UploadDocument, ReviewElsewhere, KYCStatus
    <2>2. QED
      BY <2>1 DEF HasDocuments, TypeInv, TypeOK
  <1>3. ASSUME NEW r \in Requests, NEW t \in Documents, NEW verdict \in {"verified", "rejected"},
               ReviewDocument(r, t, verdict)
        PROVE  HasDocuments'
    BY <1>3 DEF ReviewDocument, HasDocuments, TypeInv, TypeOK, KYCStatus
  <1>4. QED
    BY <1>1, <1>2, <1>3
    DEF Next, vars, Onboard, SetServiceArea, StaffStep, AddStaff, RevokeStaff, HoursStep,
        SetOperatingHours, InsertHours, StatusStep, SubmitForApproval, ListOperatingHours,
        ListDocuments, SetStatus, SetAcceptingOrders, WriteAccepting, ReviewStep, AdminReview,
        ReviewForeign, ListForKYC, SetKYCStatus, Abort

\* How a restaurant, or a request, comes to have been found complete.
LEMMA FoundComplete ==
    ASSUME TypeInv, [Next]_vars
    PROVE  /\ restaurant' # None /\ restaurant'.status # "draft" =>
                \/ restaurant # None /\ restaurant.status # "draft"
                \/ \E r \in Requests : At(r, "status")
           /\ \A r \in Requests :
                /\ At(r, "documents")' => At(r, "documents") \/ HasHours
                /\ At(r, "status")' =>
                     \/ At(r, "status")
                     \/ At(r, "documents") /\ HasDocuments
                     \/ restaurant # None /\ restaurant.status # "draft"
  <1>t. /\ restaurant # None => restaurant \in Restaurant
        /\ job \in [Requests -> Job \cup {NoJob}]
        /\ \A r \in Requests : job[r] # NoJob => restaurant # None
    BY DEF TypeInv, TypeOK, Onboarded
  <1>1. CASE UNCHANGED vars
    BY <1>1 DEF vars, At
  <1>2. CASE Onboard
    BY <1>2 DEF Onboard, At
  <1>3. CASE SetServiceArea
    BY <1>3, <1>t DEF SetServiceArea, At, Restaurant
  <1>4. CASE StaffStep \/ DocumentStep
    BY <1>4
    DEF StaffStep, AddStaff, RevokeStaff, DocumentStep, UploadDocument, ReviewElsewhere, At
  <1>5. ASSUME NEW r \in Requests, HoursStep(r) \/ Abort(r)
        PROVE  /\ restaurant' = restaurant
               /\ \A q \in Requests : \A step \in {"documents", "status"} :
                     At(q, step)' => At(q, step)
    <2>1. restaurant' = restaurant
      BY <1>5 DEF HoursStep, SetOperatingHours, InsertHours, Abort
    <2>2. PICK newJob : Become(r, newJob) /\ (newJob = NoJob \/ newJob.step = "insert")
      <3>1. CASE InsertHours(r) \/ Abort(r)
        BY <3>1 DEF InsertHours, Abort, Done
      <3>2. CASE \E d \in Days : SetOperatingHours(r, d)
        BY <3>2 DEF SetOperatingHours
      <3>3. QED
        BY <1>5, <3>1, <3>2 DEF HoursStep
    <2>3. QED
      BY <1>t, <2>1, <2>2 DEF Become, At
  <1>6. ASSUME NEW r \in Requests, StatusStep(r) \/ ReviewStep(r), ~ SetStatus(r)
        PROVE  restaurant' # None /\ restaurant'.status # "draft" =>
                 restaurant # None /\ restaurant.status # "draft"
    <2>1. CASE WriteAccepting(r)
      BY <2>1, <1>t DEF WriteAccepting, At, Restaurant
    <2>2. CASE SetKYCStatus(r)
      BY <2>2, <1>t DEF SetKYCStatus, At, Restaurant
    <2>3. CASE UNCHANGED restaurant
      BY <2>3
    <2>4. QED
      BY <1>6, <2>1, <2>2, <2>3
      DEF StatusStep, ReviewStep, SubmitForApproval, ListOperatingHours, ListDocuments,
          SetAcceptingOrders, AdminReview, ReviewDocument, ReviewForeign, ListForKYC
  <1>7. ASSUME NEW r \in Requests, StatusStep(r) \/ ReviewStep(r)
        PROVE  \E newJob : /\ Become(r, newJob)
                           /\ newJob # NoJob /\ newJob.step = "documents" => HasHours
                           /\ newJob # NoJob /\ newJob.step = "status" =>
                                \/ At(r, "documents") /\ HasDocuments
                                \/ restaurant # None /\ restaurant.status # "draft"
    <2>1. CASE SubmitForApproval(r)
      BY <2>1 DEF SubmitForApproval
    <2>2. CASE ListOperatingHours(r)
      <3>1. job[r] # NoJob /\ job[r].step = "hours"
        BY <2>2 DEF ListOperatingHours, At
      <3>2. [job[r] EXCEPT !.step = "documents"].step = "documents"
        BY <3>1, JobAt DEF TypeInv
      <3>3. CASE \A d \in Days : hours[d] = 0
        BY <2>2, <3>3 DEF ListOperatingHours, Done
      <3>4. CASE ~ \A d \in Days : hours[d] = 0
        <4>1. Become(r, [job[r] EXCEPT !.step = "documents"])
          BY <2>2, <3>4 DEF ListOperatingHours
        <4>2. HasHours
          BY <3>4 DEF HasHours, TypeInv, TypeOK
        <4>3. QED
          BY <3>2, <4>1, <4>2
      <3>5. QED
        BY <3>3, <3>4
    <2>3. CASE ListDocuments(r)
      <3>1. job[r] # NoJob /\ job[r].step = "documents"
        BY <2>3 DEF ListDocuments, At
      <3>2. [job[r] EXCEPT !.step = "status"].step = "status"
        BY <3>1, JobAt DEF TypeInv
      <3>3. CASE Missing # {}
        BY <2>3, <3>3 DEF ListDocuments, Done
      <3>4. CASE Missing = {}
        <4>1. Become(r, [job[r] EXCEPT !.step = "status"])
          BY <2>3, <3>4 DEF ListDocuments
        <4>2. HasDocuments
          BY <3>4 DEF Missing, HasDocuments
        <4>3. QED
          BY <3>1, <3>2, <4>1, <4>2 DEF At
      <3>5. QED
        BY <3>3, <3>4
    <2>4. CASE SetStatus(r) \/ WriteAccepting(r) \/ SetKYCStatus(r)
      BY <2>4 DEF SetStatus, WriteAccepting, SetKYCStatus, Done
    <2>5. CASE \E accepting \in BOOLEAN : SetAcceptingOrders(r, accepting)
      BY <2>5 DEF SetAcceptingOrders
    <2>6. CASE \E to \in {"approved", "rejected"} : AdminReview(r, to)
      <3>1. PICK to \in {"approved", "rejected"} : AdminReview(r, to)
        BY <2>6
      <3>2. /\ Become(r, [step |-> "status", to |-> to])
            /\ restaurant # None /\ restaurant.status = "pending_approval"
        BY <3>1 DEF AdminReview, Free
      <3>3. QED
        BY <3>2
    <2>7. CASE \E verdict \in {"verified", "rejected"} :
                  ReviewForeign(r, verdict) \/ \E t \in Documents : ReviewDocument(r, t, verdict)
      BY <2>7 DEF ReviewForeign, ReviewDocument
    <2>8. CASE ListForKYC(r)
      BY <2>8 DEF ListForKYC, Done
    <2>9. QED
      BY <1>7, <2>1, <2>2, <2>3, <2>4, <2>5, <2>6, <2>7, <2>8 DEF StatusStep, ReviewStep
  <1>8. ASSUME NEW r \in Requests, StatusStep(r) \/ ReviewStep(r), NEW q \in Requests
        PROVE  /\ At(q, "documents")' => At(q, "documents") \/ HasHours
               /\ At(q, "status")' =>
                    \/ At(q, "status")
                    \/ At(q, "documents") /\ HasDocuments
                    \/ restaurant # None /\ restaurant.status # "draft"
    BY <1>7, <1>8, <1>t DEF Become, At
  <1>9. ASSUME NEW r \in Requests, SetStatus(r)
        PROVE  At(r, "status")
    BY <1>9 DEF SetStatus
  <1>10. QED
    BY <1>1, <1>2, <1>3, <1>4, <1>5, <1>6, <1>8, <1>9 DEF Next

LEMMA NextKeepsComplete ==
    ASSUME TypeInv, CompleteInv, [Next]_vars
    PROVE  CompleteInv'
  BY FoundComplete, HoursStay, DocumentsStay DEF CompleteInv

\* A restaurant that has been submitted, and what has become of it since, has
\* the documents it needs, and hours unless they are being replaced or lost.
THEOREM SubmissionCorrect == Spec => []SubmittedIsComplete
  <1>1. Init => CompleteInv
    BY DEF Init, CompleteInv, At
  <1>2. CompleteInv => SubmittedIsComplete
    BY DEF CompleteInv, SubmittedIsComplete, HasDocuments, HasHours
  <1>3. QED
    BY <1>1, <1>2, TypeInit, NextKeepsType, NextKeepsComplete, PTL DEF Spec

-----------------------------------------------------------------------------
(***************************************************************************)
(* ReviewDocument.                                                         *)
(***************************************************************************)

\* Whatever leaves the documents, kyc_status and the reviews under way alone.
LEMMA ReviewsUntouched ==
    ASSUME ReviewInv, UNCHANGED <<document, disturbed>>,
           restaurant' # None => restaurant # None /\ restaurant'.kyc = restaurant.kyc,
           \A q \in Requests, step \in {"list", "kyc"} :
              At(q, step) <=> At(q, step)',
           \A q \in Reviewing : job'[q] = job[q]
    PROVE  ReviewInv'
  <1>1. Reviewing' = Reviewing
    BY DEF Reviewing
  <1>2. AllVerified' <=> AllVerified
    BY DEF AllVerified
  <1>3. \A q \in Requests : Rejecting(q)' <=> Rejecting(q)
    BY DEF Rejecting, Reviewing
  <1>4. \A q \in Requests :
           At(q, "kyc")' /\ job'[q].to = "verified" => At(q, "kyc") /\ job[q].to = "verified"
    BY DEF Reviewing
  <1>5. QED
    BY <1>1, <1>2, <1>3, <1>4 DEF ReviewInv

\* A request that is no review moves on.
LEMMA OtherRequest ==
    ASSUME TypeInv, ReviewInv, UNCHANGED <<document, disturbed>>,
           restaurant' # None => restaurant # None /\ restaurant'.kyc = restaurant.kyc,
           NEW r \in Requests, r \notin Reviewing,
           NEW newJob, Become(r, newJob), newJob = NoJob \/ newJob.step \notin {"list", "kyc"}
    PROVE  ReviewInv'
  <1>1. /\ job'[r] = newJob
        /\ \A q \in Requests \ {r} : job'[q] = job[q]
    BY DEF Become, TypeInv, TypeOK
  <1>2. \A q \in Requests, step \in {"list", "kyc"} : At(q, step) <=> At(q, step)'
    BY <1>1 DEF At, Reviewing
  <1>3. \A q \in Reviewing : job'[q] = job[q]
    BY <1>1 DEF Reviewing
  <1>4. QED
    BY <1>2, <1>3, ReviewsUntouched

LEMMA OwnerKeepsReview ==
    ASSUME TypeInv, ReviewInv
    PROVE  /\ Onboard => ReviewInv'
           /\ SetServiceArea => ReviewInv'
           /\ StaffStep => ReviewInv'
           /\ DocumentStep => ReviewInv'
  <1>1. ASSUME Onboard PROVE ReviewInv'
    <2>1. \A r \in Requests : job'[r] = NoJob
      BY <1>1 DEF Onboard, TypeInv, Onboarded
    <2>2. restaurant'.kyc = "pending"
      BY <1>1 DEF Onboard
    <2>3. Reviewing' = {} /\ \A r \in Requests : ~ At(r, "kyc")'
      BY <2>1 DEF Reviewing, At
    <2>4. QED
      BY <2>2, <2>3 DEF ReviewInv
  <1>2. ASSUME SetServiceArea PROVE ReviewInv'
    <2>1. restaurant # None /\ restaurant'.kyc = restaurant.kyc
      BY <1>2 DEF SetServiceArea, TypeInv, TypeOK, Restaurant
    <2>2. QED
      BY <1>2, <2>1, ReviewsUntouched DEF SetServiceArea, At
  <1>3. ASSUME StaffStep PROVE ReviewInv'
    BY <1>3, ReviewsUntouched DEF StaffStep, AddStaff, RevokeStaff, At
  <1>4. ASSUME UNCHANGED <<restaurant, job>>,
               disturbed' \/ (Reviewing = {} /\ restaurant.kyc # "verified")
        PROVE  ReviewInv'
    <2>1. Reviewing' = Reviewing
      BY <1>4 DEF Reviewing, At
    <2>2. \A r \in Requests : At(r, "kyc")' => r \in Reviewing
      BY <1>4 DEF Reviewing, At
    <2>3. QED
      BY <1>4, <2>1, <2>2 DEF ReviewInv
  <1>5. ASSUME NEW t \in Documents, ReviewElsewhere(t, "verified") PROVE ReviewInv'
    <2>1. UNCHANGED <<restaurant, job>> /\ (disturbed => disturbed')
      BY <1>5 DEF ReviewElsewhere
    <2>2. AllVerified => AllVerified'
      BY <1>5 DEF ReviewElsewhere, AllVerified, TypeInv, TypeOK
    <2>3. /\ Reviewing' = Reviewing
          /\ \A r \in Requests : (At(r, "kyc")' <=> At(r, "kyc")) /\ (Rejecting(r)' <=> Rejecting(r))
      BY <2>1 DEF Reviewing, Rejecting, At
    <2>4. QED
      BY <2>1, <2>2, <2>3 DEF ReviewInv
  <1>6. ASSUME NEW t \in Documents, UploadDocument(t) \/ ReviewElsewhere(t, "rejected")
        PROVE  ReviewInv'
    BY <1>4, <1>6 DEF UploadDocument, ReviewElsewhere
  <1>7. QED
    BY <1>1, <1>2, <1>3, <1>5, <1>6 DEF DocumentStep

LEMMA StatusKeepsReview ==
    ASSUME TypeInv, ReviewInv, NEW r \in Requests, StatusStep(r) \/ HoursStep(r)
    PROVE  ReviewInv'
  <1>1. UNCHANGED <<document, disturbed>>
    BY DEF StatusStep, HoursStep, SetOperatingHours, InsertHours, SubmitForApproval,
       ListOperatingHours, ListDocuments, SetStatus, SetAcceptingOrders, WriteAccepting
  <1>2. r \notin Reviewing
    BY DEF StatusStep, HoursStep, SetOperatingHours, InsertHours, SubmitForApproval,
       ListOperatingHours, ListDocuments, SetStatus, SetAcceptingOrders, WriteAccepting,
       Reviewing, At, Free
  <1>3. restaurant' # None => restaurant # None /\ restaurant'.kyc = restaurant.kyc
    <2>1. CASE SetStatus(r)
      BY <2>1 DEF SetStatus, At, TypeInv, TypeOK, Onboarded, Restaurant
    <2>2. CASE WriteAccepting(r)
      BY <2>2 DEF WriteAccepting, At, TypeInv, TypeOK, Onboarded, Restaurant
    <2>3. CASE UNCHANGED restaurant
      BY <2>3
    <2>4. QED
      BY <2>1, <2>2, <2>3 DEF StatusStep, HoursStep, SetOperatingHours, InsertHours,
         SubmitForApproval, ListOperatingHours, ListDocuments, SetAcceptingOrders
  <1>4. PICK newJob : Become(r, newJob) /\ (newJob = NoJob \/ newJob.step \notin {"list", "kyc"})
    <2>1. CASE SubmitForApproval(r)
      BY <2>1 DEF SubmitForApproval
    <2>2. CASE ListOperatingHours(r)
      <3>1. job[r] # NoJob /\ job[r].step = "hours"
        BY <2>2 DEF ListOperatingHours, At
      <3>2. [job[r] EXCEPT !.step = "documents"].step = "documents"
        BY <3>1, JobAt DEF TypeInv
      <3>3. QED
        BY <2>2, <3>2 DEF ListOperatingHours, Done
    <2>3. CASE ListDocuments(r)
      <3>1. job[r] # NoJob /\ job[r].step = "documents"
        BY <2>3 DEF ListDocuments, At
      <3>2. [job[r] EXCEPT !.step = "status"].step = "status"
        BY <3>1, JobAt DEF TypeInv
      <3>3. QED
        BY <2>3, <3>2 DEF ListDocuments, Done
    <2>4. CASE SetStatus(r) \/ WriteAccepting(r) \/ InsertHours(r)
      BY <2>4 DEF SetStatus, WriteAccepting, InsertHours, Done
    <2>5. CASE \E accepting \in BOOLEAN : SetAcceptingOrders(r, accepting)
      BY <2>5 DEF SetAcceptingOrders
    <2>6. CASE \E d \in Days : SetOperatingHours(r, d)
      BY <2>6 DEF SetOperatingHours
    <2>7. QED
      BY <2>1, <2>2, <2>3, <2>4, <2>5, <2>6 DEF StatusStep, HoursStep
  <1>5. QED
    BY <1>1, <1>2, <1>3, <1>4, OtherRequest

LEMMA ReviewKeepsReview ==
    ASSUME TypeInv, ReviewInv, NEW r \in Requests, ReviewStep(r)
    PROVE  ReviewInv'
  <1>t. job \in [Requests -> Job \cup {NoJob}]
    BY DEF TypeInv, TypeOK
  <1>1. CASE \E to \in {"approved", "rejected"} : AdminReview(r, to)
    BY <1>1, OtherRequest DEF AdminReview, Free, Reviewing, At
  <1>2. ASSUME NEW verdict \in {"verified", "rejected"}, ~ disturbed',
               ReviewForeign(r, verdict) \/ \E t \in Documents : ReviewDocument(r, t, verdict)
        PROVE  ReviewInv'
    <2>1. ~ disturbed /\ Reviewing = {} /\ restaurant' = restaurant
      BY <1>2 DEF ReviewForeign, ReviewDocument
    <2>2. /\ job'[r] = [step |-> "list", verdict |-> verdict] /\ job'[r] # NoJob
          /\ \A q \in Requests \ {r} : job'[q] = job[q]
      <3>1. Become(r, [step |-> "list", verdict |-> verdict])
        BY <1>2 DEF ReviewForeign, ReviewDocument
      <3>2. [step |-> "list", verdict |-> verdict] \in Job
        BY DEF Job
      <3>3. QED
        BY <1>t, <3>1, <3>2 DEF Become
    <2>3. \A q \in Reviewing' : q = r
      BY <2>1, <2>2 DEF Reviewing, At
    <2>4. \A q \in Requests : ~ At(q, "kyc")'
      BY <2>1, <2>2 DEF Reviewing, At
    <2>5. restaurant # None /\ restaurant.kyc = "verified" => AllVerified
      BY <2>1 DEF ReviewInv, Rejecting, Reviewing
    <2>6. verdict = "verified" /\ AllVerified => AllVerified'
      BY <1>2 DEF ReviewForeign, ReviewDocument, AllVerified, TypeInv, TypeOK
    <2>7. verdict = "rejected" => Rejecting(r)'
      BY <2>2 DEF Rejecting, At
    <2>8. QED
      BY <2>1, <2>3, <2>4, <2>5, <2>6, <2>7 DEF ReviewInv
  <1>3. ASSUME ListForKYC(r), ~ disturbed
        PROVE  ReviewInv'
    <2>1. /\ UNCHANGED <<restaurant, document, disturbed>> /\ job[r] # NoJob
          /\ r \in Reviewing
      BY <1>3 DEF ListForKYC, At, Reviewing
    <2>2. \A q \in Reviewing : q = r
      BY <1>3, <2>1 DEF ReviewInv
    <2>3. AllVerified' <=> AllVerified
      BY <2>1 DEF AllVerified
    <2>4. \A q \in Requests \ {r} : job'[q] = job[q] /\ q \notin Reviewing
      BY <1>3, <1>t, <2>2 DEF ListForKYC, Become, Done
    <2>5. \A q \in Reviewing' : q = r
      BY <2>4 DEF Reviewing, At
    <2>6. CASE AllVerified
      BY <2>3, <2>5, <2>6 DEF ReviewInv
    <2>7. CASE ~ AllVerified /\ job[r].verdict = "rejected"
      <3>1. /\ Become(r, [step |-> "kyc", to |-> "rejected"])
            /\ [step |-> "kyc", to |-> "rejected"] \in Job
        BY <1>3, <2>7 DEF ListForKYC, Job
      <3>2. job'[r] = [step |-> "kyc", to |-> "rejected"] /\ job'[r] # NoJob
        BY <1>t, <3>1 DEF Become
      <3>3. Rejecting(r)'
        BY <3>2 DEF Rejecting, At
      <3>4. \A q \in Requests : At(q, "kyc")' => q = r
        BY <2>5 DEF Reviewing
      <3>5. QED
        BY <2>5, <3>2, <3>3, <3>4 DEF ReviewInv
    <2>8. CASE ~ AllVerified /\ job[r].verdict # "rejected"
      <3>1. ~ Rejecting(r)
        BY <1>3, <2>8 DEF ListForKYC, Rejecting, At
      <3>2. \A q \in Requests : ~ Rejecting(q)
        BY <2>2, <3>1 DEF Rejecting, Reviewing
      <3>3. restaurant = None \/ restaurant.kyc # "verified"
        BY <1>3, <2>8, <3>2 DEF ReviewInv
      <3>4. job'[r] = NoJob
        BY <1>3, <1>t, <2>8 DEF ListForKYC, Done, Become
      <3>5. \A q \in Requests : ~ At(q, "kyc")'
        BY <2>4, <3>4 DEF Reviewing, At
      <3>6. QED
        BY <2>1, <2>5, <3>3, <3>5 DEF ReviewInv
    <2>9. QED
      BY <2>6, <2>7, <2>8
  <1>4. ASSUME SetKYCStatus(r), ~ disturbed'
        PROVE  ReviewInv'
    <2>1. /\ job'[r] = NoJob
          /\ \A q \in Requests \ {r} : job'[q] = job[q]
          /\ document' = document /\ r \in Reviewing
      BY <1>4, <1>t DEF SetKYCStatus, Done, Become, Reviewing
    <2>2. Reviewing = {r}
      BY <1>4, <2>1 DEF SetKYCStatus, ReviewInv
    <2>3. Reviewing' = {} /\ \A q \in Requests : ~ At(q, "kyc")'
      BY <2>1, <2>2 DEF Reviewing, At
    <2>4. restaurant \in Restaurant /\ restaurant'.kyc = job[r].to
      BY <1>4 DEF SetKYCStatus, At, TypeInv, TypeOK, Onboarded, Restaurant
    <2>5. AllVerified' <=> AllVerified
      BY <2>1 DEF AllVerified
    <2>6. job[r].to = "verified" => AllVerified
      BY <1>4 DEF SetKYCStatus, ReviewInv
    <2>7. QED
      BY <2>3, <2>4, <2>5, <2>6 DEF ReviewInv
  <1>5. disturbed' => ReviewInv'
    BY DEF ReviewInv
  <1>6. ListForKYC(r) => disturbed' = disturbed
    BY DEF ListForKYC
  <1>7. QED
    BY <1>1, <1>2, <1>3, <1>4, <1>5, <1>6 DEF ReviewStep

LEMMA NextKeepsReview ==
    ASSUME TypeInv, ReviewInv, [Next]_vars
    PROVE  ReviewInv'
  <1>1. CASE UNCHANGED vars
    BY <1>1, ReviewsUntouched DEF vars, At
  <1>2. ASSUME NEW r \in Requests, Abort(r)
        PROVE  ReviewInv'
    <2>1. CASE r \in Reviewing
      BY <1>2, <2>1 DEF Abort, ReviewInv
    <2>2. CASE r \notin Reviewing
      BY <1>2, <2>2, OtherRequest DEF Abort, Done, TypeInv, TypeOK
    <2>3. QED
      BY <2>1, <2>2
  <1>3. QED
    BY <1>1, <1>2, OwnerKeepsReview, StatusKeepsReview, ReviewKeepsReview DEF Next

\* kyc_status is 'verified' only while documents are on file and every one is,
\* whatever is reviewed with the wrong id, except when an upload, another
\* review or a rejection elsewhere has got in the way, or a review broke off.
THEOREM VerdictCorrect == Spec => []VerifiedMeansVerified
  <1>1. Init => ReviewInv
    BY DEF Init, ReviewInv, Reviewing, At
  <1>2. ReviewInv => VerifiedMeansVerified
    BY DEF ReviewInv, VerifiedMeansVerified, Rejecting, Reviewing, AllVerified
  <1>3. QED
    BY <1>1, <1>2, TypeInit, NextKeepsType, NextKeepsReview, PTL DEF Spec
-----------------------------------------------------------------------------
(***************************************************************************)
(* SetAcceptingOrders and AdminReview.                                     *)
(***************************************************************************)

\* An opening that has found the restaurant approved.
Opening(r) == At(r, "accepting") /\ job[r].to = TRUE

Approved == restaurant # None /\ restaurant.status = "approved"

\* While nobody contests it, one decision at most is under way, it is about a
\* restaurant that is not approved, and so nobody is opening it meanwhile.
OpenInv ==
    ~ contested =>
       /\ \A q, r \in Deciding : q = r
       /\ Deciding # {} => ~ Approved
       /\ \A r \in Requests : Opening(r) => Approved
       /\ restaurant # None /\ restaurant.accepting => Approved

\* A step that begins no decision and no opening.
LEMMA OpenFrame ==
    ASSUME OpenInv, contested' = contested, Deciding' \subseteq Deciding,
           \A r \in Requests : Opening(r)' => Opening(r),
           Approved' <=> Approved,
           restaurant' # None /\ restaurant'.accepting =>
              \/ restaurant # None /\ restaurant.accepting
              \/ \E r \in Requests : Opening(r)
    PROVE  OpenInv'
  BY DEF OpenInv

\* A slot that moves on to a step that decides and opens no more than before.
LEMMA MovesOn ==
    ASSUME TypeInv, NEW r \in Requests, NEW newJob, Become(r, newJob),
           \/ newJob = NoJob
           \/ newJob.step \notin {"hours", "documents", "status", "accepting"}
           \/ r \in Deciding /\ newJob.step # "accepting"
           \/ newJob.step = "accepting" /\ newJob.to # TRUE
    PROVE  /\ Deciding' \subseteq Deciding
           /\ \A q \in Requests : Opening(q)' => Opening(q)
  BY DEF Become, Deciding, Opening, At, TypeInv, TypeOK

\* What all steps but those of the decisions and openings leave alone.
LEMMA OthersKeepOpen ==
    ASSUME TypeInv, OpenInv
    PROVE  /\ Onboard => OpenInv'
           /\ SetServiceArea => OpenInv'
           /\ StaffStep => OpenInv'
           /\ DocumentStep => OpenInv'
           /\ \A r \in Requests : HoursStep(r) \/ Abort(r) => OpenInv'
  <1>1. ASSUME Onboard PROVE OpenInv'
    <2>1. \A r \in Requests : job'[r] = NoJob
      BY <1>1 DEF Onboard, TypeInv, Onboarded
    <2>2. ~ restaurant'.accepting
      BY <1>1 DEF Onboard
    <2>3. QED
      BY <2>1, <2>2 DEF OpenInv, Deciding, Opening, At
  <1>2. UNCHANGED job => Deciding' = Deciding /\ \A r \in Requests : Opening(r)' => Opening(r)
    BY DEF Deciding, Opening, At
  <1>3. ASSUME SetServiceArea PROVE OpenInv'
    <2>1. /\ restaurant # None /\ restaurant' # None
          /\ restaurant'.status = restaurant.status
          /\ restaurant'.accepting = restaurant.accepting
      BY <1>3 DEF SetServiceArea, TypeInv, TypeOK, Restaurant
    <2>2. QED
      BY <1>2, <1>3, <2>1, OpenFrame DEF SetServiceArea, Approved
  <1>4. ASSUME UNCHANGED <<restaurant, contested>>, Deciding' \subseteq Deciding,
               \A r \in Requests : Opening(r)' => Opening(r)
        PROVE  OpenInv'
    BY <1>4, OpenFrame DEF Approved
  <1>5. StaffStep => OpenInv'
    BY <1>2, <1>4 DEF StaffStep, AddStaff, RevokeStaff
  <1>6. DocumentStep => OpenInv'
    BY <1>2, <1>4 DEF DocumentStep, UploadDocument, ReviewElsewhere
  <1>7. ASSUME NEW r \in Requests, HoursStep(r) \/ Abort(r) PROVE OpenInv'
    <2>1. UNCHANGED <<restaurant, contested>>
      BY <1>7 DEF HoursStep, SetOperatingHours, InsertHours, Abort
    <2>2. PICK newJob : Become(r, newJob) /\ (newJob = NoJob \/ newJob.step = "insert")
      <3>1. CASE InsertHours(r) \/ Abort(r)
        BY <3>1 DEF InsertHours, Abort, Done
      <3>2. ASSUME NEW d \in Days, SetOperatingHours(r, d)
            PROVE  /\ Become(r, [step |-> "insert", day |-> d])
                   /\ [step |-> "insert", day |-> d].step = "insert"
        BY <3>2 DEF SetOperatingHours
      <3>3. QED
        BY <1>7, <3>1, <3>2 DEF HoursStep
    <2>3. QED
      BY <1>4, <2>1, <2>2, MovesOn
  <1>8. QED
    BY <1>1, <1>3, <1>5, <1>6, <1>7

\* A submission or a review has read a status other than 'approved'.
LEMMA DecisionBegins ==
    ASSUME TypeInv, OpenInv, NEW r \in Requests, NEW newJob, Become(r, newJob),
           newJob.step \in {"hours", "status"}, ~ Approved, restaurant' = restaurant,
           contested' = (contested \/ Deciding # {})
    PROVE  OpenInv'
  <1>1. Deciding' \subseteq Deciding \cup {r} /\ \A q \in Requests : Opening(q)' => Opening(q)
    BY DEF Become, Deciding, Opening, At, TypeInv, TypeOK
  <1>2. ASSUME ~ contested'
        PROVE  ~ contested /\ Deciding' \subseteq {r}
    BY <1>1, <1>2
  <1>3. Approved' <=> Approved
    BY DEF Approved
  <1>4. QED
    BY <1>1, <1>2, <1>3 DEF OpenInv

LEMMA StatusKeepsOpen ==
    ASSUME TypeInv, OpenInv, NEW r \in Requests, StatusStep(r)
    PROVE  OpenInv'
  <1>t. /\ job \in [Requests -> Job \cup {NoJob}]
        /\ job[r] # NoJob => restaurant \in Restaurant /\ restaurant # None
    BY DEF TypeInv, TypeOK, Onboarded
  <1>1. CASE SubmitForApproval(r)
    <2>1. ~ Approved
      BY <1>1 DEF SubmitForApproval, Approved
    <2>2. QED
      BY <1>1, <2>1, DecisionBegins DEF SubmitForApproval
  <1>2. CASE ListOperatingHours(r) \/ ListDocuments(r)
    <2>1. job[r] # NoJob /\ job[r].step \in {"hours", "documents"} /\ r \in Deciding
      BY <1>2 DEF ListOperatingHours, ListDocuments, At, Deciding
    <2>2. [job[r] EXCEPT !.step = "documents"].step = "documents"
          /\ [job[r] EXCEPT !.step = "status"].step = "status"
      BY <2>1, JobAt DEF TypeInv
    <2>3. PICK newJob : Become(r, newJob) /\ (newJob = NoJob \/ newJob.step # "accepting")
      BY <1>2, <2>2 DEF ListOperatingHours, ListDocuments, Done
    <2>4. Deciding' \subseteq Deciding /\ \A q \in Requests : Opening(q)' => Opening(q)
      BY <2>1, <2>3, MovesOn
    <2>5. UNCHANGED <<restaurant, contested>>
      BY <1>2 DEF ListOperatingHours, ListDocuments
    <2>6. QED
      BY <2>4, <2>5, OpenFrame DEF Approved
  <1>3. CASE SetStatus(r)
    <2>1. /\ job'[r] = NoJob /\ \A q \in Requests \ {r} : job'[q] = job[q]
          /\ contested' = contested /\ r \in Deciding
      BY <1>3, <1>t DEF SetStatus, Done, Become, Deciding
    <2>2. restaurant'.accepting = restaurant.accepting /\ restaurant # None
      BY <1>3, <1>t DEF SetStatus, At, Restaurant
    <2>3. ASSUME ~ contested
          PROVE  /\ Deciding' = {} /\ \A q \in Requests : ~ Opening(q)'
                 /\ ~ restaurant'.accepting
      <3>1. \A q \in Deciding : q = r
        BY <2>1, <2>3 DEF OpenInv
      <3>2. ~ Approved
        BY <2>1, <2>3 DEF OpenInv
      <3>3. \A q \in Requests : ~ Opening(q)
        BY <2>3, <3>2 DEF OpenInv
      <3>4. Deciding' = {}
        BY <2>1, <3>1 DEF Deciding, At
      <3>5. \A q \in Requests : ~ Opening(q)'
        BY <2>1, <3>3 DEF Opening, At
      <3>6. QED
        BY <2>2, <2>3, <3>2, <3>4, <3>5 DEF OpenInv
    <2>4. QED
      BY <2>1, <2>3 DEF OpenInv
  <1>4. ASSUME NEW accepting \in BOOLEAN, SetAcceptingOrders(r, accepting)
        PROVE  OpenInv'
    <2>1. /\ UNCHANGED <<restaurant, contested>> /\ restaurant # None
          /\ Become(r, [step |-> "accepting", to |-> accepting])
      BY <1>4 DEF SetAcceptingOrders, Free
    <2>2. CASE accepting = FALSE
      <3>1. Deciding' \subseteq Deciding /\ \A q \in Requests : Opening(q)' => Opening(q)
        BY <2>1, <2>2, MovesOn
      <3>2. QED
        BY <2>1, <3>1, OpenFrame DEF Approved
    <2>3. CASE accepting = TRUE
      <3>1. Approved
        BY <1>4, <2>1, <2>3 DEF SetAcceptingOrders, MayAccept, Approved
      <3>2. Deciding' \subseteq Deciding
        BY <1>t, <2>1 DEF Become, Deciding, At
      <3>3. Approved' <=> Approved
        BY <2>1 DEF Approved
      <3>4. QED
        BY <2>1, <3>1, <3>2, <3>3 DEF OpenInv
    <2>4. QED
      BY <2>2, <2>3
  <1>5. CASE WriteAccepting(r)
    <2>1. At(r, "accepting") /\ Become(r, NoJob) /\ contested' = contested
      BY <1>5 DEF WriteAccepting, Done
    <2>3. job[r].to \in BOOLEAN
      BY <2>1, JobAt DEF At, TypeInv
    <2>2. /\ restaurant # None /\ restaurant' # None
          /\ restaurant'.status = restaurant.status
          /\ restaurant'.accepting = job[r].to
      BY <1>5, <1>t, <2>3 DEF WriteAccepting, At, Restaurant
    <2>4. restaurant'.accepting => Opening(r)
      BY <2>1, <2>2, <2>3 DEF Opening
    <2>5. Deciding' \subseteq Deciding /\ \A q \in Requests : Opening(q)' => Opening(q)
      BY <2>1, MovesOn
    <2>6. QED
      BY <2>1, <2>2, <2>4, <2>5, OpenFrame DEF Approved
  <1>6. QED
    BY <1>1, <1>2, <1>3, <1>4, <1>5 DEF StatusStep

LEMMA ReviewKeepsOpen ==
    ASSUME TypeInv, OpenInv, NEW r \in Requests, ReviewStep(r)
    PROVE  OpenInv'
  <1>1. ASSUME NEW to \in {"approved", "rejected"}, AdminReview(r, to)
        PROVE  OpenInv'
    <2>1. ~ Approved
      BY <1>1 DEF AdminReview, Approved
    <2>2. QED
      BY <1>1, <2>1, DecisionBegins DEF AdminReview
  <1>2. ASSUME ListForKYC(r) \/ SetKYCStatus(r) \/
               \E verdict \in {"verified", "rejected"} :
                  ReviewForeign(r, verdict) \/ \E t \in Documents : ReviewDocument(r, t, verdict)
        PROVE  OpenInv'
    <2>1. PICK newJob : Become(r, newJob) /\ (newJob = NoJob \/ newJob.step \in {"list", "kyc"})
      BY <1>2 DEF ListForKYC, SetKYCStatus, ReviewDocument, ReviewForeign, Done
    <2>2. Deciding' \subseteq Deciding /\ \A q \in Requests : Opening(q)' => Opening(q)
      BY <2>1, MovesOn
    <2>3. contested' = contested
      BY <1>2 DEF ListForKYC, SetKYCStatus, ReviewDocument, ReviewForeign
    <2>4. /\ Approved' <=> Approved
          /\ restaurant' # None /\ restaurant'.accepting =>
                restaurant # None /\ restaurant.accepting
      <3>1. CASE SetKYCStatus(r)
        <4>1. /\ restaurant \in Restaurant /\ restaurant # None
              /\ restaurant' = [restaurant EXCEPT !.kyc = job[r].to]
          BY <3>1 DEF SetKYCStatus, At, TypeInv, TypeOK, Onboarded
        <4>2. /\ restaurant'.status = restaurant.status
              /\ restaurant'.accepting = restaurant.accepting
              /\ restaurant' # None
          <5>1. /\ restaurant'.status = restaurant.status
                /\ restaurant'.accepting = restaurant.accepting
            BY <4>1 DEF Restaurant
          <5>2. restaurant' \in Restaurant
            BY <3>1, <4>1, JobAt DEF SetKYCStatus, At, TypeInv, Restaurant, KYCStatus
          <5>3. QED
            BY <5>1, <5>2
        <4>3. QED
          BY <4>1, <4>2 DEF Approved
      <3>2. CASE restaurant' = restaurant
        BY <3>2 DEF Approved
      <3>3. QED
        BY <1>2, <3>1, <3>2 DEF ListForKYC, ReviewDocument, ReviewForeign
    <2>5. QED
      BY <2>2, <2>3, <2>4, OpenFrame
  <1>3. QED
    BY <1>1, <1>2 DEF ReviewStep

LEMMA NextKeepsOpen ==
    ASSUME TypeInv, OpenInv, [Next]_vars
    PROVE  OpenInv'
  <1>1. CASE UNCHANGED vars
    BY <1>1 DEF vars, OpenInv, Deciding, Opening, At, Approved
  <1>2. QED
    BY <1>1, OthersKeepOpen, StatusKeepsOpen, ReviewKeepsOpen DEF Next

\* A restaurant that takes orders is an approved one, unless a submission or a
\* review was begun while another was still to write its status.
THEOREM OpenCorrect == Spec => []OpenMeansApproved
  <1>1. Init => OpenInv
    BY DEF Init, OpenInv, Deciding, Opening, At
  <1>2. OpenInv => OpenMeansApproved
    BY DEF OpenInv, OpenMeansApproved, Approved
  <1>3. QED
    BY <1>1, <1>2, TypeInit, NextKeepsType, NextKeepsOpen, PTL DEF Spec
=============================================================================
