---------------------------- MODULE Restaurants ----------------------------
(***************************************************************************)
(* The onboarding of one restaurant: restaurant_service.go over            *)
(* repository.go over restaurants.sql.                                     *)
(*                                                                         *)
(* The owner fills in hours and documents and submits the restaurant, an   *)
(* admin reviews documents and restaurant, the owner opens it for orders.  *)
(* Every method that checks does so on what it has read, and then writes   *)
(* by id alone in a later statement; nothing is in a transaction, so a     *)
(* late rejection may leave a restaurant open.  "unsure", "disturbed" and  *)
(* "contested" are history variables: they record when requests have got   *)
(* in each other's way.                                                    *)
(*                                                                         *)
(* Profile fields and the audit entry of a review are left out.  No route  *)
(* suspends, closes or deletes a restaurant.  One restaurant is enough:    *)
(* others meet it only where an admin reviews a document of the one with   *)
(* the id of the other.                                                    *)
(***************************************************************************)
EXTENDS Naturals

CONSTANTS
    Required,            \* the document types SubmitForApproval requires
    Optional,            \* the other document types
    Days,                \* days of the week
    Users,               \* users who may be on the staff
    Requests,            \* request slots
    None,                \* no row
    NoJob                \* job[r] of a slot that serves no request

VARIABLES
    restaurant,          \* the restaurants row, or None
    hours,               \* hours[d]: how many operating_hours rows day d has
    document,            \* document[t]: the kyc_status of the row, or None
    staff,               \* staff[u]: the status of the restaurant_staff row, or None
    job,                 \* job[r]: the request in slot r, or NoJob
    unsure,              \* the days last set by requests that overlapped or
                         \* broke off
    disturbed,           \* a document was uploaded or reviewed beside a review,
                         \* or uploaded or, as another restaurant's, rejected
                         \* when kyc_status was 'verified', or a review broke off
    contested            \* a decision about the status was begun beside another

vars == <<restaurant, hours, document, staff, job, unsure, disturbed, contested>>

-----------------------------------------------------------------------------
Status == {"draft", "pending_approval", "approved", "rejected"}

KYCStatus == {"pending", "verified", "rejected"}

Restaurant == [status : Status, accepting : BOOLEAN, kyc : KYCStatus, area : BOOLEAN]

Documents == Required \cup Optional

Job == [step : {"hours", "documents", "status"}, to : Status]
         \cup [step : {"accepting"}, to : BOOLEAN]
         \cup [step : {"insert"}, day : Days]
         \cup [step : {"list"}, verdict : {"verified", "rejected"}]
         \cup [step : {"kyc"}, to : {"verified", "rejected"}]

ASSUME RestaurantsAssumption ==
    /\ NoJob \notin Job
    /\ None \notin Restaurant \cup KYCStatus \cup {"active", "revoked"}
    /\ Required \cap Optional = {}

TypeOK ==
    /\ restaurant \in Restaurant \cup {None}
    /\ hours \in [Days -> Nat]
    /\ document \in [Documents -> KYCStatus \cup {None}]
    /\ staff \in [Users -> {"active", "revoked", None}]
    /\ job \in [Requests -> Job \cup {NoJob}]
    /\ unsure \subseteq Days
    /\ disturbed \in BOOLEAN
    /\ contested \in BOOLEAN

Init ==
    /\ restaurant = None
    /\ hours = [d \in Days |-> 0]
    /\ document = [t \in Documents |-> None]
    /\ staff = [u \in Users |-> None]
    /\ job = [r \in Requests |-> NoJob]
    /\ unsure = {}
    /\ disturbed = FALSE
    /\ contested = FALSE

Free(r) == restaurant # None /\ job[r] = NoJob

At(r, step) == job[r] # NoJob /\ job[r].step = step

Become(r, newJob) == job' = [job EXCEPT ![r] = newJob]

Done(r) == Become(r, NoJob)

\* The requests that are in the middle of replacing the hours of day d.
Replacing(d) == {r \in Requests : At(r, "insert") /\ job[r].day = d}

\* The document reviews whose kyc_status is still to be decided or written.
Reviewing == {r \in Requests : At(r, "list") \/ At(r, "kyc")}

\* The submissions and admin reviews whose new status is still to be written.
Deciding == {r \in Requests : At(r, "hours") \/ At(r, "documents") \/ At(r, "status")}

-----------------------------------------------------------------------------
(***************************************************************************)
(* What the owner fills in.                                                *)
(***************************************************************************)

Onboard ==
    /\ restaurant = None
    /\ restaurant' = [status |-> "draft", accepting |-> FALSE, kyc |-> "pending",
                      area |-> FALSE]
    /\ UNCHANGED <<hours, document, staff, job, unsure, disturbed, contested>>

SetServiceArea ==
    /\ restaurant # None
    /\ restaurant' = [restaurant EXCEPT !.area = TRUE]
    /\ UNCHANGED <<hours, document, staff, job, unsure, disturbed, contested>>

\* Mutant: the rows of the day are kept.
MutantSetOperatingHours(r, d) ==
    /\ Free(r)
    /\ Become(r, [step |-> "insert", day |-> d])
    /\ unsure' = IF Replacing(d) = {} THEN unsure \ {d} ELSE unsure \cup {d}
    /\ UNCHANGED <<restaurant, hours, document, staff, disturbed, contested>>

\* The rows of the day are deleted ...
SetOperatingHours(r, d) ==
    /\ Free(r)
    /\ hours' = [hours EXCEPT ![d] = 0]
    /\ Become(r, [step |-> "insert", day |-> d])
    /\ unsure' = IF Replacing(d) = {} THEN unsure \ {d} ELSE unsure \cup {d}
    /\ UNCHANGED <<restaurant, document, staff, disturbed, contested>>

\* ... and the new one is inserted by another statement, which nothing undoes
\* the first for if it fails, as it does for hours that end before they begin.
InsertHours(r) ==
    /\ At(r, "insert")
    /\ hours' = [hours EXCEPT ![job[r].day] = @ + 1]
    /\ Done(r)
    /\ UNCHANGED <<restaurant, document, staff, unsure, disturbed, contested>>

\* The row is pending again, whatever it was; kyc_status is not touched.
UploadDocument(t) ==
    /\ restaurant # None
    /\ document' = [document EXCEPT ![t] = "pending"]
    /\ disturbed' = (disturbed \/ Reviewing # {} \/ restaurant.kyc = "verified")
    /\ UNCHANGED <<restaurant, hours, staff, job, unsure, contested>>

\* UNIQUE (restaurant_id, user_id): who has been on the staff is not taken again.
AddStaff(u) ==
    /\ restaurant # None
    /\ staff[u] = None
    /\ staff' = [staff EXCEPT ![u] = "active"]
    /\ UNCHANGED <<restaurant, hours, document, job, unsure, disturbed, contested>>

RevokeStaff(u) ==
    /\ staff[u] = "active"
    /\ staff' = [staff EXCEPT ![u] = "revoked"]
    /\ UNCHANGED <<restaurant, hours, document, job, unsure, disturbed, contested>>

-----------------------------------------------------------------------------
(***************************************************************************)
(* SubmitForApproval, AdminReview and SetAcceptingOrders.                  *)
(***************************************************************************)

SubmitForApproval(r) ==
    /\ Free(r)
    /\ restaurant.status \in {"draft", "rejected"}
    /\ Become(r, [step |-> "hours", to |-> "pending_approval"])
    /\ contested' = (contested \/ Deciding # {})
    /\ UNCHANGED <<restaurant, hours, document, staff, unsure, disturbed>>

ListOperatingHours(r) ==
    /\ At(r, "hours")
    /\ IF \A d \in Days : hours[d] = 0 THEN Done(r)
       ELSE Become(r, [job[r] EXCEPT !.step = "documents"])
    /\ UNCHANGED <<restaurant, hours, document, staff, unsure, disturbed, contested>>

\* Mutant: one of the required documents is enough.
MutantMissing == IF \E t \in Required : document[t] # None THEN {} ELSE Required

Missing == {t \in Required : document[t] = None}

ListDocuments(r) ==
    /\ At(r, "documents")
    /\ IF Missing # {} THEN Done(r)
       ELSE Become(r, [job[r] EXCEPT !.step = "status"])
    /\ UNCHANGED <<restaurant, hours, document, staff, unsure, disturbed, contested>>

\* Mutant: what has been approved may be reviewed again.
MutantAdminReview(r, to) ==
    /\ Free(r)
    /\ restaurant.status \in {"pending_approval", "approved"}
    /\ Become(r, [step |-> "status", to |-> to])
    /\ contested' = (contested \/ Deciding # {})
    /\ UNCHANGED <<restaurant, hours, document, staff, unsure, disturbed>>

AdminReview(r, to) ==
    /\ Free(r)
    /\ restaurant.status = "pending_approval"
    /\ Become(r, [step |-> "status", to |-> to])
    /\ contested' = (contested \/ Deciding # {})
    /\ UNCHANGED <<restaurant, hours, document, staff, unsure, disturbed>>

\* UPDATE restaurants SET status, by id.
SetStatus(r) ==
    /\ At(r, "status")
    /\ restaurant' = [restaurant EXCEPT !.status = job[r].to]
    /\ Done(r)
    /\ UNCHANGED <<hours, document, staff, unsure, disturbed, contested>>

MayAccept(accepting) == accepting => restaurant.status = "approved"

SetAcceptingOrders(r, accepting) ==
    /\ Free(r)
    /\ MayAccept(accepting)
    /\ Become(r, [step |-> "accepting", to |-> accepting])
    /\ UNCHANGED <<restaurant, hours, document, staff, unsure, disturbed, contested>>

WriteAccepting(r) ==
    /\ At(r, "accepting")
    /\ restaurant' = [restaurant EXCEPT !.accepting = job[r].to]
    /\ Done(r)
    /\ UNCHANGED <<hours, document, staff, unsure, disturbed, contested>>

-----------------------------------------------------------------------------
(***************************************************************************)
(* ReviewDocument: set the document's status by its id, then list the      *)
(* documents, and set the kyc_status, of the restaurant that the body of   *)
(* the request names.  Nothing asks whether the document is that           *)
(* restaurant's.                                                           *)
(***************************************************************************)

ReviewDocument(r, t, verdict) ==
    /\ Free(r)
    /\ document[t] # None
    /\ document' = [document EXCEPT ![t] = verdict]
    /\ Become(r, [step |-> "list", verdict |-> verdict])
    /\ disturbed' = (disturbed \/ Reviewing # {})
    /\ UNCHANGED <<restaurant, hours, staff, unsure, contested>>

\* A document of this restaurant with the id of another: what follows the
\* first statement is about the other.
ReviewElsewhere(t, verdict) ==
    /\ document[t] # None
    /\ document' = [document EXCEPT ![t] = verdict]
    /\ disturbed' = \/ disturbed
                    \/ verdict = "rejected" /\ (Reviewing # {} \/ restaurant.kyc = "verified")
    /\ UNCHANGED <<restaurant, hours, staff, job, unsure, contested>>

\* A document of another restaurant with the id of this one.
ReviewForeign(r, verdict) ==
    /\ Free(r)
    /\ Become(r, [step |-> "list", verdict |-> verdict])
    /\ disturbed' = (disturbed \/ Reviewing # {})
    /\ UNCHANGED <<restaurant, hours, document, staff, unsure, contested>>

\* Mutant: only the required documents are looked at.
MutantAllVerified == \A t \in Required : document[t] = "verified"

\* All that are uploaded, which need not be all that are required.
AllVerified ==
    /\ \E t \in Documents : document[t] # None
    /\ \A t \in Documents : document[t] \in {"verified", None}

ListForKYC(r) ==
    /\ At(r, "list")
    /\ IF AllVerified THEN Become(r, [step |-> "kyc", to |-> "verified"])
       ELSE IF job[r].verdict = "rejected" THEN Become(r, [step |-> "kyc", to |-> "rejected"])
       ELSE Done(r)
    /\ UNCHANGED <<restaurant, hours, document, staff, unsure, disturbed, contested>>

\* Without a kyc_status of 'verified' nothing is left to be wrong.
SetKYCStatus(r) ==
    /\ At(r, "kyc")
    /\ restaurant' = [restaurant EXCEPT !.kyc = job[r].to]
    /\ Done(r)
    /\ disturbed' = (disturbed /\ ~ (job[r].to = "rejected" /\ Reviewing = {r}))
    /\ UNCHANGED <<hours, document, staff, unsure, contested>>

-----------------------------------------------------------------------------
\* A statement fails, or the process ends, in the middle of a request.  The
\* errors of ReviewDocument's later statements are dropped.
Abort(r) ==
    /\ job[r] # NoJob
    /\ Done(r)
    /\ unsure' = IF At(r, "insert") THEN unsure \cup {job[r].day} ELSE unsure
    /\ disturbed' = (disturbed \/ r \in Reviewing)
    /\ UNCHANGED <<restaurant, hours, document, staff, contested>>

HoursStep(r) ==
    \/ \E d \in Days : SetOperatingHours(r, d)
    \/ InsertHours(r)

DocumentStep ==
    \E t \in Documents :
       UploadDocument(t) \/ \E verdict \in {"verified", "rejected"} : ReviewElsewhere(t, verdict)

StaffStep == \E u \in Users : AddStaff(u) \/ RevokeStaff(u)

StatusStep(r) ==
    \/ SubmitForApproval(r) \/ ListOperatingHours(r) \/ ListDocuments(r) \/ SetStatus(r)
    \/ \E accepting \in BOOLEAN : SetAcceptingOrders(r, accepting)
    \/ WriteAccepting(r)

ReviewStep(r) ==
    \/ \E to \in {"approved", "rejected"} : AdminReview(r, to)
    \/ \E t \in Documents, verdict \in {"verified", "rejected"} : ReviewDocument(r, t, verdict)
    \/ \E verdict \in {"verified", "rejected"} : ReviewForeign(r, verdict)
    \/ ListForKYC(r) \/ SetKYCStatus(r)

Next ==
    \/ Onboard \/ SetServiceArea \/ DocumentStep \/ StaffStep
    \/ \E r \in Requests : HoursStep(r) \/ StatusStep(r) \/ ReviewStep(r) \/ Abort(r)

Spec == Init /\ [][Next]_vars

-----------------------------------------------------------------------------
\* Property of SubmitForApproval: a restaurant that has been submitted, and
\* what has become of it since, has every required document on file, whoever
\* else was at work meanwhile; and it has hours on some day, unless
\* SetOperatingHours is replacing them or has lost them.
SubmittedIsComplete ==
    restaurant # None /\ restaurant.status # "draft" =>
        /\ \A t \in Required : document[t] # None
        /\ \E d \in Days : hours[d] > 0 \/ d \in unsure \/ Replacing(d) # {}

\* Property of SetOperatingHours: a day never has two rows, and none while it
\* is replaced, unless two replacements of the day overlapped or the last one
\* broke off.
HoursReplaced ==
    \A d \in Days \ unsure : hours[d] <= IF Replacing(d) = {} THEN 1 ELSE 0

\* Property of ReviewDocument: kyc_status is 'verified' only while there are
\* documents on file and every one of them is, even where documents of other
\* restaurants are reviewed with this one's id; except in the cases that
\* "disturbed" names, a rejection with the id of another restaurant being one.
VerifiedMeansVerified ==
    restaurant # None /\ restaurant.kyc = "verified" /\ Reviewing = {} /\ ~ disturbed =>
        /\ \E t \in Documents : document[t] # None
        /\ \A t \in Documents : document[t] \in {"verified", None}

\* Property of SetAcceptingOrders and AdminReview: a restaurant that takes
\* orders is an approved one (docs/assumptions.md:38), although each status
\* is checked long before it is relied on; unless a submission or a review
\* was begun while another was still to write its status.
OpenMeansApproved ==
    restaurant # None /\ restaurant.accepting /\ ~ contested =>
        restaurant.status = "approved"
=============================================================================
