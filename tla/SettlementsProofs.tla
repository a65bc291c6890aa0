------------------------- MODULE SettlementsProofs -------------------------
(***************************************************************************)
(* Proofs about Settlements, for any payees, work, cycles, days, requests  *)
(* and number of failures: rows stay in the window of their cycle; unless  *)
(* requests about a cycle have met, nobody is paid twice for it, paid rows *)
(* show what was paid, the cycle is frozen once one of them is paid, and a *)
(* completed cycle misses nothing; no work is paid twice, except where two *)
(* payouts of a row have met or windows of cycles overlap; and Settlements *)
(* implements PayoutBook.                                                  *)
(*                                                                         *)
(* What makes these inductive: work a run has summed was once done in the  *)
(* window, by a payee who does not change; a payout that meets no other    *)
(* has seen the row it marks; a run that meets no payout saves only while  *)
(* no row is paid; and what a run that meets no other was promised is      *)
(* saved, summed or of a payee still on its list.                          *)
(***************************************************************************)
EXTENDS Settlements, TLAPS

USE SlotsAssumption

-----------------------------------------------------------------------------
(***************************************************************************)
(* Type correctness.                                                       *)
(***************************************************************************)

\* Which request a slot serves is told by its step.
LEMMA JobAt ==
    ASSUME TypeOK, NEW r \in Requests, ~ Free(r)
    PROVE  /\ job[r] \in Job
           /\ job[r].cycle \in Cycles
           /\ job[r] \in Running <=>
                job[r].step \in {"checkRestaurants", "checkPartners", "start", "list"}
           /\ job[r] \in Computing <=> job[r].step \in {"restaurants", "partners", "save"}
           /\ job[r] \in Paying <=> job[r].step = "mark"
           /\ job[r].step \in {"restaurants", "partners", "save"} => job[r].todo \in SUBSET Payees
           /\ job[r].step \in {"save", "mark"} =>
                job[r].payee \in Payees /\ job[r].work \in SUBSET Work
  <1>1. job[r] \in Running \/ job[r] \in Computing \/ job[r] \in Paying
    BY DEF TypeOK, Free, Job
  <1>2. CASE job[r] \in Running
    BY <1>2 DEF Running, Computing, Paying, Job
  <1>3. CASE job[r] \in Computing
    BY <1>3 DEF Running, Computing, Paying, Job
  <1>4. CASE job[r] \in Paying
    BY <1>4 DEF Running, Computing, Paying, Job
  <1>5. QED
    BY <1>1, <1>2, <1>3, <1>4

\* Slot r changes hands in a well typed way.
LEMMA BecomeTypes ==
    ASSUME TypeOK, NEW r \in Requests, NEW newJob \in Job \cup {NoJob}, Become(r, newJob)
    PROVE  job' \in [Requests -> Job \cup {NoJob}]
  BY DEF TypeOK, Become

LEMMA InitTypes == Init => TypeOK
  BY DEF Init, TypeOK, Days, Overlap

\* What orders, deliveries and administrators do outside of requests.
LEMMA WorldTypes == TypeOK /\ (WorldStep \/ CycleStep) => TypeOK'
  <1> SUFFICES ASSUME TypeOK, WorldStep \/ CycleStep PROVE TypeOK'
    OBVIOUS
  <1>1. CASE NextDay
    BY <1>1 DEF NextDay, TypeOK, Days
  <1>2. ASSUME NEW w \in Work, NEW p \in Payees, Deliver(w, p) PROVE TypeOK'
    BY <1>2 DEF Deliver, TypeOK, Days, Work
  <1>3. ASSUME NEW w \in Work, Captured(w) \/ Withdraw(w) PROVE TypeOK'
    BY <1>3 DEF Captured, Withdraw, TypeOK
  <1>4. ASSUME NEW c \in Cycles, NEW start \in Days, NEW end \in Days, OpenCycle(c, start, end)
        PROVE  TypeOK'
    <2>1. [start |-> start, end |-> end, status |-> "open"] \in Cycle
      BY <1>4 DEF OpenCycle, Cycle, CycleStatus
    <2>2. cycle' \in [Cycles -> Cycle \cup {None}]
      BY <1>4, <2>1 DEF OpenCycle, CreateCycle, TypeOK
    <2>3. QED
      BY <1>4, <2>2 DEF OpenCycle, TypeOK, world
  <1>5. QED
    BY <1>1, <1>2, <1>3, <1>4 DEF WorldStep, CycleStep

LEMMA AccountTypes ==
    TypeOK /\ (RegisterRestaurantPayoutAccount \/ RegisterPartnerPayoutAccount) => TypeOK'
  BY DEF RegisterRestaurantPayoutAccount, RegisterPartnerPayoutAccount, RegisterPayoutAccount,
         TypeOK, world, Payees

\* Only the status of a cycle's row changes.
LEMMA StatusTypes ==
    ASSUME TypeOK, NEW c \in Cycles, cycle[c] # None, NEW status \in CycleStatus,
           SetCycleStatus(c, status)
    PROVE  cycle' \in [Cycles -> Cycle \cup {None}]
  <1>1. cycle[c] \in Cycle
    BY DEF TypeOK
  <1>2. [cycle[c] EXCEPT !.status = status] \in Cycle
    BY <1>1 DEF Cycle
  <1>3. QED
    BY <1>2 DEF SetCycleStatus, TypeOK

\* A request is about a cycle, and a payout about a row, that exists.
About ==
    \A r \in Requests : ~ Free(r) =>
        /\ cycle[job[r].cycle] # None
        /\ job[r].step = "mark" => row[job[r].cycle][job[r].payee] # None

LEMMA ProcessTypes ==
    ASSUME TypeOK, About, NEW r \in Requests, ProcessStep(r)
    PROVE  TypeOK'
  <1>1. ASSUME NEW c \in Cycles, ProcessCycle(r, c) PROVE TypeOK'
    <2>1. [step |-> "checkRestaurants", cycle |-> c] \in Job
      BY DEF Job, Running
    <2>2. promised' \in [Cycles -> SUBSET Work]
      <3>1. \A p \in Payees : SumSettlementData(c, p) \cup CountDelivered(c, p) \in SUBSET Work
        BY DEF SumSettlementData, CountDelivered, Work
      <3>2. UNION {SumSettlementData(c, p) \cup CountDelivered(c, p) : p \in Payees}
              \in SUBSET Work
        BY <3>1
      <3>3. QED
        BY <1>1, <3>2 DEF ProcessCycle, TypeOK
    <2>3. overlaps' \in [Cycles -> SUBSET Overlap]
      BY <1>1 DEF ProcessCycle, Meets, TypeOK, Overlap
    <2>4. job' \in [Requests -> Job \cup {NoJob}]
      BY <1>1, <2>1, BecomeTypes DEF ProcessCycle
    <2>5. QED
      BY <1>1, <2>2, <2>3, <2>4 DEF ProcessCycle, TypeOK, world
  <1>2. ASSUME ~ Free(r), NEW newJob \in Job \cup {NoJob}, Become(r, newJob),
               UNCHANGED <<world, cycle, row, account, sent, promised, overlaps, faults>>
        PROVE  TypeOK'
    <2>1. job' \in [Requests -> Job \cup {NoJob}]
      BY <1>2, BecomeTypes
    <2>2. QED
      BY <1>2, <2>1 DEF TypeOK, world
  <1>3. CASE CheckRestaurants(r) \/ CheckPartners(r)
    <2>1. ~ Free(r) /\ job[r] \in Running
      BY <1>3, JobAt DEF CheckRestaurants, CheckPartners, At, Free
    <2>2. /\ [job[r] EXCEPT !.step = "checkPartners"] \in Job
          /\ [job[r] EXCEPT !.step = "start"] \in Job
      BY <2>1 DEF Job, Running
    <2>3. QED
      BY <1>2, <1>3, <2>1, <2>2 DEF CheckRestaurants, CheckPartners, Goto
  <1>4. CASE StartProcessing(r)
    <2>1. ~ Free(r) /\ job[r] \in Running /\ job[r].cycle \in Cycles
      BY <1>4, JobAt DEF StartProcessing, At, Free
    <2>2. [job[r] EXCEPT !.step = "list"] \in Job
      BY <2>1 DEF Job, Running
    <2>3. job' \in [Requests -> Job \cup {NoJob}]
      BY <1>4, <2>2, BecomeTypes DEF StartProcessing, Goto
    <2>4. cycle' \in [Cycles -> Cycle \cup {None}]
      BY <1>4, <2>1, StatusTypes DEF StartProcessing, About, CycleStatus
    <2>5. QED
      BY <1>4, <2>3, <2>4 DEF StartProcessing, TypeOK, world
  <1>5. CASE ListRestaurantsWithActivity(r) \/ ListPartnersWithActivity(r)
    <2>1. ~ Free(r) /\ job[r].cycle \in Cycles
      BY <1>5, JobAt DEF ListRestaurantsWithActivity, ListPartnersWithActivity, At, Free
    <2>2. /\ [step |-> "restaurants", cycle |-> job[r].cycle,
              todo |-> RestaurantsWithActivity(job[r].cycle)] \in Job
          /\ [step |-> "partners", cycle |-> job[r].cycle,
              todo |-> PartnersWithActivity(job[r].cycle)] \in Job
      BY <2>1 DEF Job, Computing, RestaurantsWithActivity, PartnersWithActivity, Payees
    <2>3. QED
      BY <1>2, <1>5, <2>1, <2>2 DEF ListRestaurantsWithActivity, ListPartnersWithActivity
  <1>6. ASSUME NEW p \in Payees, NEW work \in SUBSET Work, ~ Free(r),
               job[r].step \in {"restaurants", "partners"}, Compute(r, p, work)
        PROVE  TypeOK'
    <2>1. /\ job[r] \in Computing /\ job[r].cycle \in Cycles
          /\ job[r].todo \in SUBSET Payees
      BY <1>6, JobAt
    <2>2. [job[r] EXCEPT !.todo = @ \ {p}] \in Job
      BY <1>6, <2>1 DEF Job, Computing
    <2>3. [step |-> "save", cycle |-> job[r].cycle, todo |-> job[r].todo \ {p},
           payee |-> p, work |-> work] \in Job
      BY <1>6, <2>1 DEF Job, Computing
    <2>4. QED
      BY <1>2, <1>6, <2>2, <2>3 DEF Compute
  <1>7. ASSUME NEW p \in Restaurants, ProcessRestaurant(r, p) PROVE TypeOK'
    <2>1. SumSettlementData(job[r].cycle, p) \in SUBSET Work
      BY DEF SumSettlementData, Work
    <2>2. QED
      BY <1>6, <1>7, <2>1 DEF ProcessRestaurant, At, Free, Payees
  <1>8. ASSUME NEW p \in Partners, ProcessPartner(r, p) PROVE TypeOK'
    <2>1. CountDelivered(job[r].cycle, p) \in SUBSET Work
      BY DEF CountDelivered, Work
    <2>2. QED
      BY <1>6, <1>8, <2>1 DEF ProcessPartner, At, Free, Payees
  <1>9. ASSUME NEW payees, NEW step \in {"restaurants", "partners"}, SaveAndGoOn(r, payees, step)
        PROVE  TypeOK'
    <2>1. /\ job[r].cycle \in Cycles /\ job[r].todo \in SUBSET Payees
          /\ job[r].payee \in Payees /\ job[r].work \in SUBSET Work
      BY <1>9, JobAt DEF SaveAndGoOn, At, Free
    <2>2. [step |-> step, cycle |-> job[r].cycle, todo |-> job[r].todo] \in Job
      BY <1>9, <2>1 DEF Job, Computing
    <2>3. job' \in [Requests -> Job \cup {NoJob}]
      BY <1>9, <2>2, BecomeTypes DEF SaveAndGoOn
    <2>4. row' \in [Cycles -> [Payees -> Settlement \cup {None}]]
      BY <1>9, <2>1 DEF SaveAndGoOn, Upsert, TypeOK, Settlement, SettlementStatus
    <2>5. QED
      BY <1>9, <2>3, <2>4 DEF SaveAndGoOn, TypeOK, world
  <1>10. CASE CompleteProcessing(r)
    <2>1. ~ Free(r) /\ job[r].cycle \in Cycles
      BY <1>10, JobAt DEF CompleteProcessing, At, Free
    <2>2. cycle' \in [Cycles -> Cycle \cup {None}]
      BY <1>10, <2>1, StatusTypes DEF CompleteProcessing, About, CycleStatus
    <2>3. job' \in [Requests -> Job \cup {NoJob}]
      BY <1>10, BecomeTypes DEF CompleteProcessing
    <2>4. QED
      BY <1>10, <2>2, <2>3 DEF CompleteProcessing, TypeOK, world
  <1>11. QED
    BY <1>1, <1>3, <1>4, <1>5, <1>7, <1>8, <1>9, <1>10
    DEF ProcessStep, UpsertRestaurantSettlement, UpsertDeliverySettlement

LEMMA PayTypes ==
    ASSUME TypeOK, About, NEW r \in Requests, PayStep(r) \/ Abort(r)
    PROVE  TypeOK'
  <1>1. ASSUME NEW c \in Cycles, NEW p \in Payees, BeginPay(r, c, p) PROVE TypeOK'
    <2>1. row[c][p].work \in SUBSET Work
      <3>1. Unpaid(c, p)
        BY <1>1 DEF BeginPay
      <3>2. row[c][p] \in Settlement
        BY <3>1 DEF Unpaid, TypeOK
      <3>3. QED
        BY <3>2 DEF Settlement
    <2>2. [step |-> "mark", cycle |-> c, payee |-> p, work |-> row[c][p].work] \in Job
      BY <2>1 DEF Job, Paying
    <2>3. overlaps' \in [Cycles -> SUBSET Overlap]
      BY <1>1 DEF BeginPay, Meets, TypeOK, Overlap
    <2>4. job' \in [Requests -> Job \cup {NoJob}]
      BY <1>1, <2>2, BecomeTypes DEF BeginPay
    <2>5. QED
      BY <1>1, <2>3, <2>4 DEF BeginPay, TypeOK, world
  <1>2. ASSUME At(r, "mark"), MarkPaid(r) PROVE TypeOK'
    <2>1. job[r].cycle \in Cycles /\ job[r].payee \in Payees /\ job[r].work \in SUBSET Work
      BY <1>2, JobAt DEF At, Free
    <2>2. row' \in [Cycles -> [Payees -> Settlement \cup {None}]]
      <3>1. row[job[r].cycle][job[r].payee] \in Settlement
        BY <1>2, <2>1 DEF About, At, Free, TypeOK
      <3>2. [row[job[r].cycle][job[r].payee] EXCEPT !.status = "paid"] \in Settlement
        BY <3>1 DEF Settlement, SettlementStatus
      <3>3. QED
        BY <1>2, <2>1, <3>2 DEF MarkPaid, TypeOK
    <2>3. sent' \in [Cycles -> [Payees -> Seq(SUBSET Work)]]
      BY <1>2, <2>1 DEF MarkPaid, TypeOK
    <2>4. job' \in [Requests -> Job \cup {NoJob}]
      BY <1>2, BecomeTypes DEF MarkPaid
    <2>5. QED
      BY <1>2, <2>2, <2>3, <2>4 DEF MarkPaid, TypeOK, world
  <1>3. CASE Abort(r)
    <2>1. job' \in [Requests -> Job \cup {NoJob}]
      BY <1>3, BecomeTypes DEF Abort
    <2>2. QED
      BY <1>3, <2>1 DEF Abort, TypeOK, world
  <1>4. QED
    BY <1>1, <1>2, <1>3
    DEF PayStep, PayRestaurantSettlement, PayDeliverySettlement,
        MarkRestaurantSettlementPaid, MarkDeliverySettlementPaid

LEMMA StepTypes == TypeOK /\ About /\ [Next]_vars => TypeOK'
  <1>1. ASSUME TypeOK, UNCHANGED vars PROVE TypeOK'
    BY <1>1 DEF TypeOK, vars
  <1>2. QED
    BY <1>1, WorldTypes, AccountTypes, ProcessTypes, PayTypes DEF Next

-----------------------------------------------------------------------------
(***************************************************************************)
(* What is never undone.                                                   *)
(***************************************************************************)

\* The window of a cycle never changes.
LEMMA WindowStays ==
    ASSUME TypeOK, About, [Next]_vars, NEW c \in Cycles, cycle[c] # None
    PROVE  cycle'[c] # None /\ cycle'[c].start = cycle[c].start /\ cycle'[c].end = cycle[c].end
  <1>1. cycle[c] \in Cycle
    BY DEF TypeOK
  <1>2. ASSUME NEW d \in Cycles, NEW status \in CycleStatus, SetCycleStatus(d, status)
        PROVE  /\ cycle'[c] # None
               /\ cycle'[c].start = cycle[c].start /\ cycle'[c].end = cycle[c].end
    <2>1. [cycle[c] EXCEPT !.status = status] \in Cycle
      BY <1>1, <1>2 DEF Cycle
    <2>2. cycle'[c] = [cycle[c] EXCEPT !.status = status] \/ cycle'[c] = cycle[c]
      BY <1>2 DEF SetCycleStatus, TypeOK
    <2>3. QED
      BY <1>1, <2>1, <2>2 DEF Cycle
  <1>3. ASSUME NEW d \in Cycles, NEW start \in Days, NEW end \in Days, OpenCycle(d, start, end)
        PROVE  cycle'[c] = cycle[c]
    BY <1>3 DEF OpenCycle, CreateCycle, TypeOK
  <1>4. ASSUME NEW r \in Requests, StartProcessing(r) \/ CompleteProcessing(r)
        PROVE  \E d \in Cycles, status \in CycleStatus : SetCycleStatus(d, status)
    BY <1>4, JobAt DEF StartProcessing, CompleteProcessing, At, Free, CycleStatus
  <1>5. ASSUME WorldStep \/ RegisterRestaurantPayoutAccount \/ RegisterPartnerPayoutAccount
               \/ UNCHANGED vars
        PROVE  cycle' = cycle
    BY <1>5 DEF WorldStep, NextDay, Deliver, Captured, Withdraw, vars,
                RegisterRestaurantPayoutAccount, RegisterPartnerPayoutAccount,
                RegisterPayoutAccount
  <1>6. ASSUME NEW r \in Requests, PayStep(r) \/ Abort(r) PROVE cycle' = cycle
    BY <1>6 DEF PayStep, PayRestaurantSettlement, PayDeliverySettlement, BeginPay,
                MarkRestaurantSettlementPaid, MarkDeliverySettlementPaid, MarkPaid, Abort
  <1>7. ASSUME NEW r \in Requests, ProcessStep(r),
               ~ StartProcessing(r), ~ CompleteProcessing(r)
        PROVE  cycle' = cycle
    BY <1>7 DEF ProcessStep, ProcessCycle, CheckRestaurants, CheckPartners,
                ListRestaurantsWithActivity, ListPartnersWithActivity, ProcessRestaurant,
                ProcessPartner, Compute, UpsertRestaurantSettlement,
                UpsertDeliverySettlement, SaveAndGoOn
  <1>8. QED
    BY <1>2, <1>3, <1>4, <1>5, <1>6, <1>7 DEF Next, CycleStep

\* Only orders and deliveries change what is done, delivered and paid.
LEMMA WorldFrame ==
    ASSUME [Next]_vars, ~ WorldStep
    PROVE  UNCHANGED <<today, done, delivered, paid, stamps>>
  <1>1. ASSUME CycleStep \/ RegisterRestaurantPayoutAccount \/ RegisterPartnerPayoutAccount
               \/ UNCHANGED vars
        PROVE  world' = world
    BY <1>1 DEF CycleStep, OpenCycle, vars, world, RegisterRestaurantPayoutAccount,
                RegisterPartnerPayoutAccount, RegisterPayoutAccount
  <1>2. ASSUME NEW r \in Requests, PayStep(r) \/ Abort(r) PROVE world' = world
    BY <1>2 DEF PayStep, PayRestaurantSettlement, PayDeliverySettlement, BeginPay,
                MarkRestaurantSettlementPaid, MarkDeliverySettlementPaid, MarkPaid, Abort
  <1>3. ASSUME NEW r \in Requests, ProcessStep(r) PROVE world' = world
    BY <1>3 DEF ProcessStep, ProcessCycle, CheckRestaurants, CheckPartners,
                StartProcessing, CompleteProcessing,
                ListRestaurantsWithActivity, ListPartnersWithActivity, ProcessRestaurant,
                ProcessPartner, Compute, UpsertRestaurantSettlement,
                UpsertDeliverySettlement, SaveAndGoOn
  <1>4. world' = world
    BY <1>1, <1>2, <1>3 DEF Next
  <1>5. QED
    BY <1>4 DEF world

\* What has been delivered keeps its payee and the days it was delivered on.
LEMMA DoneStays ==
    ASSUME TypeOK, [Next]_vars, NEW w \in Work, done[w] # None
    PROVE  /\ done'[w] # None /\ done'[w][1] = done[w][1]
           /\ stamps[w] \subseteq stamps'[w]
  <1>1. ASSUME NEW v \in Work, NEW p \in Payees, Deliver(v, p)
        PROVE  /\ done'[w] # None /\ done'[w][1] = done[w][1]
               /\ stamps[w] \subseteq stamps'[w]
    <2>1. CASE v = w
      <3>1. done'[w] = <<p, today>> /\ p = done[w][1] /\ stamps'[w] = stamps[w] \cup {today}
        BY <1>1, <2>1 DEF Deliver, TypeOK
      <3>2. <<p, today>> # None
        BY DEF TypeOK
      <3>3. QED
        BY <3>1, <3>2
    <2>2. CASE v # w
      BY <1>1, <2>2 DEF Deliver, TypeOK
    <2>3. QED
      BY <2>1, <2>2
  <1>2. ASSUME NextDay \/ \E v \in Work : Captured(v) \/ Withdraw(v)
        PROVE  UNCHANGED <<done, stamps>>
    BY <1>2 DEF NextDay, Captured, Withdraw
  <1>3. QED
    BY <1>1, <1>2, WorldFrame DEF WorldStep

-----------------------------------------------------------------------------
(***************************************************************************)
(* Rows stay in their windows.                                             *)
(***************************************************************************)

\* Payee p did work w in the window of cycle c, or did so once.
Worked(c, p, w) ==
    /\ cycle[c] # None /\ done[w] # None
    /\ done[w][1] = p
    /\ Fell(c, w)

\* The day of delivered_at is a day it was set to.
Stamped == \A w \in Work : done[w] # None => done[w][2] \in stamps[w]

\* What rows hold, and what runs are about to save.
WindowInv ==
    /\ Stamped
    /\ \A c \in Cycles, p \in Payees : row[c][p] # None =>
         cycle[c] # None /\ \A w \in row[c][p].work : Worked(c, p, w)
    /\ \A r \in Requests : ~ Free(r) /\ job[r].step = "save" =>
         \A w \in job[r].work : Worked(job[r].cycle, job[r].payee, w)

LEMMA WorkedStays ==
    ASSUME TypeOK, About, [Next]_vars, NEW c \in Cycles, NEW p, NEW w \in Work,
           Worked(c, p, w)
    PROVE  Worked(c, p, w)'
  <1>1. Window(c)' = Window(c)
    BY WindowStays DEF Worked, Window
  <1>2. QED
    BY <1>1, WindowStays, DoneStays DEF Worked, Fell

LEMMA StampedStays == TypeOK /\ Stamped /\ [Next]_vars => Stamped'
  <1> SUFFICES ASSUME TypeOK, Stamped, [Next]_vars, NEW w \in Work, done'[w] # None
               PROVE  done'[w][2] \in stamps'[w]
    BY DEF Stamped
  <1>1. ASSUME NEW v \in Work, NEW p \in Payees, Deliver(v, p)
        PROVE  done'[w][2] \in stamps'[w]
    <2>1. CASE v = w
      BY <1>1, <2>1 DEF Deliver, TypeOK
    <2>2. CASE v # w
      BY <1>1, <2>2 DEF Deliver, TypeOK, Stamped
    <2>3. QED
      BY <2>1, <2>2
  <1>2. ASSUME NextDay \/ \E v \in Work : Captured(v) \/ Withdraw(v)
        PROVE  UNCHANGED <<done, stamps>>
    BY <1>2 DEF NextDay, Captured, Withdraw
  <1>3. QED
    BY <1>1, <1>2, WorldFrame DEF WorldStep, Stamped

\* What the sums count was done in the window.
LEMMA WithinFell ==
    ASSUME TypeOK, Stamped, NEW c \in Cycles, NEW w \in Work,
           cycle[c] # None, done[w] # None, Within(c, done[w][2])
    PROVE  Fell(c, w)
  <1>1. cycle[c] \in Cycle /\ done[w] \in Payees \X Days
    BY DEF TypeOK
  <1>2. done[w][2] \in stamps[w] /\ done[w][2] \in Int
    BY <1>1 DEF Stamped, Days
  <1>3. cycle[c].start \in Int /\ cycle[c].end \in Int
    BY <1>1 DEF Cycle, Days
  <1>4. done[w][2] \in Window(c)
    BY <1>2, <1>3 DEF Within, Window
  <1>5. QED
    BY <1>2, <1>4 DEF Fell

\* A row changes in one of two ways.
LEMMA RowSteps ==
    ASSUME TypeOK, About, [Next]_vars, NEW c \in Cycles, NEW p \in Payees,
           row'[c][p] # row[c][p]
    PROVE  \E r \in Requests :
             /\ ~ Free(r) /\ job[r].cycle = c /\ job[r].payee = p
             /\ \/ /\ job[r].step = "save"
                   /\ row'[c][p] =
                        [work |-> job[r].work,
                         status |-> IF row[c][p] = None THEN "pending" ELSE row[c][p].status]
                \/ /\ job[r].step = "mark"
                   /\ row[c][p] # None
                   /\ row'[c][p] = [work |-> row[c][p].work, status |-> "paid"]
  <1>1. ASSUME WorldStep \/ CycleStep \/ RegisterRestaurantPayoutAccount
               \/ RegisterPartnerPayoutAccount \/ UNCHANGED vars
        PROVE  row' = row
    BY <1>1 DEF WorldStep, NextDay, Deliver, Captured, Withdraw, CycleStep, OpenCycle, vars,
                RegisterRestaurantPayoutAccount, RegisterPartnerPayoutAccount,
                RegisterPayoutAccount
  <1>2. ASSUME NEW r \in Requests, Abort(r) PROVE row' = row
    BY <1>2 DEF Abort
  <1>3. ASSUME NEW r \in Requests, NEW d \in Cycles, NEW q \in Payees, BeginPay(r, d, q)
        PROVE  row' = row
    BY <1>3 DEF BeginPay
  <1>4. ASSUME NEW r \in Requests, At(r, "mark"), MarkPaid(r)
        PROVE  /\ ~ Free(r) /\ job[r].cycle = c /\ job[r].payee = p /\ job[r].step = "mark"
               /\ row[c][p] # None
               /\ row'[c][p] = [work |-> row[c][p].work, status |-> "paid"]
    <2>1. /\ ~ Free(r) /\ job[r].step = "mark"
          /\ job[r].cycle \in Cycles /\ job[r].payee \in Payees
      BY <1>4, JobAt DEF At, Free
    <2>2. row' = [row EXCEPT ![job[r].cycle][job[r].payee].status = "paid"]
      BY <1>4 DEF MarkPaid
    <2>3. job[r].cycle = c /\ job[r].payee = p
      BY <2>1, <2>2 DEF TypeOK
    <2>4. row[c][p] \in Settlement
      BY <2>1, <2>3 DEF About, TypeOK
    <2>5. row'[c][p] = [row[c][p] EXCEPT !.status = "paid"]
      BY <2>1, <2>2, <2>3 DEF TypeOK
    <2>6. QED
      BY <2>1, <2>3, <2>4, <2>5 DEF Settlement
  <1>5. ASSUME NEW r \in Requests, NEW payees, NEW step, SaveAndGoOn(r, payees, step)
        PROVE  /\ ~ Free(r) /\ job[r].cycle = c /\ job[r].payee = p /\ job[r].step = "save"
               /\ row'[c][p] =
                    [work |-> job[r].work,
                     status |-> IF row[c][p] = None THEN "pending" ELSE row[c][p].status]
    <2>1. /\ ~ Free(r) /\ job[r].step = "save"
          /\ job[r].cycle \in Cycles /\ job[r].payee \in Payees
      BY <1>5, JobAt DEF SaveAndGoOn, At, Free
    <2>2. Upsert(job[r].cycle, job[r].payee, job[r].work)
      BY <1>5 DEF SaveAndGoOn
    <2>3. QED
      BY <2>1, <2>2 DEF Upsert, TypeOK
  <1>6. ASSUME NEW r \in Requests, ProcessStep(r),
               ~ UpsertRestaurantSettlement(r), ~ UpsertDeliverySettlement(r)
        PROVE  row' = row
    BY <1>6 DEF ProcessStep, ProcessCycle, CheckRestaurants, CheckPartners,
                StartProcessing, CompleteProcessing,
                ListRestaurantsWithActivity, ListPartnersWithActivity, ProcessRestaurant,
                ProcessPartner, Compute
  <1>7. QED
    BY <1>1, <1>2, <1>3, <1>4, <1>5, <1>6
    DEF Next, PayStep, PayRestaurantSettlement, PayDeliverySettlement,
        MarkRestaurantSettlementPaid, MarkDeliverySettlementPaid,
        UpsertRestaurantSettlement, UpsertDeliverySettlement

\* A run that is about to save has just summed up what it saves.
LEMMA SaveSteps ==
    ASSUME TypeOK, About, WindowInv, [Next]_vars, NEW r \in Requests,
           job'[r] # job[r], job'[r] # NoJob, job'[r].step = "save"
    PROVE  /\ job'[r].cycle \in Cycles /\ job'[r].payee \in Payees
           /\ job'[r].work \in SUBSET Work
           /\ \A w \in job'[r].work : Worked(job'[r].cycle, job'[r].payee, w)
  <1>1. ASSUME WorldStep \/ CycleStep \/ RegisterRestaurantPayoutAccount
               \/ RegisterPartnerPayoutAccount \/ UNCHANGED vars
        PROVE  FALSE
    BY <1>1 DEF WorldStep, NextDay, Deliver, Captured, Withdraw, CycleStep, OpenCycle, vars,
                RegisterRestaurantPayoutAccount, RegisterPartnerPayoutAccount,
                RegisterPayoutAccount
  <1>2. ASSUME NEW q \in Requests, NEW newJob, Become(q, newJob)
        PROVE  newJob # NoJob /\ newJob.step = "save"
    BY <1>2 DEF Become, TypeOK
  <1>3. ASSUME NEW q \in Requests,
               \/ PayStep(q) \/ Abort(q)
               \/ \E c \in Cycles : ProcessCycle(q, c)
               \/ CheckRestaurants(q) \/ CheckPartners(q) \/ StartProcessing(q)
               \/ ListRestaurantsWithActivity(q) \/ ListPartnersWithActivity(q)
               \/ UpsertRestaurantSettlement(q) \/ UpsertDeliverySettlement(q)
               \/ CompleteProcessing(q)
        PROVE  FALSE
    <2>1. CASE CheckRestaurants(q) \/ CheckPartners(q) \/ StartProcessing(q)
      <3>1. ~ Free(q) /\ job[q] \in Running
        BY <2>1, JobAt DEF CheckRestaurants, CheckPartners, StartProcessing, At, Free
      <3>2. \/ Become(q, NoJob)
            \/ \E step \in {"checkPartners", "start", "list"} :
                 Become(q, [job[q] EXCEPT !.step = step])
        BY <2>1 DEF CheckRestaurants, CheckPartners, StartProcessing, Goto
      <3>3. \A step \in {"checkPartners", "start", "list"} :
              [job[q] EXCEPT !.step = step].step = step
        BY <3>1 DEF Running
      <3>4. QED
        BY <1>2, <3>2, <3>3
    <2>2. CASE PayStep(q)
      <3>1. ASSUME NEW c \in Cycles, NEW p \in Payees, BeginPay(q, c, p) PROVE FALSE
        <4>1. Become(q, [step |-> "mark", cycle |-> c, payee |-> p, work |-> row[c][p].work])
          BY <3>1 DEF BeginPay
        <4>2. QED
          BY <1>2, <4>1
      <3>2. ASSUME MarkPaid(q) PROVE FALSE
        <4>1. Become(q, NoJob)
          BY <3>2 DEF MarkPaid
        <4>2. QED
          BY <1>2, <4>1
      <3>3. QED
        BY <2>2, <3>1, <3>2
        DEF PayStep, PayRestaurantSettlement, PayDeliverySettlement,
            MarkRestaurantSettlementPaid, MarkDeliverySettlementPaid
    <2>3. CASE Abort(q) \/ CompleteProcessing(q)
      BY <1>2, <2>3 DEF Abort, CompleteProcessing
    <2>4. ASSUME NEW c \in Cycles, ProcessCycle(q, c) PROVE FALSE
      <3>1. Become(q, [step |-> "checkRestaurants", cycle |-> c])
        BY <2>4 DEF ProcessCycle
      <3>2. QED
        BY <1>2, <3>1
    <2>5. CASE ListRestaurantsWithActivity(q) \/ ListPartnersWithActivity(q)
      <3>1. \E step \in {"restaurants", "partners"} : \E todo :
              Become(q, [step |-> step, cycle |-> job[q].cycle, todo |-> todo])
        BY <2>5 DEF ListRestaurantsWithActivity, ListPartnersWithActivity
      <3>2. QED
        BY <1>2, <3>1
    <2>6. CASE UpsertRestaurantSettlement(q) \/ UpsertDeliverySettlement(q)
      <3>1. \E step \in {"restaurants", "partners"} :
              Become(q, [step |-> step, cycle |-> job[q].cycle, todo |-> job[q].todo])
        BY <2>6 DEF UpsertRestaurantSettlement, UpsertDeliverySettlement, SaveAndGoOn
      <3>2. QED
        BY <1>2, <3>1
    <2>7. QED
      BY <1>3, <2>1, <2>2, <2>3, <2>4, <2>5, <2>6
  <1>4. ASSUME NEW q \in Requests, NEW p \in Payees,
               ~ Free(q), job[q].step \in {"restaurants", "partners"},
               NEW work \in SUBSET Work, Compute(q, p, work),
               \A w \in work : Worked(job[q].cycle, p, w)
        PROVE  /\ job'[r].cycle \in Cycles /\ job'[r].payee \in Payees
               /\ job'[r].work \in SUBSET Work
               /\ \A w \in job'[r].work : Worked(job'[r].cycle, job'[r].payee, w)
    <2>1. q = r
      BY <1>4 DEF Compute, Become, TypeOK
    <2>2. job[q] \in Computing /\ job[q].cycle \in Cycles
      BY <1>4, JobAt
    <2>3. work # {}
      BY <1>4, <2>1, <2>2 DEF Compute, Become, TypeOK, Computing
    <2>4. job'[r] = [step |-> "save", cycle |-> job[r].cycle, todo |-> job[r].todo \ {p},
                     payee |-> p, work |-> work]
      BY <1>4, <2>1, <2>3 DEF Compute, Become, TypeOK
    <2>5. QED
      BY <1>4, <2>1, <2>2, <2>4
  <1>5. ASSUME NEW q \in Requests, NEW p \in Restaurants, ProcessRestaurant(q, p)
        PROVE  \E work \in SUBSET Work : /\ Compute(q, p, work)
                                         /\ \A w \in work : Worked(job[q].cycle, p, w)
    <2>1. SumSettlementData(job[q].cycle, p) \in SUBSET Work
      BY DEF SumSettlementData, Work
    <2>2. cycle[job[q].cycle] # None
      BY <1>5 DEF ProcessRestaurant, At, About, Free
    <2>3. job[q].cycle \in Cycles
      BY <1>5, JobAt DEF ProcessRestaurant, At, Free
    <2>4. QED
      BY <1>5, <2>1, <2>2, <2>3, WithinFell
      DEF ProcessRestaurant, SumSettlementData, Worked, WindowInv
  <1>6. ASSUME NEW q \in Requests, NEW p \in Partners, ProcessPartner(q, p)
        PROVE  \E work \in SUBSET Work : /\ Compute(q, p, work)
                                         /\ \A w \in work : Worked(job[q].cycle, p, w)
    <2>1. CountDelivered(job[q].cycle, p) \in SUBSET Work
      BY DEF CountDelivered, Work
    <2>2. cycle[job[q].cycle] # None
      BY <1>6 DEF ProcessPartner, At, About, Free
    <2>3. job[q].cycle \in Cycles
      BY <1>6, JobAt DEF ProcessPartner, At, Free
    <2>4. QED
      BY <1>6, <2>1, <2>2, <2>3, WithinFell
      DEF ProcessPartner, CountDelivered, Worked, WindowInv
  <1>7. \A q \in Requests, p \in Payees :
          (p \in Restaurants /\ ProcessRestaurant(q, p)) \/ (p \in Partners /\ ProcessPartner(q, p))
            => ~ Free(q) /\ job[q].step \in {"restaurants", "partners"}
    BY DEF ProcessRestaurant, ProcessPartner, At, Free
  <1>8. Restaurants \subseteq Payees /\ Partners \subseteq Payees
    BY DEF Payees
  <1>9. QED
    BY <1>1, <1>3, <1>4, <1>5, <1>6, <1>7, <1>8 DEF Next, ProcessStep

LEMMA WindowKept == TypeOK /\ About /\ WindowInv /\ [Next]_vars => WindowInv'
  <1> SUFFICES ASSUME TypeOK, About, WindowInv, [Next]_vars PROVE WindowInv'
    OBVIOUS
  <1>1. ASSUME NEW c \in Cycles, NEW p \in Payees, row'[c][p] # None
        PROVE  cycle'[c] # None /\ \A w \in row'[c][p].work : Worked(c, p, w)'
    <2>1. CASE row'[c][p] = row[c][p]
      <3>1. row[c][p].work \in SUBSET Work
        <4>1. row[c][p] \in Settlement
          BY <1>1, <2>1 DEF TypeOK
        <4>2. QED
          BY <4>1 DEF Settlement
      <3>2. cycle[c] # None /\ \A w \in row[c][p].work : Worked(c, p, w)
        BY <1>1, <2>1 DEF WindowInv
      <3>3. QED
        BY <2>1, <3>1, <3>2, WorkedStays, WindowStays
    <2>2. CASE row'[c][p] # row[c][p]
      <3>1. PICK r \in Requests :
             /\ ~ Free(r) /\ job[r].cycle = c /\ job[r].payee = p
             /\ job[r].step \in {"save", "mark"}
             /\ job[r].step = "save" => row'[c][p].work = job[r].work
             /\ job[r].step = "mark" => row[c][p] # None /\ row'[c][p].work = row[c][p].work
        <4>1. PICK r \in Requests :
             /\ ~ Free(r) /\ job[r].cycle = c /\ job[r].payee = p
             /\ \/ /\ job[r].step = "save"
                   /\ row'[c][p] =
                        [work |-> job[r].work,
                         status |-> IF row[c][p] = None THEN "pending" ELSE row[c][p].status]
                \/ /\ job[r].step = "mark"
                   /\ row[c][p] # None
                   /\ row'[c][p] = [work |-> row[c][p].work, status |-> "paid"]
          BY <2>2, RowSteps
        <4>2. QED
          BY <4>1
      <3>2. cycle[c] # None /\ \A w \in row'[c][p].work : w \in Work /\ Worked(c, p, w)
        <4>1. CASE job[r].step = "save"
          BY <3>1, <4>1, JobAt DEF WindowInv, About
        <4>2. CASE job[r].step = "mark"
          <5>1. row[c][p] \in Settlement
            BY <3>1, <4>2 DEF TypeOK
          <5>2. row[c][p].work \in SUBSET Work
            BY <5>1 DEF Settlement
          <5>3. QED
            BY <3>1, <4>2, <5>2 DEF WindowInv
        <4>3. QED
          BY <3>1, <4>1, <4>2
      <3>3. QED
        BY <3>2, WorkedStays, WindowStays
    <2>3. QED
      BY <2>1, <2>2
  <1>2. ASSUME NEW r \in Requests, job'[r] # NoJob, job'[r].step = "save"
        PROVE  (\A w \in job[r].work : Worked(job[r].cycle, job[r].payee, w))'
    <2>1. /\ job'[r].cycle \in Cycles /\ job'[r].payee \in Payees
          /\ job'[r].work \in SUBSET Work
          /\ \A w \in job'[r].work : Worked(job'[r].cycle, job'[r].payee, w)
      <3>1. CASE job'[r] = job[r]
        BY <1>2, <3>1, JobAt DEF WindowInv, Free
      <3>2. CASE job'[r] # job[r]
        BY <1>2, <3>2, SaveSteps
      <3>3. QED
        BY <3>1, <3>2
    <2>2. ASSUME NEW c \in Cycles, NEW p \in Payees, NEW w \in Work, Worked(c, p, w)
          PROVE  Worked(c, p, w)'
      BY <2>2, WorkedStays
    <2>3. QED
      BY <2>1, <2>2 DEF Worked
  <1>3. Stamped'
    BY StampedStays DEF WindowInv
  <1>4. QED
    BY <1>1, <1>2, <1>3 DEF WindowInv, Free

-----------------------------------------------------------------------------
(***************************************************************************)
(* Paid rows.  A request is a run or a payout of its cycle.                *)
(***************************************************************************)

IsRun(r, c) == ~ Free(r) /\ job[r].step # "mark" /\ job[r].cycle = c

IsPayout(r, c, p) ==
    ~ Free(r) /\ job[r].step = "mark" /\ job[r].cycle = c /\ job[r].payee = p

\* The steps a run can be at although payee p has been paid: it has not read
\* p's row yet.
Allows(step, p) == step = "checkRestaurants" \/ (step = "checkPartners" /\ p \in Partners)

\* Only unpaid rows are being paid, each by one request.
PaidAlone(c, p) ==
    /\ \A r \in Requests : IsPayout(r, c, p) =>
         ~ IsPaid(c, p) /\ \A q \in Requests : IsPayout(q, c, p) => q = r
    /\ Len(sent[c][p]) <= 1

\* Runs and payouts of the cycle do not meet, so that a row that is being paid
\* or has been paid is the row the administrator saw.
Apart(c, p) ==
    /\ \A r, q \in Requests : ~ (IsRun(r, c) /\ IsPayout(q, c, p))
    /\ \A r \in Requests : IsPayout(r, c, p) => job[r].work = row[c][p].work
    /\ IsPaid(c, p) =>
         /\ \A r \in Requests : IsRun(r, c) => Allows(job[r].step, p)
         /\ \A i \in DOMAIN sent[c][p] : sent[c][p][i] = row[c][p].work

PayoutInv ==
    \A c \in Cycles, p \in Payees :
      /\ sent[c][p] # <<>> => IsPaid(c, p)
      /\ "two payouts" \notin overlaps[c] => PaidAlone(c, p)
      /\ "run and payout" \notin overlaps[c] => Apart(c, p)

\* Runs and Payouts, by step.
LEMMA RunsAndPayouts ==
    ASSUME TypeOK, NEW c \in Cycles
    PROVE  /\ Runs(c) = {r \in Requests : IsRun(r, c)}
           /\ Payouts(c) = {r \in Requests : \E p \in Payees : IsPayout(r, c, p)}
  <1>1. ASSUME NEW r \in Requests, ~ Free(r)
        PROVE  /\ (job[r] \in Running \cup Computing) <=> job[r].step # "mark"
               /\ job[r] \in Paying <=> job[r].step = "mark"
               /\ job[r].step = "mark" => job[r].payee \in Payees
    <2>1. job[r] \in Running \/ job[r] \in Computing \/ job[r] \in Paying
      BY <1>1, JobAt DEF Job
    <2>2. QED
      BY <1>1, <2>1, JobAt
  <1>2. NoJob \notin Running \cup Computing \cup Paying
    BY DEF Job
  <1>3. QED
    BY <1>1, <1>2 DEF Runs, Payouts, IsRun, IsPayout, Free

\* One step of a run that touches no row: it ends, or it goes on to a step that
\* the payees paid so far allow.
MovesOn(r) ==
    /\ ~ Free(r)
    /\ \E newJob : /\ Become(r, newJob)
                   /\ newJob # NoJob =>
                        /\ job[r].step # "mark" /\ newJob.step # "mark"
                        /\ newJob.cycle = job[r].cycle
                        /\ \A p \in Payees : Allows(job[r].step, p) /\ IsPaid(job[r].cycle, p)
                                             => Allows(newJob.step, p)
    /\ UNCHANGED <<row, sent, overlaps>>

LEMMA Moves ==
    ASSUME TypeOK, NEW r \in Requests,
           \/ CheckRestaurants(r) \/ CheckPartners(r) \/ StartProcessing(r)
           \/ ListRestaurantsWithActivity(r) \/ ListPartnersWithActivity(r)
           \/ \E p \in Restaurants : ProcessRestaurant(r, p)
           \/ \E p \in Partners : ProcessPartner(r, p)
           \/ CompleteProcessing(r) \/ Abort(r)
    PROVE  MovesOn(r)
  <1>1. ASSUME NEW step \in {"checkPartners", "start", "list"}, ~ Free(r), job[r] \in Running
        PROVE  /\ [job[r] EXCEPT !.step = step].step = step
               /\ [job[r] EXCEPT !.step = step].cycle = job[r].cycle
               /\ [job[r] EXCEPT !.step = step] # NoJob
               /\ job[r].step # "mark"
    BY <1>1 DEF Running, Job
  <1>2. CASE CheckRestaurants(r)
    <2>1. ~ Free(r) /\ job[r] \in Running /\ job[r].step = "checkRestaurants"
      BY <1>2, JobAt DEF CheckRestaurants, At, Free
    <2>2. \/ Become(r, NoJob)
          \/ /\ NoneIsPaid(job[r].cycle, Restaurants)
             /\ Become(r, [job[r] EXCEPT !.step = "checkPartners"])
      BY <1>2 DEF CheckRestaurants, Goto
    <2>3. UNCHANGED <<row, sent, overlaps>>
      BY <1>2 DEF CheckRestaurants
    <2>4. NoneIsPaid(job[r].cycle, Restaurants) =>
            \A p \in Payees : IsPaid(job[r].cycle, p) => p \in Partners
      BY DEF NoneIsPaid, Payees
    <2>5. QED
      BY <1>1, <2>1, <2>2, <2>3, <2>4 DEF MovesOn, Allows
  <1>3. CASE CheckPartners(r)
    <2>1. ~ Free(r) /\ job[r] \in Running /\ job[r].step = "checkPartners"
      BY <1>3, JobAt DEF CheckPartners, At, Free
    <2>2. \/ Become(r, NoJob)
          \/ /\ NoneIsPaid(job[r].cycle, Partners)
             /\ Become(r, [job[r] EXCEPT !.step = "start"])
      BY <1>3 DEF CheckPartners, Goto
    <2>3. UNCHANGED <<row, sent, overlaps>>
      BY <1>3 DEF CheckPartners
    <2>4. NoneIsPaid(job[r].cycle, Partners) =>
            \A p \in Payees : IsPaid(job[r].cycle, p) => p \notin Partners
      BY DEF NoneIsPaid, Payees
    <2>5. QED
      BY <1>1, <2>1, <2>2, <2>3, <2>4 DEF MovesOn, Allows
  <1>4. CASE StartProcessing(r)
    <2>1. ~ Free(r) /\ job[r] \in Running /\ job[r].step = "start"
      BY <1>4, JobAt DEF StartProcessing, At, Free
    <2>2. Become(r, [job[r] EXCEPT !.step = "list"]) /\ UNCHANGED <<row, sent, overlaps>>
      BY <1>4 DEF StartProcessing, Goto
    <2>3. QED
      BY <1>1, <2>1, <2>2 DEF MovesOn, Allows
  <1>5. CASE ListRestaurantsWithActivity(r) \/ ListPartnersWithActivity(r)
    <2>1. /\ ~ Free(r) /\ job[r].step \in {"list", "restaurants"}
          /\ UNCHANGED <<row, sent, overlaps>>
          /\ \E step \in {"restaurants", "partners"} : \E todo :
                Become(r, [step |-> step, cycle |-> job[r].cycle, todo |-> todo])
      BY <1>5 DEF ListRestaurantsWithActivity, ListPartnersWithActivity, At, Free
    <2>2. QED
      BY <2>1 DEF MovesOn, Allows
  <1>6. ASSUME NEW p, NEW work, ~ Free(r), job[r].step \in {"restaurants", "partners"},
               Compute(r, p, work)
        PROVE  MovesOn(r)
    <2>1. job[r] \in Computing /\ job[r].step \notin {"mark", "checkRestaurants", "checkPartners"}
      BY <1>6, JobAt
    <2>2. CASE Become(r, [job[r] EXCEPT !.todo = @ \ {p}])
      <3>1. /\ [job[r] EXCEPT !.todo = @ \ {p}].step = job[r].step
            /\ [job[r] EXCEPT !.todo = @ \ {p}].cycle = job[r].cycle
        BY <2>1 DEF Computing
      <3>2. UNCHANGED <<row, sent, overlaps>>
        BY <1>6 DEF Compute
      <3>3. QED
        BY <1>6, <2>1, <2>2, <3>1, <3>2 DEF MovesOn, Allows
    <2>3. CASE Become(r, [step |-> "save", cycle |-> job[r].cycle, todo |-> job[r].todo \ {p},
                          payee |-> p, work |-> work])
      <3>1. UNCHANGED <<row, sent, overlaps>>
        BY <1>6 DEF Compute
      <3>2. QED
        BY <1>6, <2>1, <2>3, <3>1 DEF MovesOn, Allows
    <2>4. QED
      BY <1>6, <2>2, <2>3 DEF Compute
  <1>7. CASE \/ \E p \in Restaurants : ProcessRestaurant(r, p)
             \/ \E p \in Partners : ProcessPartner(r, p)
    BY <1>6, <1>7 DEF ProcessRestaurant, ProcessPartner, At, Free
  <1>8. CASE CompleteProcessing(r) \/ Abort(r)
    <2>1. ~ Free(r) /\ Become(r, NoJob) /\ UNCHANGED <<row, sent, overlaps>>
      BY <1>8 DEF CompleteProcessing, Abort, At, Free
    <2>2. QED
      BY <2>1 DEF MovesOn
  <1>9. QED
    BY <1>2, <1>3, <1>4, <1>5, <1>7, <1>8

LEMMA MovePays ==
    ASSUME TypeOK, PayoutInv, NEW r \in Requests, MovesOn(r)
    PROVE  PayoutInv'
  <1>1. UNCHANGED <<row, sent, overlaps>>
    BY DEF MovesOn
  <1>2. ASSUME NEW q \in Requests, NEW c \in Cycles, NEW p \in Payees
        PROVE  /\ IsPayout(q, c, p)' => IsPayout(q, c, p) /\ job'[q] = job[q]
               /\ IsRun(q, c)' => IsRun(q, c)
               /\ IsRun(q, c)' /\ Allows(job[q].step, p) /\ IsPaid(c, p)
                    => Allows(job'[q].step, p)
    BY DEF MovesOn, Become, IsPayout, IsRun, Free, TypeOK
  <1>3. ASSUME NEW c \in Cycles, NEW p \in Payees
        PROVE  /\ IsPaid(c, p)' <=> IsPaid(c, p)
               /\ PaidAlone(c, p) => PaidAlone(c, p)'
               /\ Apart(c, p) => Apart(c, p)'
    <2>1. IsPaid(c, p)' <=> IsPaid(c, p)
      BY <1>1 DEF IsPaid
    <2>2. ASSUME PaidAlone(c, p) PROVE PaidAlone(c, p)'
      BY <1>1, <1>2, <2>1, <2>2 DEF PaidAlone
    <2>3. ASSUME Apart(c, p) PROVE Apart(c, p)'
      BY <1>1, <1>2, <2>1, <2>3 DEF Apart
    <2>4. QED
      BY <2>1, <2>2, <2>3
  <1>4. QED
    BY <1>1, <1>3 DEF PayoutInv

LEMMA RunPays ==
    ASSUME TypeOK, PayoutInv, NEW r \in Requests, NEW c \in Cycles, ProcessCycle(r, c)
    PROVE  PayoutInv'
  <1>1. UNCHANGED <<row, sent>> /\ Free(r)
    BY DEF ProcessCycle
  <1>2. \A d \in Cycles : overlaps[d] \subseteq overlaps'[d]
    BY DEF ProcessCycle, Meets, TypeOK
  <1>3. "run and payout" \notin overlaps'[c] =>
          \A q \in Requests, p \in Payees : ~ IsPayout(q, c, p)
    <2>1. "run and payout" \notin overlaps'[c] => Payouts(c) = {}
      BY DEF ProcessCycle, Meets, TypeOK
    <2>2. QED
      BY <2>1, RunsAndPayouts
  <1>4. Become(r, [step |-> "checkRestaurants", cycle |-> c])
    BY DEF ProcessCycle
  <1>5. ASSUME NEW q \in Requests, NEW d \in Cycles, NEW p \in Payees
        PROVE  /\ IsPayout(q, d, p)' => IsPayout(q, d, p) /\ job'[q] = job[q]
               /\ IsRun(q, d)' =>
                    \/ IsRun(q, d) /\ job'[q] = job[q]
                    \/ d = c /\ Allows(job'[q].step, p)
    <2>1. CASE q = r
      <3>1. job'[r] = [step |-> "checkRestaurants", cycle |-> c]
        BY <1>4 DEF Become, TypeOK
      <3>2. QED
        BY <2>1, <3>1 DEF IsPayout, IsRun, Free, Allows
    <2>2. CASE q # r
      <3>1. job'[q] = job[q]
        BY <1>4, <2>2 DEF Become, TypeOK
      <3>2. IsRun(q, d)' <=> IsRun(q, d)
        BY <3>1 DEF IsRun, Free
      <3>3. IsPayout(q, d, p)' <=> IsPayout(q, d, p)
        BY <3>1 DEF IsPayout, Free
      <3>4. QED
        BY <3>1, <3>2, <3>3
    <2>3. QED
      BY <2>1, <2>2
  <1>6. ASSUME NEW d \in Cycles, NEW p \in Payees, "run and payout" \notin overlaps'[d]
        PROVE  Apart(d, p)'
    <2>1. Apart(d, p)
      BY <1>2, <1>6 DEF PayoutInv
    <2>2. d = c => \A q \in Requests : ~ IsPayout(q, c, p)
      BY <1>3, <1>6
    <2>3. QED
      BY <1>1, <1>5, <2>1, <2>2 DEF Apart, IsPaid
  <1>7. ASSUME NEW d \in Cycles, NEW p \in Payees, "two payouts" \notin overlaps'[d]
        PROVE  PaidAlone(d, p)'
    <2>1. PaidAlone(d, p)
      BY <1>2, <1>7 DEF PayoutInv
    <2>2. QED
      BY <1>1, <1>5, <2>1 DEF PaidAlone, IsPaid
  <1>8. ASSUME NEW d \in Cycles, NEW p \in Payees
        PROVE  sent'[d][p] # <<>> => IsPaid(d, p)'
    BY <1>1 DEF PayoutInv, IsPaid
  <1>9. QED
    BY <1>6, <1>7, <1>8 DEF PayoutInv

LEMMA BeginPays ==
    ASSUME TypeOK, PayoutInv, NEW r \in Requests, NEW c \in Cycles, NEW p \in Payees,
           BeginPay(r, c, p)
    PROVE  PayoutInv'
  <1>1. UNCHANGED <<row, sent>> /\ Free(r) /\ Unpaid(c, p)
    BY DEF BeginPay
  <1>2. Meets(c, (IF Runs(c) # {} THEN {"run and payout"} ELSE {})
                   \cup (IF \E other \in Payouts(c) : job[other].payee = p
                         THEN {"two payouts"} ELSE {}))
    BY DEF BeginPay
  <1>3. /\ \A d \in Cycles : overlaps[d] \subseteq overlaps'[d]
        /\ "run and payout" \notin overlaps'[c] => Runs(c) = {}
        /\ "two payouts" \notin overlaps'[c] => ~ \E other \in Payouts(c) : job[other].payee = p
    BY <1>2 DEF Meets, TypeOK
  <1>4. /\ "run and payout" \notin overlaps'[c] => \A q \in Requests : ~ IsRun(q, c)
        /\ "two payouts" \notin overlaps'[c] => \A q \in Requests : ~ IsPayout(q, c, p)
    <2>1. Runs(c) = {q \in Requests : IsRun(q, c)}
      BY RunsAndPayouts
    <2>2. \A q \in Requests : IsPayout(q, c, p) => q \in Payouts(c) /\ job[q].payee = p
      BY RunsAndPayouts DEF IsPayout
    <2>3. QED
      BY <1>3, <2>1, <2>2
  <1>5. Become(r, [step |-> "mark", cycle |-> c, payee |-> p, work |-> row[c][p].work])
    BY DEF BeginPay
  <1>6. ASSUME NEW q \in Requests, NEW d \in Cycles, NEW x \in Payees
        PROVE  /\ IsRun(q, d)' => IsRun(q, d) /\ job'[q] = job[q]
               /\ IsPayout(q, d, x)' =>
                    \/ IsPayout(q, d, x) /\ job'[q] = job[q]
                    \/ q = r /\ d = c /\ x = p /\ job'[q].work = row[c][p].work
    BY <1>5 DEF Become, IsPayout, IsRun, Free, TypeOK
  <1>7. ASSUME NEW d \in Cycles, NEW x \in Payees, "run and payout" \notin overlaps'[d]
        PROVE  Apart(d, x)'
    <2>1. Apart(d, x)
      BY <1>3, <1>7 DEF PayoutInv
    <2>2. d = c => \A q \in Requests : ~ IsRun(q, c)
      BY <1>4, <1>7
    <2>3. QED
      BY <1>1, <1>6, <2>1, <2>2 DEF Apart, IsPaid
  <1>8. ASSUME NEW d \in Cycles, NEW x \in Payees, "two payouts" \notin overlaps'[d]
        PROVE  PaidAlone(d, x)'
    <2>1. PaidAlone(d, x)
      BY <1>3, <1>8 DEF PayoutInv
    <2>2. d = c /\ x = p => (\A q \in Requests : ~ IsPayout(q, c, p)) /\ ~ IsPaid(c, p)
      BY <1>1, <1>4, <1>8 DEF Unpaid, IsPaid
    <2>3. QED
      BY <1>1, <1>6, <2>1, <2>2 DEF PaidAlone, IsPaid
  <1>9. QED
    BY <1>1, <1>7, <1>8 DEF PayoutInv, IsPaid

\* Saving a row: the run is past its checks, so that no row of its cycle is
\* paid, or a payout has met a run.
LEMMA SavePays ==
    ASSUME TypeOK, PayoutInv, NEW r \in Requests, NEW payees,
           NEW step \in {"restaurants", "partners"}, SaveAndGoOn(r, payees, step),
           NEW c, NEW p, job[r].cycle = c, job[r].payee = p
    PROVE  PayoutInv'
  <1>1. /\ ~ Free(r) /\ job[r].step = "save" /\ c \in Cycles /\ p \in Payees
        /\ UNCHANGED <<sent, overlaps>>
    BY JobAt DEF SaveAndGoOn, At, Free
  <1>2. Become(r, [step |-> step, cycle |-> c, todo |-> job[r].todo])
    BY DEF SaveAndGoOn
  <1>3. Upsert(c, p, job[r].work)
    BY DEF SaveAndGoOn
  <1>4. \A d \in Cycles, x \in Payees :
          /\ IsPaid(d, x)' <=> IsPaid(d, x)
          /\ row'[d][x] # row[d][x] => d = c
    <2>1. ASSUME NEW d \in Cycles, NEW x \in Payees, d # c \/ x # p
          PROVE  row'[d][x] = row[d][x]
      BY <1>1, <1>3, <2>1 DEF Upsert, TypeOK
    <2>2. row'[c][p] = [work |-> job[r].work,
                        status |-> IF row[c][p] = None THEN "pending" ELSE row[c][p].status]
      BY <1>1, <1>3 DEF Upsert, TypeOK
    <2>3. row'[c][p] # None
      <3>1. (IF row[c][p] = None THEN "pending" ELSE row[c][p].status) \in SettlementStatus
        BY <1>1 DEF TypeOK, Settlement, SettlementStatus
      <3>2. job[r].work \in SUBSET Work
        BY <1>1, JobAt
      <3>3. row'[c][p] \in Settlement
        BY <2>2, <3>1, <3>2 DEF Settlement
      <3>4. QED
        BY <3>3
    <2>4. IsPaid(c, p)' <=> IsPaid(c, p)
      BY <2>2, <2>3 DEF IsPaid
    <2>5. QED
      BY <1>1, <2>1, <2>4 DEF IsPaid
  <1>5. IsRun(r, c) /\ \A x \in Payees : ~ Allows(job[r].step, x)
    BY <1>1 DEF IsRun, Allows
  <1>6. ASSUME NEW q \in Requests, NEW d \in Cycles, NEW x \in Payees
        PROVE  /\ IsPayout(q, d, x)' => IsPayout(q, d, x) /\ job'[q] = job[q]
               /\ IsRun(q, d)' => IsRun(q, d) /\ (job'[q] = job[q] \/ q = r)
    BY <1>1, <1>2 DEF Become, IsPayout, IsRun, Free, TypeOK
  <1>7. ASSUME NEW d \in Cycles, NEW x \in Payees, "run and payout" \notin overlaps'[d]
        PROVE  Apart(d, x)'
    <2>1. Apart(d, x)
      BY <1>1, <1>7 DEF PayoutInv
    <2>2. CASE d = c
      <3>1. (\A q \in Requests : ~ IsPayout(q, c, x)) /\ ~ IsPaid(c, x)
        BY <1>5, <2>1, <2>2 DEF Apart
      <3>2. QED
        BY <1>1, <1>4, <1>6, <2>2, <3>1 DEF Apart
    <2>3. CASE d # c
      <3>1. row'[d][x] = row[d][x] /\ \A q \in Requests : IsRun(q, d)' => job'[q] = job[q]
        BY <1>1, <1>4, <1>6, <2>3 DEF IsRun
      <3>2. QED
        BY <1>1, <1>4, <1>6, <2>1, <3>1 DEF Apart
    <2>4. QED
      BY <2>2, <2>3
  <1>8. ASSUME NEW d \in Cycles, NEW x \in Payees, "two payouts" \notin overlaps'[d]
        PROVE  PaidAlone(d, x)'
    <2>1. PaidAlone(d, x)
      BY <1>1, <1>8 DEF PayoutInv
    <2>2. QED
      BY <1>1, <1>4, <1>6, <2>1 DEF PaidAlone
  <1>9. ASSUME NEW d \in Cycles, NEW x \in Payees
        PROVE  sent'[d][x] # <<>> => IsPaid(d, x)'
    BY <1>1, <1>4 DEF PayoutInv
  <1>10. QED
    BY <1>7, <1>8, <1>9 DEF PayoutInv

LEMMA MarkPays ==
    ASSUME TypeOK, About, PayoutInv, NEW r \in Requests, At(r, "mark"), MarkPaid(r),
           NEW c, NEW p, job[r].cycle = c, job[r].payee = p
    PROVE  PayoutInv'
  <1>1. /\ ~ Free(r) /\ job[r].step = "mark" /\ c \in Cycles /\ p \in Payees
        /\ job[r].work \in SUBSET Work
    BY JobAt DEF At, Free
  <1>2. row' = [row EXCEPT ![c][p].status = "paid"]
    BY DEF MarkPaid
  <1>3. sent' = [sent EXCEPT ![c][p] = Append(@, job[r].work)]
    BY DEF MarkPaid
  <1>4. Become(r, NoJob) /\ overlaps' = overlaps
    BY DEF MarkPaid
  <1>5. row[c][p] \in Settlement
    BY <1>1 DEF About, TypeOK
  <1>6. /\ row'[c][p].work = row[c][p].work
        /\ IsPaid(c, p)'
    <2>1. row'[c][p] = [row[c][p] EXCEPT !.status = "paid"]
      BY <1>1, <1>2 DEF TypeOK
    <2>2. row'[c][p] = [work |-> row[c][p].work, status |-> "paid"]
      BY <1>5, <2>1 DEF Settlement
    <2>3. row'[c][p] \in Settlement
      BY <1>5, <2>2 DEF Settlement, SettlementStatus
    <2>4. QED
      BY <2>2, <2>3 DEF IsPaid
  <1>7. \A d \in Cycles, x \in Payees : d # c \/ x # p =>
          row'[d][x] = row[d][x] /\ sent'[d][x] = sent[d][x]
    BY <1>1, <1>2, <1>3 DEF TypeOK
  <1>8. sent'[c][p] = Append(sent[c][p], job[r].work) /\ sent[c][p] \in Seq(SUBSET Work)
    BY <1>1, <1>3 DEF TypeOK
  <1>9. ASSUME NEW q \in Requests, NEW d \in Cycles, NEW x \in Payees
        PROVE  /\ IsPayout(q, d, x)' => IsPayout(q, d, x) /\ job'[q] = job[q] /\ q # r
               /\ IsRun(q, d)' => IsRun(q, d) /\ job'[q] = job[q]
    BY <1>1, <1>4 DEF Become, IsPayout, IsRun, Free, TypeOK
  <1>10. IsPayout(r, c, p)
    BY <1>1 DEF IsPayout
  <1>11. ASSUME "two payouts" \notin overlaps'[c] PROVE PaidAlone(c, p)'
    <2>1. PaidAlone(c, p)
      BY <1>1, <1>4, <1>11 DEF PayoutInv
    <2>2. sent[c][p] = <<>>
      BY <1>1, <1>10, <2>1 DEF PayoutInv, PaidAlone
    <2>3. Len(sent'[c][p]) <= 1
      BY <1>1, <1>8, <2>2
    <2>4. QED
      <3>1. \A q \in Requests : ~ IsPayout(q, c, p)'
        BY <1>1, <1>9, <1>10, <2>1 DEF PaidAlone
      <3>2. QED
        BY <2>3, <3>1 DEF PaidAlone
  <1>12. ASSUME "run and payout" \notin overlaps'[c] PROVE Apart(c, p)'
    <2>1. Apart(c, p)
      BY <1>1, <1>4, <1>12 DEF PayoutInv
    <2>2. \A q \in Requests : ~ IsRun(q, c)
      BY <1>10, <2>1 DEF Apart
    <2>3. \A i \in DOMAIN sent[c][p] : sent[c][p][i] = row[c][p].work
      <3>1. CASE IsPaid(c, p)
        BY <2>1, <3>1 DEF Apart
      <3>2. CASE ~ IsPaid(c, p)
        <4>1. sent[c][p] = <<>>
          BY <1>1, <3>2 DEF PayoutInv
        <4>2. QED
          BY <4>1
      <3>3. QED
        BY <3>1, <3>2
    <2>4. \A i \in DOMAIN sent'[c][p] : sent'[c][p][i] = row[c][p].work
      <3>1. job[r].work = row[c][p].work
        BY <1>1, <1>10, <2>1 DEF Apart
      <3>2. QED
        BY <1>1, <1>8, <2>3, <3>1
    <2>5. QED
      <3>1. \A q \in Requests : ~ IsRun(q, c)'
        BY <1>1, <1>9, <2>2
      <3>2. \A q \in Requests : IsPayout(q, c, p)' => job'[q].work = row'[c][p].work
        BY <1>1, <1>6, <1>9, <2>1 DEF Apart
      <3>3. QED
        BY <1>6, <2>4, <3>1, <3>2 DEF Apart
  <1>13. ASSUME NEW d \in Cycles, NEW x \in Payees, d # c \/ x # p
         PROVE  /\ sent'[d][x] # <<>> => IsPaid(d, x)'
                /\ "two payouts" \notin overlaps'[d] => PaidAlone(d, x)'
    <2>1. sent'[d][x] = sent[d][x] /\ (IsPaid(d, x)' <=> IsPaid(d, x))
      BY <1>7, <1>13 DEF IsPaid
    <2>2. sent[d][x] # <<>> => IsPaid(d, x)
      BY <1>13 DEF PayoutInv
    <2>3. ASSUME "two payouts" \notin overlaps'[d] PROVE PaidAlone(d, x)'
      <3>1. PaidAlone(d, x)
        BY <1>4, <1>13, <2>3 DEF PayoutInv
      <3>2. QED
        BY <1>9, <1>13, <2>1, <3>1 DEF PaidAlone
    <2>4. QED
      BY <2>1, <2>2, <2>3
  <1>14. ASSUME NEW d \in Cycles, NEW x \in Payees, d # c \/ x # p,
                "run and payout" \notin overlaps'[d]
         PROVE  Apart(d, x)'
    <2>1. /\ sent'[d][x] = sent[d][x] /\ row'[d][x] = row[d][x]
          /\ IsPaid(d, x)' <=> IsPaid(d, x)
      BY <1>7, <1>14 DEF IsPaid
    <2>2. Apart(d, x)
      BY <1>4, <1>14 DEF PayoutInv
    <2>3. QED
      BY <1>9, <1>14, <2>1, <2>2 DEF Apart
  <1>15. ASSUME NEW d \in Cycles, NEW x \in Payees
         PROVE  /\ sent'[d][x] # <<>> => IsPaid(d, x)'
                /\ "two payouts" \notin overlaps'[d] => PaidAlone(d, x)'
                /\ "run and payout" \notin overlaps'[d] => Apart(d, x)'
    <2>1. CASE d = c /\ x = p
      BY <1>6, <1>11, <1>12, <2>1
    <2>2. CASE d # c \/ x # p
      BY <1>13, <1>14, <2>2
    <2>3. QED
      BY <2>1, <2>2
  <1>16. QED
    BY <1>15 DEF PayoutInv

-----------------------------------------------------------------------------
(***************************************************************************)
(* Everything together.                                                    *)
(***************************************************************************)

\* A row is never removed.
LEMMA RowStays ==
    ASSUME TypeOK, About, [Next]_vars, NEW c \in Cycles, NEW p \in Payees, row[c][p] # None
    PROVE  row'[c][p] # None
  <1>1. CASE row'[c][p] = row[c][p]
    BY <1>1
  <1>2. CASE row'[c][p] # row[c][p]
    <2>1. PICK r \in Requests :
             /\ ~ Free(r) /\ job[r].cycle = c /\ job[r].payee = p
             /\ \/ /\ job[r].step = "save"
                   /\ row'[c][p] =
                        [work |-> job[r].work,
                         status |-> IF row[c][p] = None THEN "pending" ELSE row[c][p].status]
                \/ /\ job[r].step = "mark"
                   /\ row[c][p] # None
                   /\ row'[c][p] = [work |-> row[c][p].work, status |-> "paid"]
      BY <1>2, RowSteps
    <2>2. row[c][p].work \in SUBSET Work /\ row[c][p].status \in SettlementStatus
      <3>1. row[c][p] \in Settlement
        BY DEF TypeOK
      <3>2. QED
        BY <3>1 DEF Settlement
    <2>3. row'[c][p] \in Settlement
      BY <2>1, <2>2, JobAt DEF Settlement, SettlementStatus
    <2>4. QED
      BY <2>3
  <1>3. QED
    BY <1>1, <1>2

\* A slot is taken by a run of an existing cycle, by a payout of an existing row
\* or, if it was taken already, for the same cycle and never as a payout.
LEMMA JobSteps ==
    ASSUME TypeOK, [Next]_vars, NEW r \in Requests, job'[r] # job[r], job'[r] # NoJob
    PROVE  \/ \E c \in Cycles : /\ cycle[c] # None
                                /\ job'[r] = [step |-> "checkRestaurants", cycle |-> c]
           \/ \E c \in Cycles, p \in Payees :
                /\ row[c][p] # None
                /\ job'[r] = [step |-> "mark", cycle |-> c, payee |-> p, work |-> row[c][p].work]
           \/ ~ Free(r) /\ job'[r].cycle = job[r].cycle /\ job'[r].step # "mark"
  <1>1. ASSUME WorldStep \/ CycleStep \/ RegisterRestaurantPayoutAccount
               \/ RegisterPartnerPayoutAccount \/ UNCHANGED vars
        PROVE  FALSE
    BY <1>1 DEF WorldStep, NextDay, Deliver, Captured, Withdraw, CycleStep, OpenCycle, vars,
                RegisterRestaurantPayoutAccount, RegisterPartnerPayoutAccount,
                RegisterPayoutAccount
  <1>2. ASSUME NEW q \in Requests, NEW newJob, Become(q, newJob)
        PROVE  q = r /\ job'[r] = newJob
    BY <1>2 DEF Become, TypeOK
  <1>3. ASSUME NEW q \in Requests, NEW c \in Cycles, ProcessCycle(q, c)
        PROVE  cycle[c] # None /\ job'[r] = [step |-> "checkRestaurants", cycle |-> c]
    <2>1. Become(q, [step |-> "checkRestaurants", cycle |-> c]) /\ cycle[c] # None
      BY <1>3 DEF ProcessCycle, MayProcess
    <2>2. QED
      BY <1>2, <2>1
  <1>4. ASSUME NEW q \in Requests, NEW c \in Cycles, NEW p \in Payees, BeginPay(q, c, p)
        PROVE  /\ row[c][p] # None
               /\ job'[r] = [step |-> "mark", cycle |-> c, payee |-> p, work |-> row[c][p].work]
    <2>1. /\ Become(q, [step |-> "mark", cycle |-> c, payee |-> p, work |-> row[c][p].work])
          /\ row[c][p] # None
      BY <1>4 DEF BeginPay, Unpaid
    <2>2. QED
      BY <1>2, <2>1
  <1>5. ASSUME NEW q \in Requests, MarkPaid(q) PROVE FALSE
    <2>1. Become(q, NoJob)
      BY <1>5 DEF MarkPaid
    <2>2. QED
      BY <1>2, <2>1
  <1>6. ASSUME NEW q \in Requests, MovesOn(q)
        PROVE  ~ Free(r) /\ job'[r].cycle = job[r].cycle /\ job'[r].step # "mark"
    BY <1>2, <1>6 DEF MovesOn
  <1>7. ASSUME NEW q \in Requests, UpsertRestaurantSettlement(q) \/ UpsertDeliverySettlement(q)
        PROVE  ~ Free(r) /\ job'[r].cycle = job[r].cycle /\ job'[r].step # "mark"
    <2>1. /\ ~ Free(q)
          /\ \E step \in {"restaurants", "partners"} :
               Become(q, [step |-> step, cycle |-> job[q].cycle, todo |-> job[q].todo])
      BY <1>7 DEF UpsertRestaurantSettlement, UpsertDeliverySettlement, SaveAndGoOn, At, Free
    <2>2. QED
      BY <1>2, <2>1
  <1>8. QED
    BY <1>1, <1>3, <1>4, <1>5, <1>6, <1>7, Moves
    DEF Next, ProcessStep, PayStep, PayRestaurantSettlement, PayDeliverySettlement,
        MarkRestaurantSettlementPaid, MarkDeliverySettlementPaid

LEMMA AboutKept == TypeOK /\ About /\ WindowInv /\ [Next]_vars => About'
  <1> SUFFICES ASSUME TypeOK, About, WindowInv, [Next]_vars,
                      NEW r \in Requests, job'[r] # NoJob
               PROVE  /\ cycle'[job'[r].cycle] # None
                      /\ job'[r].step = "mark" => row'[job'[r].cycle][job'[r].payee] # None
    BY DEF About, Free
  <1>1. CASE job'[r] = job[r]
    BY <1>1, JobAt, RowStays, WindowStays DEF About, Free
  <1>2. ASSUME NEW c \in Cycles, cycle[c] # None,
               job'[r] = [step |-> "checkRestaurants", cycle |-> c]
        PROVE  cycle'[job'[r].cycle] # None /\ job'[r].step # "mark"
    BY <1>2, WindowStays
  <1>3. ASSUME NEW c \in Cycles, NEW p \in Payees, row[c][p] # None,
               job'[r] = [step |-> "mark", cycle |-> c, payee |-> p, work |-> row[c][p].work]
        PROVE  cycle'[job'[r].cycle] # None /\ row'[job'[r].cycle][job'[r].payee] # None
    BY <1>3, WindowStays, RowStays DEF WindowInv
  <1>4. CASE ~ Free(r) /\ job'[r].cycle = job[r].cycle /\ job'[r].step # "mark"
    BY <1>4, JobAt, WindowStays DEF About
  <1>5. QED
    BY <1>1, <1>2, <1>3, <1>4, JobSteps

LEMMA PayoutKept ==
    TypeOK /\ About /\ PayoutInv /\ [Next]_vars => PayoutInv'
  <1> SUFFICES ASSUME TypeOK, About, PayoutInv, [Next]_vars PROVE PayoutInv'
    OBVIOUS
  <1>1. ASSUME WorldStep \/ CycleStep \/ RegisterRestaurantPayoutAccount
               \/ RegisterPartnerPayoutAccount \/ UNCHANGED vars
        PROVE  PayoutInv'
    <2>1. UNCHANGED <<row, sent, overlaps, job>>
      BY <1>1 DEF WorldStep, NextDay, Deliver, Captured, Withdraw, CycleStep, OpenCycle, vars,
                  RegisterRestaurantPayoutAccount, RegisterPartnerPayoutAccount,
                  RegisterPayoutAccount
    <2>2. ASSUME NEW c \in Cycles, NEW p \in Payees
          PROVE  /\ IsPaid(c, p)' <=> IsPaid(c, p)
                 /\ PaidAlone(c, p)' <=> PaidAlone(c, p)
                 /\ Apart(c, p)' <=> Apart(c, p)
      <3>1. IsPaid(c, p)' <=> IsPaid(c, p)
        BY <2>1 DEF IsPaid
      <3>2. ASSUME NEW r \in Requests
            PROVE  /\ IsRun(r, c)' <=> IsRun(r, c)
                   /\ IsPayout(r, c, p)' <=> IsPayout(r, c, p)
        BY <2>1 DEF IsRun, IsPayout, Free
      <3>3. PaidAlone(c, p)' <=> PaidAlone(c, p)
        BY <2>1, <3>1, <3>2 DEF PaidAlone
      <3>4. Apart(c, p)' <=> Apart(c, p)
        BY <2>1, <3>1, <3>2 DEF Apart
      <3>5. QED
        BY <3>1, <3>3, <3>4
    <2>3. QED
      BY <2>1, <2>2 DEF PayoutInv
  <1>2. ASSUME NEW r \in Requests, ProcessStep(r) \/ Abort(r) PROVE PayoutInv'
    <2>1. ASSUME UpsertRestaurantSettlement(r) \/ UpsertDeliverySettlement(r) PROVE PayoutInv'
      BY <2>1, SavePays DEF UpsertRestaurantSettlement, UpsertDeliverySettlement
    <2>2. ASSUME NEW c \in Cycles, ProcessCycle(r, c) PROVE PayoutInv'
      BY <2>2, RunPays
    <2>3. QED
      BY <1>2, <2>1, <2>2, Moves, MovePays DEF ProcessStep
  <1>3. ASSUME NEW r \in Requests, PayStep(r) PROVE PayoutInv'
    BY <1>3, BeginPays, MarkPays
    DEF PayStep, PayRestaurantSettlement, PayDeliverySettlement,
        MarkRestaurantSettlementPaid, MarkDeliverySettlementPaid
  <1>4. QED
    BY <1>1, <1>2, <1>3 DEF Next

\* The inductive invariant.
SettlementInv == TypeOK /\ About /\ WindowInv /\ PayoutInv

LEMMA Starts == Init => SettlementInv
  <1>1. Init => About /\ WindowInv
    BY DEF Init, About, WindowInv, Stamped, Free
  <1>2. Init => PayoutInv
    BY DEF Init, PayoutInv, PaidAlone, Apart, IsPaid, IsPayout, IsRun, Free
  <1>3. QED
    BY <1>1, <1>2, InitTypes DEF SettlementInv

LEMMA Kept == SettlementInv /\ [Next]_vars => SettlementInv'
  BY StepTypes, AboutKept, WindowKept, PayoutKept DEF SettlementInv

LEMMA Invariant == Spec => []SettlementInv
  BY Starts, Kept, PTL DEF Spec

\* Every reachable state is well typed.
THEOREM TypeCorrect == Spec => []TypeOK
  BY Invariant, PTL DEF SettlementInv

\* A row holds only work its payee had done in the window of the cycle when it
\* was summed, although the row is saved later and an order may be delivered
\* again, on another day, at any time.
THEOREM WindowCorrect == Spec => []RowsStayInWindow
  <1>1. SettlementInv => RowsStayInWindow
    BY DEF SettlementInv, WindowInv, Worked, RowsStayInWindow
  <1>2. QED
    BY <1>1, Invariant, PTL

\* Nobody is paid twice for a cycle, and paid rows show what was paid, except
\* where two payouts of a row, or a run and a payout of the cycle, have met.
THEOREM PayoutsCorrect == Spec => []PayoutsMatchRows
  <1>1. SettlementInv => PayoutsMatchRows
    BY DEF SettlementInv, PayoutInv, PaidAlone, Apart, PayoutsMatchRows, PaidAsComputed, PaidOnce
  <1>2. QED
    BY <1>1, Invariant, PTL

\* Only a run that is past its checks, which no paid row allows, changes the
\* status of a cycle.
LEMMA StatusSteps ==
    ASSUME TypeOK, [Next]_vars, NEW c \in Cycles, cycle[c] # None, cycle'[c] # cycle[c]
    PROVE  \E r \in Requests : /\ IsRun(r, c)
                               /\ job[r].step \in {"start", "partners"}
  <1>1. ASSUME WorldStep \/ CycleStep \/ RegisterRestaurantPayoutAccount
               \/ RegisterPartnerPayoutAccount \/ UNCHANGED vars
        PROVE  FALSE
    BY <1>1 DEF WorldStep, NextDay, Deliver, Captured, Withdraw, CycleStep, OpenCycle, vars,
                CreateCycle, RegisterRestaurantPayoutAccount, RegisterPartnerPayoutAccount,
                RegisterPayoutAccount, TypeOK
  <1>2. ASSUME NEW r \in Requests, PayStep(r) \/ Abort(r) PROVE FALSE
    <2>1. cycle' = cycle
      BY <1>2 DEF PayStep, PayRestaurantSettlement, PayDeliverySettlement, BeginPay,
                  MarkRestaurantSettlementPaid, MarkDeliverySettlementPaid, MarkPaid, Abort
    <2>2. QED
      BY <2>1
  <1>3. ASSUME NEW r \in Requests, StartProcessing(r) \/ CompleteProcessing(r)
        PROVE  IsRun(r, c) /\ job[r].step \in {"start", "partners"}
    <2>1. /\ ~ Free(r) /\ job[r].step \in {"start", "partners"}
          /\ \E status : SetCycleStatus(job[r].cycle, status)
      BY <1>3 DEF StartProcessing, CompleteProcessing, At, Free
    <2>2. job[r].cycle = c
      BY <2>1 DEF SetCycleStatus, TypeOK
    <2>3. QED
      BY <2>1, <2>2 DEF IsRun
  <1>4. ASSUME NEW r \in Requests, ProcessStep(r),
               ~ StartProcessing(r), ~ CompleteProcessing(r)
        PROVE  cycle' = cycle
    BY <1>4 DEF ProcessStep, ProcessCycle, CheckRestaurants, CheckPartners,
                ListRestaurantsWithActivity, ListPartnersWithActivity, ProcessRestaurant,
                ProcessPartner, Compute, UpsertRestaurantSettlement,
                UpsertDeliverySettlement, SaveAndGoOn
  <1>5. QED
    BY <1>1, <1>2, <1>3, <1>4 DEF Next

\* A cycle with a paid row is frozen, unless a run and a payout of it have met.
THEOREM FrozenCorrect == Spec => FrozenOncePaid
  <1>1. ASSUME SettlementInv, [Next]_vars, NEW c \in Cycles, NEW p \in Payees,
               IsPaid(c, p), "run and payout" \notin overlaps[c]
        PROVE  /\ cycle'[c] = cycle[c]
               /\ \A q \in Payees : IF row[c][q] = None THEN row'[c][q] = None
                                    ELSE row'[c][q].work = row[c][q].work
    <2>1. \A r \in Requests : IsRun(r, c) => job[r].step \in {"checkRestaurants", "checkPartners"}
      BY <1>1 DEF SettlementInv, PayoutInv, Apart, Allows
    <2>2. cycle[c] # None
      BY <1>1 DEF SettlementInv, WindowInv, IsPaid
    <2>3. cycle'[c] = cycle[c]
      BY <1>1, <2>1, <2>2, StatusSteps DEF SettlementInv
    <2>4. ASSUME NEW q \in Payees, row'[c][q] # row[c][q]
          PROVE  row[c][q] # None /\ row'[c][q].work = row[c][q].work
      <3>1. \A r \in Requests :
              ~ Free(r) /\ job[r].cycle = c => job[r].step # "save"
        BY <2>1 DEF IsRun
      <3>2. TypeOK /\ About /\ [Next]_vars
        BY <1>1 DEF SettlementInv
      <3>3. PICK r \in Requests :
             /\ ~ Free(r) /\ job[r].cycle = c /\ job[r].payee = q
             /\ \/ /\ job[r].step = "save"
                   /\ row'[c][q] =
                        [work |-> job[r].work,
                         status |-> IF row[c][q] = None THEN "pending" ELSE row[c][q].status]
                \/ /\ job[r].step = "mark"
                   /\ row[c][q] # None
                   /\ row'[c][q] = [work |-> row[c][q].work, status |-> "paid"]
        BY <2>4, <3>2, RowSteps
      <3>4. QED
        BY <3>1, <3>3
    <2>5. QED
      BY <2>3, <2>4
  <1>2. SettlementInv /\ [Next]_vars =>
          [\A c \in Cycles :
             (\E p \in Payees : IsPaid(c, p)) /\ "run and payout" \notin overlaps[c] =>
               /\ cycle'[c] = cycle[c]
               /\ \A q \in Payees : IF row[c][q] = None THEN row'[c][q] = None
                                    ELSE row'[c][q].work = row[c][q].work]_vars
    BY <1>1
  <1>3. QED
    BY <1>2, Invariant, PTL DEF Spec, FrozenOncePaid

-----------------------------------------------------------------------------
(***************************************************************************)
(* Nothing is missed.  While one run of a cycle goes on alone, whatever is *)
(* promised is saved, about to be saved, or of a payee it still has to     *)
(* come to.                                                                *)
(***************************************************************************)

\* Restaurants deliver sales, partners deliveries.
DoneInv ==
    \A w \in Work : done[w] # None => done[w][1] \in IF w \in Sales THEN Restaurants ELSE Partners

\* The sums of cycle c count work w.
Counts(c, w) ==
    /\ cycle[c] # None /\ done[w] # None
    /\ w \in due /\ Within(c, done[w][2])

\* What is promised counts.
PromiseInv == \A c \in Cycles, w \in Work : w \in promised[c] => Counts(c, w)

Saved(c, w) == row[c][done[w][1]] # None /\ w \in row[c][done[w][1]].work

\* The run has summed up w's payee and is about to save, has still to come to
\* it, or has saved it.
Pending(r, w) ==
    IF job[r].step = "save" /\ job[r].payee = done[w][1] THEN w \in job[r].work
    ELSE done[w][1] \in job[r].todo \/ Saved(job[r].cycle, w)

\* The run is at the restaurants, or at the partners, who come second.
AtRestaurants(r) ==
    job[r].step = "restaurants" \/ (job[r].step = "save" /\ job[r].payee \in Restaurants)

AtPartners(r) ==
    job[r].step = "partners" \/ (job[r].step = "save" /\ job[r].payee \in Partners)

Covered(r, w) ==
    /\ AtRestaurants(r) /\ w \in Sales => Pending(r, w)
    /\ AtPartners(r) => IF w \in Sales THEN Saved(job[r].cycle, w) ELSE Pending(r, w)

\* No run of the cycle has met another.
Alone(c) == "two runs" \notin overlaps[c]

RunInv ==
    \A c \in Cycles : Alone(c) =>
      /\ \A r, q \in Requests : IsRun(r, c) /\ IsRun(q, c) => r = q
      /\ \A r \in Requests : IsRun(r, c) =>
           cycle[c].status # "completed" /\ \A w \in promised[c] : Covered(r, w)
      /\ cycle[c] # None /\ cycle[c].status = "completed" =>
           \A w \in promised[c] : Saved(c, w)

\* The steps of a run after ProcessCycle that do not end it.
RunStep(r) ==
    \/ CheckRestaurants(r) \/ CheckPartners(r) \/ StartProcessing(r)
    \/ ListRestaurantsWithActivity(r) \/ ListPartnersWithActivity(r)
    \/ \E p \in Restaurants : ProcessRestaurant(r, p)
    \/ \E p \in Partners : ProcessPartner(r, p)
    \/ UpsertRestaurantSettlement(r) \/ UpsertDeliverySettlement(r)

LEMMA RunSteps ==
    ASSUME TypeOK, [Next]_vars, NEW r \in Requests, NEW c \in Cycles,
           IsRun(r, c)', job'[r] # job[r]
    PROVE  ProcessCycle(r, c) \/ (IsRun(r, c) /\ RunStep(r))
  <1>1. ASSUME NEW q \in Requests, NEW newJob, Become(q, newJob)
        PROVE  q = r /\ job'[r] = newJob
    BY <1>1 DEF Become, TypeOK
  <1>2. job'[r] # NoJob /\ job'[r].step # "mark" /\ job'[r].cycle = c
    BY DEF IsRun, Free
  <1>3. ASSUME NEW q \in Requests, PayStep(q) PROVE FALSE
    <2>1. ASSUME NEW d \in Cycles, NEW p \in Payees, BeginPay(q, d, p) PROVE FALSE
      <3>1. Become(q, [step |-> "mark", cycle |-> d, payee |-> p, work |-> row[d][p].work])
        BY <2>1 DEF BeginPay
      <3>2. QED
        BY <1>1, <1>2, <3>1
    <2>2. ASSUME MarkPaid(q) PROVE FALSE
      <3>1. Become(q, NoJob)
        BY <2>2 DEF MarkPaid
      <3>2. QED
        BY <1>1, <1>2, <3>1
    <2>3. QED
      BY <1>3, <2>1, <2>2
      DEF PayStep, PayRestaurantSettlement, PayDeliverySettlement,
          MarkRestaurantSettlementPaid, MarkDeliverySettlementPaid
  <1>4. ASSUME NEW q \in Requests, Abort(q) \/ CompleteProcessing(q) PROVE FALSE
    BY <1>1, <1>2, <1>4 DEF Abort, CompleteProcessing
  <1>5. ASSUME NEW q \in Requests, NEW d \in Cycles, ProcessCycle(q, d)
        PROVE  ProcessCycle(r, c)
    <2>1. Become(q, [step |-> "checkRestaurants", cycle |-> d])
      BY <1>5 DEF ProcessCycle
    <2>2. q = r /\ job'[r] = [step |-> "checkRestaurants", cycle |-> d]
      BY <1>1, <2>1
    <2>3. c = d
      BY <1>2, <2>2
    <2>4. QED
      BY <1>5, <2>2, <2>3
  <1>6. ASSUME NEW q \in Requests, RunStep(q) PROVE IsRun(r, c) /\ RunStep(r)
    <2>1. CASE UpsertRestaurantSettlement(q) \/ UpsertDeliverySettlement(q)
      <3>1. /\ At(q, "save")
            /\ \E step \in {"restaurants", "partners"} :
                 Become(q, [step |-> step, cycle |-> job[q].cycle, todo |-> job[q].todo])
        BY <2>1 DEF UpsertRestaurantSettlement, UpsertDeliverySettlement, SaveAndGoOn
      <3>2. q = r /\ job'[r].cycle = job[r].cycle
        BY <1>1, <3>1
      <3>3. QED
        BY <1>2, <1>6, <3>1, <3>2 DEF IsRun, At, Free
    <2>2. CASE MovesOn(q)
      <3>1. PICK newJob : /\ Become(q, newJob)
                          /\ newJob # NoJob => /\ job[q].step # "mark"
                                               /\ newJob.cycle = job[q].cycle
        BY <2>2 DEF MovesOn
      <3>2. q = r /\ job'[r] = newJob
        BY <1>1, <3>1
      <3>3. QED
        BY <1>2, <1>6, <2>2, <3>1, <3>2 DEF IsRun, MovesOn
    <2>3. QED
      BY <1>6, <2>1, <2>2, Moves DEF RunStep
  <1>7. ASSUME WorldStep \/ CycleStep \/ RegisterRestaurantPayoutAccount
               \/ RegisterPartnerPayoutAccount \/ UNCHANGED vars
        PROVE  FALSE
    BY <1>7 DEF WorldStep, NextDay, Deliver, Captured, Withdraw, CycleStep, OpenCycle, vars,
                RegisterRestaurantPayoutAccount, RegisterPartnerPayoutAccount,
                RegisterPayoutAccount
  <1>8. QED
    BY <1>3, <1>4, <1>5, <1>6, <1>7 DEF Next, ProcessStep, RunStep

\* A promise is made by ProcessCycle; nothing that is promised stops counting.
LEMMA PromiseSteps ==
    ASSUME TypeOK, About, [Next]_vars, NEW c \in Cycles, NEW w \in promised'[c]
    PROVE  \/ w \in promised[c] /\ (Counts(c, w) => Counts(c, w)')
           \/ /\ \E r \in Requests : ProcessCycle(r, c)
              /\ w \in UNION {SumSettlementData(c, p) \cup CountDelivered(c, p) : p \in Payees}
              /\ Counts(c, w) => Counts(c, w)'
  <1>1. w \in Work
    BY StepTypes DEF TypeOK
  <1>2. ASSUME Counts(c, w), done'[w] = done[w], w \in due => w \in due'
        PROVE  Counts(c, w)'
    BY <1>2, WindowStays DEF Counts, Within
  <1>3. CASE WorldStep
    <2>1. ASSUME NEW v \in Work, NEW p \in Payees, Deliver(v, p)
          PROVE  w \in promised[c] /\ (Counts(c, w) => Counts(c, w)')
      <3>1. w \in promised[c] /\ (v = w => today \in Window(c))
        BY <2>1 DEF Deliver
      <3>2. w \in due => w \in due'
        BY <2>1 DEF Deliver, due
      <3>3. CASE v # w
        BY <1>1, <1>2, <2>1, <3>1, <3>2, <3>3 DEF Deliver, TypeOK
      <3>4. ASSUME v = w, Counts(c, w) PROVE Counts(c, w)'
        <4>1. done'[w] = <<p, today>> /\ cycle' = cycle
          BY <1>1, <2>1, <3>4 DEF Deliver, TypeOK
        <4>2. cycle[c] \in Cycle /\ today \in Int
          BY <3>4 DEF Counts, TypeOK, Days
        <4>3. cycle[c].start \in Int /\ cycle[c].end \in Int
          BY <4>2 DEF Cycle, Days
        <4>4. cycle[c].start <= today /\ today < cycle[c].end
          BY <3>1, <3>4, <4>2, <4>3 DEF Window
        <4>5. <<p, today>> # None
          BY DEF TypeOK
        <4>6. QED
          BY <3>2, <3>4, <4>1, <4>4, <4>5 DEF Counts, Within
      <3>5. QED
        BY <3>1, <3>3, <3>4
    <2>2. ASSUME NEW v \in Work, Withdraw(v)
          PROVE  w \in promised[c] /\ (Counts(c, w) => Counts(c, w)')
      <3>1. /\ w \in promised[c] /\ w # v /\ done' = done
            /\ \/ delivered' = delivered /\ paid' = paid \ {v}
               \/ delivered' = delivered \ {v} /\ paid' = paid
        BY <2>2 DEF Withdraw
      <3>2. w \in due => w \in due'
        BY <3>1 DEF due
      <3>3. QED
        BY <1>2, <3>1, <3>2
    <2>3. ASSUME NEW v \in Work, Captured(v) \/ NextDay
          PROVE  w \in promised[c] /\ (Counts(c, w) => Counts(c, w)')
      <3>1. /\ w \in promised[c] /\ done' = done
            /\ delivered' = delivered /\ paid \subseteq paid'
        BY <2>3 DEF Captured, NextDay
      <3>2. w \in due => w \in due'
        BY <3>1 DEF due
      <3>3. QED
        BY <1>2, <3>1, <3>2
    <2>4. QED
      BY <1>1, <1>3, <2>1, <2>2, <2>3 DEF WorldStep
  <1>4. CASE ~ WorldStep
    <2>1. Counts(c, w) => Counts(c, w)'
      BY <1>2, <1>4, WorldFrame DEF due
    <2>2. ASSUME NEW r \in Requests, NEW d \in Cycles, ProcessCycle(r, d)
          PROVE  \/ w \in promised[c]
                 \/ /\ d = c
                    /\ w \in UNION {SumSettlementData(c, p) \cup CountDelivered(c, p) : p \in Payees}
      <3>1. promised' = [promised EXCEPT ![d] =
                           UNION {SumSettlementData(d, p) \cup CountDelivered(d, p) : p \in Payees}]
        BY <2>2 DEF ProcessCycle
      <3>2. CASE d = c
        <4>1. promised'[c] = UNION {SumSettlementData(c, p) \cup CountDelivered(c, p) : p \in Payees}
          BY <3>1, <3>2 DEF TypeOK
        <4>2. QED
          BY <3>2, <4>1
      <3>3. CASE d # c
        BY <3>1, <3>3 DEF TypeOK
      <3>4. QED
        BY <3>2, <3>3
    <2>3. ASSUME CycleStep \/ RegisterRestaurantPayoutAccount \/ RegisterPartnerPayoutAccount
                 \/ UNCHANGED vars
          PROVE  promised' = promised
      BY <2>3 DEF CycleStep, OpenCycle, vars, RegisterRestaurantPayoutAccount,
                  RegisterPartnerPayoutAccount, RegisterPayoutAccount
    <2>4. ASSUME NEW r \in Requests, PayStep(r) \/ Abort(r) PROVE promised' = promised
      BY <2>4 DEF PayStep, PayRestaurantSettlement, PayDeliverySettlement, BeginPay,
                  MarkRestaurantSettlementPaid, MarkDeliverySettlementPaid, MarkPaid, Abort
    <2>5. ASSUME NEW r \in Requests, RunStep(r) \/ CompleteProcessing(r)
          PROVE  promised' = promised
      BY <2>5 DEF RunStep, CheckRestaurants, CheckPartners,
                  StartProcessing, CompleteProcessing,
                  ListRestaurantsWithActivity, ListPartnersWithActivity, ProcessRestaurant,
                  ProcessPartner, Compute, UpsertRestaurantSettlement,
                  UpsertDeliverySettlement, SaveAndGoOn
    <2>6. QED
      BY <1>4, <2>1, <2>2, <2>3, <2>4, <2>5 DEF Next, ProcessStep, RunStep
  <1>5. QED
    BY <1>3, <1>4

LEMMA DoneKept == TypeOK /\ DoneInv /\ [Next]_vars => DoneInv'
  <1> SUFFICES ASSUME TypeOK, DoneInv, [Next]_vars, NEW w \in Work, done'[w] # None
               PROVE  done'[w][1] \in IF w \in Sales THEN Restaurants ELSE Partners
    BY DEF DoneInv
  <1>1. CASE done[w] # None
    BY <1>1, DoneStays DEF DoneInv
  <1>2. CASE done[w] = None
    <2>1. ASSUME NEW x \in Work, NEW p \in Payees, Deliver(x, p)
          PROVE  done'[w][1] \in IF w \in Sales THEN Restaurants ELSE Partners
      <3>1. x = w /\ done'[w] = <<p, today>>
        BY <1>2, <2>1 DEF Deliver, TypeOK
      <3>2. QED
        BY <2>1, <3>1 DEF Deliver
    <2>2. ASSUME NextDay \/ \E x \in Work : Captured(x) \/ Withdraw(x) PROVE done' = done
      BY <2>2 DEF NextDay, Captured, Withdraw
    <2>3. QED
      BY <1>2, <2>1, <2>2, WorldFrame DEF WorldStep
  <1>3. QED
    BY <1>1, <1>2

LEMMA PromiseKept == TypeOK /\ About /\ PromiseInv /\ [Next]_vars => PromiseInv'
  <1> SUFFICES ASSUME TypeOK, About, PromiseInv, [Next]_vars,
                      NEW c \in Cycles, NEW w \in Work, w \in promised'[c]
               PROVE  Counts(c, w)'
    BY DEF PromiseInv
  <1>1. CASE w \in promised[c] /\ (Counts(c, w) => Counts(c, w)')
    BY <1>1 DEF PromiseInv
  <1>2. ASSUME NEW r \in Requests, ProcessCycle(r, c), Counts(c, w) => Counts(c, w)',
               w \in UNION {SumSettlementData(c, p) \cup CountDelivered(c, p) : p \in Payees}
        PROVE  Counts(c, w)'
    <2>1. cycle[c] # None
      BY <1>2 DEF ProcessCycle, MayProcess
    <2>2. Counts(c, w)
      BY <1>2, <2>1 DEF SumSettlementData, CountDelivered, Counts
    <2>3. QED
      BY <1>2, <2>2
  <1>3. QED
    BY <1>1, <1>2, PromiseSteps

\* What is promised is what the sums count.
LEMMA Counted ==
    ASSUME TypeOK, DoneInv, PromiseInv, NEW c \in Cycles, NEW w \in promised[c]
    PROVE  /\ w \in Work /\ done[w] # None /\ done[w][1] \in Payees
           /\ w \in Sales => done[w][1] \in Restaurants /\ w \in SumSettlementData(c, done[w][1])
           /\ w \notin Sales => done[w][1] \in Partners /\ w \in CountDelivered(c, done[w][1])
  <1>1. w \in Work /\ Counts(c, w)
    BY DEF TypeOK, PromiseInv
  <1>2. QED
    BY <1>1 DEF DoneInv, Counts, SumSettlementData, CountDelivered, Payees, Work

\* The one run of a cycle does not save over what is promised.
LEMMA SavedStays ==
    ASSUME TypeOK, About, DoneInv, PromiseInv, RunInv, [Next]_vars,
           NEW c \in Cycles, Alone(c),
           NEW w \in promised[c], Saved(c, w)
    PROVE  Saved(c, w)'
  <1>1. /\ w \in Work /\ done[w] # None /\ done[w][1] \in Payees
        /\ w \in Sales => done[w][1] \in Restaurants
        /\ w \notin Sales => done[w][1] \in Partners
    BY Counted
  <1>2. PICK p \in Payees : done'[w][1] = p /\ done[w][1] = p
    BY <1>1, DoneStays
  <1>3. row'[c][p] # None /\ w \in row'[c][p].work
    <2>1. CASE row'[c][p] = row[c][p]
      BY <1>2, <2>1 DEF Saved
    <2>2. CASE row'[c][p] # row[c][p]
      <3>1. PICK r \in Requests :
             /\ ~ Free(r) /\ job[r].cycle = c /\ job[r].payee = p
             /\ \/ /\ job[r].step = "save"
                   /\ row'[c][p] =
                        [work |-> job[r].work,
                         status |-> IF row[c][p] = None THEN "pending" ELSE row[c][p].status]
                \/ /\ job[r].step = "mark"
                   /\ row[c][p] # None
                   /\ row'[c][p] = [work |-> row[c][p].work, status |-> "paid"]
        BY <1>2, <2>2, RowSteps
      <3>2. row'[c][p].work = IF job[r].step = "save" THEN job[r].work ELSE row[c][p].work
        BY <3>1
      <3>3. row'[c][p] # None
        <4>1. row' \in [Cycles -> [Payees -> Settlement \cup {None}]]
          BY StepTypes DEF TypeOK
        <4>2. job[r].work \in SUBSET Work \/ job[r].step # "save"
          BY <3>1, JobAt
        <4>3. row[c][p] # None => row[c][p] \in Settlement
          BY <1>2 DEF TypeOK
        <4>4. CASE job[r].step = "save"
          <5>1. (IF row[c][p] = None THEN "pending" ELSE row[c][p].status) \in SettlementStatus
            BY <4>3 DEF Settlement, SettlementStatus
          <5>2. row'[c][p] \in Settlement
            BY <3>1, <4>2, <4>4, <5>1 DEF Settlement
          <5>3. QED
            BY <5>2
        <4>5. CASE job[r].step = "mark"
          <5>1. row[c][p].work \in SUBSET Work
            BY <3>1, <4>3, <4>5 DEF Settlement
          <5>2. row'[c][p] \in Settlement
            BY <3>1, <4>5, <5>1 DEF Settlement, SettlementStatus
          <5>3. QED
            BY <5>2
        <4>6. QED
          BY <3>1, <4>4, <4>5
      <3>4. CASE job[r].step = "save"
        <4>1. IsRun(r, c)
          BY <3>1, <3>4 DEF IsRun
        <4>2. Covered(r, w)
          BY <4>1 DEF RunInv
        <4>3. w \in job[r].work
          <5>1. Pending(r, w) => w \in job[r].work
            BY <1>2, <3>1, <3>4 DEF Pending
          <5>2. CASE w \in Sales
            BY <1>1, <1>2, <3>1, <3>4, <4>2, <5>1, <5>2 DEF Covered, AtRestaurants
          <5>3. CASE w \notin Sales
            BY <1>1, <1>2, <3>1, <3>4, <4>2, <5>1, <5>3 DEF Covered, AtPartners
          <5>4. QED
            BY <5>2, <5>3
        <4>4. QED
          BY <3>2, <3>3, <3>4, <4>3
      <3>5. CASE job[r].step # "save"
        BY <1>2, <3>2, <3>3, <3>5 DEF Saved
      <3>6. QED
        BY <3>4, <3>5
    <2>3. QED
      BY <2>1, <2>2
  <1>4. QED
    BY <1>2, <1>3 DEF Saved

\* The steps of the run keep account of what is promised.
LEMMA CoverSteps ==
    ASSUME TypeOK, About, DoneInv, PromiseInv, RunInv, [Next]_vars,
           NEW c \in Cycles, Alone(c), NEW w \in promised[c],
           NEW r \in Requests, IsRun(r, c), IsRun(r, c)'
    PROVE  Covered(r, w)'
  <1>1. /\ w \in Work /\ done[w] # None /\ done[w][1] \in Payees
        /\ w \in Sales => done[w][1] \in Restaurants /\ w \in SumSettlementData(c, done[w][1])
        /\ w \notin Sales => done[w][1] \in Partners /\ w \in CountDelivered(c, done[w][1])
    BY Counted
  <1>2. PICK p \in Payees :
          /\ done'[w][1] = p /\ done[w][1] = p
          /\ w \in Sales => p \in Restaurants /\ p \notin Partners
          /\ w \notin Sales => p \in Partners /\ p \notin Restaurants
    BY <1>1, DoneStays
  <1>3. Covered(r, w) /\ (Saved(c, w) => Saved(c, w)')
    BY SavedStays DEF RunInv
  <1>4. ~ Free(r) /\ job[r].cycle = c /\ job'[r].cycle = c /\ job[r].step # "mark"
    BY DEF IsRun
  <1>5. CASE job'[r] = job[r]
    BY <1>2, <1>3, <1>4, <1>5
    DEF Covered, Pending, AtRestaurants, AtPartners, Saved
  <1>6. ASSUME NEW newJob, Become(r, newJob) PROVE job'[r] = newJob
    BY <1>6 DEF Become, TypeOK
  <1>7. CASE CheckRestaurants(r) \/ CheckPartners(r) \/ StartProcessing(r)
    <2>1. job[r] \in Running
      BY <1>4, <1>7, JobAt DEF CheckRestaurants, CheckPartners, StartProcessing, At
    <2>2. \/ Become(r, NoJob)
          \/ \E step \in {"checkPartners", "start", "list"} :
               Become(r, [job[r] EXCEPT !.step = step])
      BY <1>7 DEF CheckRestaurants, CheckPartners, StartProcessing, Goto
    <2>3. job'[r] # NoJob
      BY DEF IsRun, Free
    <2>4. job'[r].step \in {"checkPartners", "start", "list"}
      <3>1. \A step \in {"checkPartners", "start", "list"} :
              [job[r] EXCEPT !.step = step].step = step
        BY <2>1 DEF Running
      <3>2. QED
        BY <1>6, <2>2, <2>3, <3>1
    <2>5. QED
      BY <2>4 DEF Covered, AtRestaurants, AtPartners
  <1>8. CASE ListRestaurantsWithActivity(r)
    <2>1. job'[r] = [step |-> "restaurants", cycle |-> c, todo |-> RestaurantsWithActivity(c)]
      BY <1>4, <1>6, <1>8 DEF ListRestaurantsWithActivity
    <2>2. w \in Sales => p \in RestaurantsWithActivity(c)
      BY <1>1, <1>2 DEF RestaurantsWithActivity
    <2>3. job'[r].step = "restaurants" /\ job'[r].todo = RestaurantsWithActivity(c)
      BY <2>1
    <2>4. QED
      BY <1>2, <2>2, <2>3 DEF Covered, Pending, AtRestaurants, AtPartners
  <1>9. CASE ListPartnersWithActivity(r)
    <2>1. job'[r] = [step |-> "partners", cycle |-> c, todo |-> PartnersWithActivity(c)]
      BY <1>4, <1>6, <1>9 DEF ListPartnersWithActivity
    <2>2. w \notin Sales => p \in PartnersWithActivity(c)
      BY <1>1, <1>2 DEF PartnersWithActivity
    <2>3. job'[r].step = "partners" /\ job'[r].todo = PartnersWithActivity(c)
      BY <2>1
    <2>4. job[r].step = "restaurants" /\ job[r].todo = {}
      BY <1>9 DEF ListPartnersWithActivity, At
    <2>5. w \in Sales => Saved(c, w)
      BY <1>3, <1>4, <2>4 DEF Covered, Pending, AtRestaurants
    <2>6. w \in Sales => Saved(job[r].cycle, w)'
      BY <1>3, <1>4, <2>5
    <2>7. QED
      BY <1>2, <2>2, <2>3, <2>6 DEF Covered, Pending, AtRestaurants, AtPartners
  <1>10. ASSUME NEW q \in Payees, NEW work, Compute(r, q, work),
                job[r].step \in {"restaurants", "partners"},
                \/ job[r].step = "restaurants" /\ q \in Restaurants
                \/ job[r].step = "partners" /\ q \in Partners,
                q = p => w \in work
         PROVE  Covered(r, w)'
    <2>1. job[r] \in Computing
      BY <1>4, <1>10, JobAt
    <2>2. ASSUME Pending(r, w) PROVE Pending(r, w)'
      <3>1. p \in job[r].todo \/ Saved(c, w)
        BY <1>2, <1>4, <1>10, <2>2 DEF Pending
      <3>2. CASE work = {}
        <4>1. job'[r] = [job[r] EXCEPT !.todo = @ \ {q}]
          BY <1>6, <1>10, <3>2 DEF Compute
        <4>2. job'[r].todo = job[r].todo \ {q} /\ job'[r].step = job[r].step
          BY <2>1, <4>1 DEF Computing
        <4>3. QED
          BY <1>2, <1>3, <1>4, <1>10, <3>1, <3>2, <4>2 DEF Pending, Saved
      <3>3. CASE work # {}
        <4>1. job'[r] = [step |-> "save", cycle |-> job[r].cycle, todo |-> job[r].todo \ {q},
                         payee |-> q, work |-> work]
          BY <1>6, <1>10, <3>3 DEF Compute
        <4>2. /\ job'[r].step = "save" /\ job'[r].payee = q /\ job'[r].work = work
              /\ job'[r].todo = job[r].todo \ {q}
          BY <4>1
        <4>3. QED
          BY <1>2, <1>3, <1>4, <1>10, <3>1, <4>2 DEF Pending, Saved
      <3>4. QED
        BY <3>2, <3>3
    <2>3. /\ AtRestaurants(r)' <=> AtRestaurants(r)
          /\ AtPartners(r)' <=> AtPartners(r)
      <3>1. CASE work = {}
        <4>1. job'[r] = [job[r] EXCEPT !.todo = @ \ {q}]
          BY <1>6, <1>10, <3>1 DEF Compute
        <4>2. job'[r].step = job[r].step
          BY <2>1, <4>1 DEF Computing
        <4>3. QED
          BY <1>10, <4>2 DEF AtRestaurants, AtPartners
      <3>2. CASE work # {}
        <4>1. job'[r] = [step |-> "save", cycle |-> job[r].cycle, todo |-> job[r].todo \ {q},
                         payee |-> q, work |-> work]
          BY <1>6, <1>10, <3>2 DEF Compute
        <4>2. job'[r].step = "save" /\ job'[r].payee = q
          BY <4>1
        <4>3. QED
          BY <1>10, <4>2 DEF AtRestaurants, AtPartners
      <3>3. QED
        BY <3>1, <3>2
    <2>4. Saved(c, w) => Saved(job[r].cycle, w)'
      BY <1>3, <1>4
    <2>5. QED
      BY <1>3, <1>4, <2>2, <2>3, <2>4 DEF Covered
  <1>11. ASSUME NEW q \in Restaurants, ProcessRestaurant(r, q) PROVE Covered(r, w)'
    <2>1. /\ Compute(r, q, SumSettlementData(c, q)) /\ job[r].step = "restaurants"
          /\ q \in Payees
      BY <1>4, <1>11 DEF ProcessRestaurant, At, Payees
    <2>2. q = p => w \in SumSettlementData(c, q)
      BY <1>1, <1>2, <1>11
    <2>3. QED
      BY <1>10, <1>11, <2>1, <2>2
  <1>12. ASSUME NEW q \in Partners, ProcessPartner(r, q) PROVE Covered(r, w)'
    <2>1. /\ Compute(r, q, CountDelivered(c, q)) /\ job[r].step = "partners"
          /\ q \in Payees
      BY <1>4, <1>12 DEF ProcessPartner, At, Payees
    <2>2. q = p => w \in CountDelivered(c, q)
      BY <1>1, <1>2, <1>12
    <2>3. QED
      BY <1>10, <1>12, <2>1, <2>2
  <1>13. ASSUME NEW payees, NEW step \in {"restaurants", "partners"},
                SaveAndGoOn(r, payees, step),
                \/ step = "restaurants" /\ job[r].payee \in Restaurants
                \/ step = "partners" /\ job[r].payee \in Partners
         PROVE  Covered(r, w)'
    <2>1. /\ job[r].step = "save" /\ Upsert(c, job[r].payee, job[r].work)
          /\ job[r].payee \in Payees /\ job[r].work \in SUBSET Work
      BY <1>4, <1>13, JobAt DEF SaveAndGoOn, At
    <2>2. job'[r] = [step |-> step, cycle |-> job[r].cycle, todo |-> job[r].todo]
      BY <1>6, <1>13 DEF SaveAndGoOn
    <2>3. job'[r].step = step /\ job'[r].todo = job[r].todo
      BY <2>2
    <2>4. ASSUME job[r].payee = p, w \in job[r].work PROVE Saved(c, w)'
      <3>1. row'[c][p] = [work |-> job[r].work,
                          status |-> IF row[c][p] = None THEN "pending" ELSE row[c][p].status]
        BY <1>2, <2>1, <2>4 DEF Upsert, TypeOK
      <3>2. (IF row[c][p] = None THEN "pending" ELSE row[c][p].status) \in SettlementStatus
        BY <1>2 DEF TypeOK, Settlement, SettlementStatus
      <3>3. row'[c][p] \in Settlement
        BY <2>1, <3>1, <3>2 DEF Settlement
      <3>4. row'[c][p] # None /\ w \in row'[c][p].work
        BY <2>4, <3>1, <3>3
      <3>5. QED
        BY <1>2, <3>4 DEF Saved
    <2>5. ASSUME Pending(r, w) PROVE Pending(r, w)'
      <3>1. CASE job[r].payee = p
        <4>1. Saved(c, w)'
          BY <1>2, <2>1, <2>4, <2>5, <3>1 DEF Pending
        <4>2. QED
          BY <1>4, <2>3, <4>1 DEF Pending, Saved
      <3>2. CASE job[r].payee # p
        <4>1. p \in job[r].todo \/ Saved(c, w)
          BY <1>2, <1>4, <2>5, <3>2 DEF Pending
        <4>2. QED
          BY <1>2, <1>3, <1>4, <2>3, <4>1 DEF Pending, Saved
      <3>3. QED
        BY <3>1, <3>2
    <2>6. /\ AtRestaurants(r)' <=> AtRestaurants(r)
          /\ AtPartners(r)' <=> AtPartners(r)
      BY <1>13, <2>1, <2>3 DEF AtRestaurants, AtPartners
    <2>7. Saved(c, w) => Saved(job[r].cycle, w)'
      BY <1>3, <1>4
    <2>8. QED
      BY <1>3, <1>4, <2>5, <2>6, <2>7 DEF Covered
  <1>14. CASE UpsertRestaurantSettlement(r) \/ UpsertDeliverySettlement(r)
    BY <1>13, <1>14 DEF UpsertRestaurantSettlement, UpsertDeliverySettlement, SaveAndGoOn
  <1>15. ASSUME ProcessCycle(r, c) PROVE FALSE
    BY <1>4, <1>15 DEF ProcessCycle
  <1>16. QED
    BY <1>5, <1>7, <1>8, <1>9, <1>11, <1>12, <1>14, <1>15, RunSteps DEF RunStep

\* No meeting is forgotten, and a run that begins meets the runs there are.
LEMMA MeetingsStay ==
    ASSUME TypeOK, [Next]_vars, NEW c \in Cycles, Alone(c)'
    PROVE  /\ Alone(c)
           /\ \A r \in Requests : ProcessCycle(r, c) => \A q \in Requests : ~ IsRun(q, c)
  <1>1. ASSUME NEW d \in Cycles, NEW met, Meets(d, met)
        PROVE  Alone(c) /\ (d = c => "two runs" \notin met)
    BY <1>1 DEF Meets, TypeOK, Alone
  <1>2. ASSUME NEW r \in Requests, NEW d \in Cycles, ProcessCycle(r, d)
        PROVE  Alone(c) /\ (d = c => \A q \in Requests : ~ IsRun(q, c))
    <2>1. Alone(c) /\ (d = c => Runs(c) = {})
      BY <1>1, <1>2 DEF ProcessCycle
    <2>2. QED
      BY <2>1, RunsAndPayouts
  <1>3. ASSUME NEW r \in Requests, NEW d \in Cycles, NEW p \in Payees, BeginPay(r, d, p)
        PROVE  Alone(c)
    BY <1>1, <1>3 DEF BeginPay
  <1>4. ASSUME WorldStep \/ CycleStep \/ RegisterRestaurantPayoutAccount
               \/ RegisterPartnerPayoutAccount \/ UNCHANGED vars
        PROVE  overlaps' = overlaps
    BY <1>4 DEF WorldStep, NextDay, Deliver, Captured, Withdraw, CycleStep, OpenCycle, vars,
                RegisterRestaurantPayoutAccount, RegisterPartnerPayoutAccount,
                RegisterPayoutAccount
  <1>5. ASSUME NEW r \in Requests, RunStep(r) \/ CompleteProcessing(r) \/ Abort(r) \/ MarkPaid(r)
        PROVE  overlaps' = overlaps
    BY <1>5 DEF RunStep, CheckRestaurants, CheckPartners, StartProcessing, CompleteProcessing,
                ListRestaurantsWithActivity, ListPartnersWithActivity, ProcessRestaurant,
                ProcessPartner, Compute, UpsertRestaurantSettlement,
                UpsertDeliverySettlement, SaveAndGoOn, Abort, MarkPaid
  <1>6. Alone(c) \/ overlaps' = overlaps
    BY <1>2, <1>3, <1>4, <1>5
    DEF Next, ProcessStep, RunStep, PayStep, PayRestaurantSettlement, PayDeliverySettlement,
        MarkRestaurantSettlementPaid, MarkDeliverySettlementPaid
  <1>7. QED
    BY <1>2, <1>6 DEF Alone

\* The status a cycle changes to, and what it then is with the promises.
LEMMA Completes ==
    ASSUME TypeOK, About, DoneInv, PromiseInv, RunInv, [Next]_vars, NEW c \in Cycles, Alone(c),
           cycle[c] # None, cycle'[c] # cycle[c], cycle'[c].status = "completed"
    PROVE  /\ \A w \in promised[c] : Saved(c, w)
           /\ \A r \in Requests : ~ IsRun(r, c)'
  <1>1. PICK r \in Requests : IsRun(r, c) /\ job[r].step \in {"start", "partners"}
    BY StatusSteps
  <1>2. ASSUME NEW q \in Requests, StartProcessing(q) PROVE FALSE
    <2>1. job[q].cycle \in Cycles /\ SetCycleStatus(job[q].cycle, "processing")
      BY <1>2, JobAt DEF StartProcessing, At, Free
    <2>2. job[q].cycle = c
      BY <2>1 DEF SetCycleStatus, TypeOK
    <2>3. cycle[c] \in Cycle
      BY DEF TypeOK
    <2>4. cycle'[c] = [cycle[c] EXCEPT !.status = "processing"]
      BY <2>1, <2>2 DEF SetCycleStatus, TypeOK
    <2>5. [cycle[c] EXCEPT !.status = "processing"].status = "processing"
      BY <2>3 DEF Cycle
    <2>6. QED
      BY <2>4, <2>5
  <1>3. ASSUME NEW q \in Requests, ProcessStep(q), ~ StartProcessing(q), ~ CompleteProcessing(q)
        PROVE  cycle' = cycle
    BY <1>3 DEF ProcessStep, ProcessCycle, CheckRestaurants, CheckPartners,
                ListRestaurantsWithActivity, ListPartnersWithActivity, ProcessRestaurant,
                ProcessPartner, Compute, UpsertRestaurantSettlement,
                UpsertDeliverySettlement, SaveAndGoOn
  <1>4. ASSUME NEW q \in Requests, PayStep(q) \/ Abort(q) PROVE cycle' = cycle
    BY <1>4 DEF PayStep, PayRestaurantSettlement, PayDeliverySettlement, BeginPay,
                MarkRestaurantSettlementPaid, MarkDeliverySettlementPaid, MarkPaid, Abort
  <1>5. ASSUME WorldStep \/ CycleStep \/ RegisterRestaurantPayoutAccount
               \/ RegisterPartnerPayoutAccount \/ UNCHANGED vars
        PROVE  cycle'[c] = cycle[c]
    BY <1>5 DEF WorldStep, NextDay, Deliver, Captured, Withdraw, CycleStep, OpenCycle, vars,
                CreateCycle, RegisterRestaurantPayoutAccount, RegisterPartnerPayoutAccount,
                RegisterPayoutAccount, TypeOK
  <1>6. PICK q \in Requests : CompleteProcessing(q)
    BY <1>2, <1>3, <1>4, <1>5 DEF Next
  <1>7. /\ ~ Free(q) /\ job[q].step = "partners" /\ job[q].todo = {}
        /\ SetCycleStatus(job[q].cycle, "completed") /\ Become(q, NoJob)
    BY <1>6 DEF CompleteProcessing, At, Free
  <1>8. IsRun(q, c)
    BY <1>7 DEF SetCycleStatus, TypeOK, IsRun
  <1>9. ASSUME NEW w \in promised[c] PROVE Saved(c, w)
    <2>1. Covered(q, w) /\ job[q].cycle = c
      BY <1>8 DEF RunInv, IsRun
    <2>2. QED
      BY <1>7, <2>1 DEF Covered, AtPartners, Pending
  <1>10. ASSUME NEW s \in Requests, IsRun(s, c)' PROVE FALSE
    <2>1. s # q /\ job'[s] = job[s]
      BY <1>7, <1>10 DEF Become, TypeOK, IsRun, Free
    <2>2. IsRun(s, c)
      BY <1>10, <2>1 DEF IsRun, Free
    <2>3. QED
      BY <1>8, <2>1, <2>2 DEF RunInv
  <1>11. QED
    BY <1>9, <1>10

LEMMA RunKept ==
    TypeOK /\ About /\ DoneInv /\ PromiseInv /\ RunInv /\ [Next]_vars => RunInv'
  <1> SUFFICES ASSUME TypeOK, About, DoneInv, PromiseInv, RunInv, [Next]_vars,
                      NEW c \in Cycles, Alone(c)'
               PROVE  /\ \A r, q \in Requests : IsRun(r, c)' /\ IsRun(q, c)' => r = q
                      /\ \A r \in Requests : IsRun(r, c)' =>
                           /\ cycle'[c].status # "completed"
                           /\ \A w \in promised'[c] : Covered(r, w)'
                      /\ cycle'[c] # None /\ cycle'[c].status = "completed" =>
                           \A w \in promised'[c] : Saved(c, w)'
    BY DEF RunInv
  <1>0. /\ Alone(c)
        /\ \A r \in Requests : ProcessCycle(r, c) => \A q \in Requests : ~ IsRun(q, c)
    BY MeetingsStay
  <1>1. ASSUME NEW r \in Requests, IsRun(r, c)', ~ IsRun(r, c)
        PROVE  /\ ProcessCycle(r, c) /\ job'[r].step = "checkRestaurants"
               /\ \A q \in Requests : IsRun(q, c)' => q = r
    <2>1. job'[r] # job[r]
      BY <1>1 DEF IsRun, Free
    <2>2. ProcessCycle(r, c)
      BY <1>1, <2>1, RunSteps
    <2>3. Become(r, [step |-> "checkRestaurants", cycle |-> c])
      BY <2>2 DEF ProcessCycle
    <2>4. job'[r] = [step |-> "checkRestaurants", cycle |-> c]
      BY <2>3 DEF Become, TypeOK
    <2>5. job'[r].step = "checkRestaurants"
      BY <2>4
    <2>6. ASSUME NEW q \in Requests, IsRun(q, c)', q # r PROVE FALSE
      <3>1. job'[q] = job[q]
        BY <2>3, <2>6 DEF Become, TypeOK
      <3>2. IsRun(q, c)
        BY <2>6, <3>1 DEF IsRun, Free
      <3>3. QED
        BY <1>0, <2>2, <3>2
    <2>7. QED
      BY <2>2, <2>5, <2>6
  <1>2. ASSUME NEW r \in Requests, NEW q \in Requests, IsRun(r, c)', IsRun(q, c)'
        PROVE  r = q
    <2>1. CASE IsRun(r, c) /\ IsRun(q, c)
      BY <1>0, <2>1 DEF RunInv
    <2>2. CASE ~ (IsRun(r, c) /\ IsRun(q, c))
      BY <1>1, <1>2, <2>2
    <2>3. QED
      BY <2>1, <2>2
  <1>3. ASSUME NEW r \in Requests, IsRun(r, c)' PROVE cycle'[c].status # "completed"
    <2>1. cycle[c] # None /\ cycle[c].status # "completed"
      <3>1. CASE IsRun(r, c)
        BY <1>0, <3>1 DEF RunInv, About, IsRun
      <3>2. CASE ~ IsRun(r, c)
        BY <1>1, <1>3, <3>2 DEF ProcessCycle, MayProcess
      <3>3. QED
        BY <3>1, <3>2
    <2>2. QED
      BY <1>0, <1>3, <2>1, Completes
  <1>4. ASSUME NEW r \in Requests, IsRun(r, c)', NEW w \in promised'[c] PROVE Covered(r, w)'
    <2>1. CASE IsRun(r, c)
      <3>1. w \in promised[c]
        BY <1>0, <2>1, PromiseSteps
      <3>2. QED
        BY <1>0, <1>4, <2>1, <3>1, CoverSteps
    <2>2. CASE ~ IsRun(r, c)
      <3>1. job'[r].step = "checkRestaurants"
        BY <1>1, <1>4, <2>2
      <3>2. QED
        BY <3>1 DEF Covered, AtRestaurants, AtPartners
    <2>3. QED
      BY <2>1, <2>2
  <1>5. ASSUME cycle'[c] # None, cycle'[c].status = "completed", NEW w \in promised'[c]
        PROVE  Saved(c, w)'
    <2>1. cycle[c] # None
      <3>1. ASSUME cycle[c] = None PROVE FALSE
        <4>1. w \in promised[c] => FALSE
          BY <3>1 DEF TypeOK, PromiseInv, Counts
        <4>2. \A r \in Requests : ProcessCycle(r, c) => FALSE
          BY <3>1 DEF ProcessCycle, MayProcess
        <4>3. QED
          BY <4>1, <4>2, PromiseSteps
      <3>2. QED
        BY <3>1
    <2>2. \A r \in Requests : ~ ProcessCycle(r, c)
      <3>1. ASSUME NEW r \in Requests, ProcessCycle(r, c) PROVE FALSE
        BY <1>5, <3>1 DEF ProcessCycle, MayProcess
      <3>2. QED
        BY <3>1
    <2>3. w \in promised[c]
      BY <2>2, PromiseSteps
    <2>4. Saved(c, w)
      <3>1. CASE cycle'[c] = cycle[c]
        BY <1>0, <1>5, <2>3, <3>1 DEF RunInv
      <3>2. CASE cycle'[c] # cycle[c]
        BY <1>0, <1>5, <2>1, <2>3, <3>2, Completes
      <3>3. QED
        BY <3>1, <3>2
    <2>5. QED
      BY <1>0, <2>3, <2>4, SavedStays
  <1>6. QED
    BY <1>2, <1>3, <1>4, <1>5

MissedInv == SettlementInv /\ DoneInv /\ PromiseInv /\ RunInv

\* A completed cycle has a row for everything that was due when its last run
\* began and has not been withdrawn since, unless two runs of it have met.
THEOREM NothingMissedCorrect == Spec => []NothingMissed
  <1>1. Init => MissedInv
    <2>1. Init => DoneInv /\ PromiseInv
      BY DEF Init, DoneInv, PromiseInv
    <2>2. Init => RunInv
      BY DEF Init, RunInv, IsRun, Free
    <2>3. QED
      BY <2>1, <2>2, Starts DEF MissedInv
  <1>2. MissedInv /\ [Next]_vars => MissedInv'
    BY Kept, DoneKept, PromiseKept, RunKept DEF MissedInv, SettlementInv
  <1>3. MissedInv => NothingMissed
    BY DEF MissedInv, RunInv, Alone, Saved, NothingMissed
  <1>4. QED
    BY <1>1, <1>2, <1>3, PTL DEF Spec

-----------------------------------------------------------------------------
(***************************************************************************)
(* What is paid.                                                           *)
(***************************************************************************)

\* What has been paid, and what is being paid, was done in the window.
SentInv ==
    /\ \A c \in Cycles, p \in Payees : \A i \in DOMAIN sent[c][p] :
         \A w \in sent[c][p][i] : Worked(c, p, w)
    /\ \A r \in Requests : ~ Free(r) /\ job[r].step = "mark" =>
         \A w \in job[r].work : Worked(job[r].cycle, job[r].payee, w)

\* Payouts are only ever added, by the requests that record them.
LEMMA SentSteps ==
    ASSUME TypeOK, [Next]_vars, NEW c \in Cycles, NEW p \in Payees,
           sent'[c][p] # sent[c][p]
    PROVE  \E r \in Requests :
             /\ ~ Free(r) /\ job[r].step = "mark" /\ job[r].cycle = c /\ job[r].payee = p
             /\ sent'[c][p] = Append(sent[c][p], job[r].work)
  <1>1. ASSUME WorldStep \/ CycleStep \/ RegisterRestaurantPayoutAccount
               \/ RegisterPartnerPayoutAccount \/ UNCHANGED vars
        PROVE  sent' = sent
    BY <1>1 DEF WorldStep, NextDay, Deliver, Captured, Withdraw, CycleStep, OpenCycle, vars,
                RegisterRestaurantPayoutAccount, RegisterPartnerPayoutAccount,
                RegisterPayoutAccount
  <1>2. ASSUME NEW r \in Requests, ProcessStep(r) \/ Abort(r) PROVE sent' = sent
    BY <1>2 DEF ProcessStep, ProcessCycle, CheckRestaurants, CheckPartners,
                StartProcessing, CompleteProcessing, Abort,
                ListRestaurantsWithActivity, ListPartnersWithActivity, ProcessRestaurant,
                ProcessPartner, Compute, UpsertRestaurantSettlement,
                UpsertDeliverySettlement, SaveAndGoOn
  <1>3. ASSUME NEW r \in Requests, NEW d \in Cycles, NEW q \in Payees, BeginPay(r, d, q)
        PROVE  sent' = sent
    BY <1>3 DEF BeginPay
  <1>4. ASSUME NEW r \in Requests, At(r, "mark"), MarkPaid(r)
        PROVE  /\ ~ Free(r) /\ job[r].step = "mark" /\ job[r].cycle = c /\ job[r].payee = p
               /\ sent'[c][p] = Append(sent[c][p], job[r].work)
    <2>1. /\ ~ Free(r) /\ job[r].step = "mark"
          /\ job[r].cycle \in Cycles /\ job[r].payee \in Payees
      BY <1>4, JobAt DEF At, Free
    <2>2. sent' = [sent EXCEPT ![job[r].cycle][job[r].payee] = Append(@, job[r].work)]
      BY <1>4 DEF MarkPaid
    <2>3. job[r].cycle = c /\ job[r].payee = p
      BY <2>1, <2>2 DEF TypeOK
    <2>4. QED
      BY <2>1, <2>2, <2>3 DEF TypeOK
  <1>5. QED
    BY <1>1, <1>2, <1>3, <1>4
    DEF Next, PayStep, PayRestaurantSettlement, PayDeliverySettlement,
        MarkRestaurantSettlementPaid, MarkDeliverySettlementPaid

LEMMA SentKept ==
    SettlementInv /\ SentInv /\ [Next]_vars => SentInv'
  <1> SUFFICES ASSUME SettlementInv, SentInv, [Next]_vars PROVE SentInv'
    OBVIOUS
  <1>1. TypeOK /\ About /\ WindowInv
    BY DEF SettlementInv
  <1>2. ASSUME NEW c \in Cycles, NEW p \in Payees, NEW i \in DOMAIN sent'[c][p],
               NEW w \in sent'[c][p][i]
        PROVE  Worked(c, p, w)'
    <2>1. w \in Work /\ Worked(c, p, w)
      <3>1. sent[c][p] \in Seq(SUBSET Work)
        BY <1>1 DEF TypeOK
      <3>2. CASE sent'[c][p] = sent[c][p]
        BY <1>2, <3>1, <3>2 DEF SentInv
      <3>3. CASE sent'[c][p] # sent[c][p]
        <4>1. PICK r \in Requests :
                /\ ~ Free(r) /\ job[r].step = "mark" /\ job[r].cycle = c /\ job[r].payee = p
                /\ sent'[c][p] = Append(sent[c][p], job[r].work)
          BY <1>1, <3>3, SentSteps
        <4>2. job[r].work \in SUBSET Work /\ \A x \in job[r].work : Worked(c, p, x)
          BY <1>1, <4>1, JobAt DEF SentInv
        <4>3. \/ i \in DOMAIN sent[c][p] /\ sent'[c][p][i] = sent[c][p][i]
              \/ sent'[c][p][i] = job[r].work
          BY <1>2, <3>1, <4>1, <4>2
        <4>4. QED
          BY <1>2, <3>1, <4>2, <4>3 DEF SentInv
      <3>4. QED
        BY <3>2, <3>3
    <2>2. QED
      BY <1>1, <2>1, WorkedStays
  <1>3. ASSUME NEW r \in Requests, job'[r] # NoJob, job'[r].step = "mark",
               NEW w \in job'[r].work
        PROVE  Worked(job[r].cycle, job[r].payee, w)'
    <2>1. /\ job'[r].cycle \in Cycles /\ w \in Work
          /\ Worked(job'[r].cycle, job'[r].payee, w)
      <3>1. CASE job'[r] = job[r]
        BY <1>1, <1>3, <3>1, JobAt DEF SentInv, Free
      <3>2. ASSUME NEW c \in Cycles, NEW p \in Payees, row[c][p] # None,
                   job'[r] = [step |-> "mark", cycle |-> c, payee |-> p,
                              work |-> row[c][p].work]
            PROVE  job'[r].cycle \in Cycles /\ w \in Work
                     /\ Worked(job'[r].cycle, job'[r].payee, w)
        <4>1. row[c][p] \in Settlement
          BY <1>1, <3>2 DEF TypeOK
        <4>2. row[c][p].work \in SUBSET Work
          BY <4>1 DEF Settlement
        <4>3. QED
          BY <1>1, <1>3, <3>2, <4>2 DEF WindowInv
      <3>3. CASE job'[r] # job[r]
        <4>1. ASSUME NEW c \in Cycles, job'[r] = [step |-> "checkRestaurants", cycle |-> c]
              PROVE  FALSE
          BY <1>3, <4>1
        <4>2. QED
          BY <1>1, <1>3, <3>2, <3>3, <4>1, JobSteps
      <3>4. QED
        BY <3>1, <3>3
    <2>2. ASSUME NEW c \in Cycles, NEW p, NEW x \in Work, Worked(c, p, x)
          PROVE  Worked(c, p, x)'
      BY <1>1, <2>2, WorkedStays
    <2>3. QED
      BY <2>1, <2>2 DEF Worked
  <1>4. QED
    BY <1>2, <1>3 DEF SentInv, Free

LEMMA InitSent == Init => SentInv
  BY DEF Init, SentInv, Free

LEMMA SentInvariant == Spec => [](SettlementInv /\ SentInv)
  BY Starts, InitSent, Kept, SentKept, PTL DEF Spec

LEMMA OnePosition ==
    ASSUME NEW S, NEW s \in Seq(S), Len(s) <= 1, NEW i \in DOMAIN s, NEW j \in DOMAIN s
    PROVE  i = j
  OBVIOUS

\* No work is paid twice, except where two payouts of a row have met or the work
\* was delivered in the windows of two cycles, on one day or on two.
THEOREM WorkPaidOnceCorrect == Spec => []WorkPaidOnce
  <1>1. SettlementInv /\ SentInv => WorkPaidOnce
    <2> SUFFICES ASSUME SettlementInv, SentInv,
                        NEW c \in Cycles, NEW d \in Cycles, NEW p \in Payees, NEW q \in Payees,
                        NEW i \in DOMAIN sent[c][p], NEW j \in DOMAIN sent[d][q],
                        NEW w \in sent[c][p][i] \cap sent[d][q][j]
                 PROVE  /\ p = q
                        /\ c # d => Fell(c, w) /\ Fell(d, w)
                        /\ c = d /\ i # j => "two payouts" \in overlaps[c]
      BY DEF WorkPaidOnce
    <2>1. Worked(c, p, w) /\ Worked(d, q, w)
      BY DEF SentInv
    <2>2. p = q /\ Fell(c, w) /\ Fell(d, w)
      BY <2>1 DEF Worked
    <2>3. ASSUME c = d, i # j, "two payouts" \notin overlaps[c] PROVE FALSE
      <3>1. Len(sent[c][p]) <= 1
        BY <2>3 DEF SettlementInv, PayoutInv, PaidAlone
      <3>2. sent[c][p] \in Seq(SUBSET Work)
        BY DEF SettlementInv, TypeOK
      <3>3. i \in DOMAIN sent[c][p] /\ j \in DOMAIN sent[c][p]
        BY <2>2, <2>3
      <3>4. QED
        BY <2>3, <3>1, <3>2, <3>3, OnePosition
    <2>4. QED
      BY <2>2, <2>3
  <1>2. QED
    BY <1>1, SentInvariant, PTL

-----------------------------------------------------------------------------
(***************************************************************************)
(* Settlements implements PayoutBook.                                      *)
(***************************************************************************)

\* What the book sees of the cycles.
bookWindow == [c \in Cycles |-> IF cycle[c] = None THEN None
                                ELSE <<cycle[c].start, cycle[c].end>>]

\* Only OpenCycle sets a window.
LEMMA WindowFrame ==
    ASSUME TypeOK, About, [Next]_vars, ~ CycleStep
    PROVE  bookWindow' = bookWindow
  <1>1. ASSUME NEW c \in Cycles, cycle[c] = None PROVE cycle'[c] = None
    <2>1. ASSUME NEW d \in Cycles, cycle[d] # None, NEW status, SetCycleStatus(d, status)
          PROVE  cycle'[c] = None
      BY <1>1, <2>1 DEF SetCycleStatus, TypeOK
    <2>2. ASSUME NEW r \in Requests, StartProcessing(r) \/ CompleteProcessing(r)
          PROVE  cycle'[c] = None
      <3>1. ~ Free(r) /\ \E status : SetCycleStatus(job[r].cycle, status)
        BY <2>2 DEF StartProcessing, CompleteProcessing, At, Free
      <3>2. job[r].cycle \in Cycles /\ cycle[job[r].cycle] # None
        BY <3>1, JobAt DEF About
      <3>3. QED
        BY <2>1, <3>1, <3>2
    <2>3. ASSUME NEW r \in Requests, ProcessStep(r),
                 ~ StartProcessing(r), ~ CompleteProcessing(r)
          PROVE  cycle' = cycle
      BY <2>3 DEF ProcessStep, ProcessCycle, CheckRestaurants, CheckPartners,
                  ListRestaurantsWithActivity, ListPartnersWithActivity, ProcessRestaurant,
                  ProcessPartner, Compute, UpsertRestaurantSettlement,
                  UpsertDeliverySettlement, SaveAndGoOn
    <2>4. ASSUME NEW r \in Requests, PayStep(r) \/ Abort(r) PROVE cycle' = cycle
      BY <2>4 DEF PayStep, PayRestaurantSettlement, PayDeliverySettlement, BeginPay,
                  MarkRestaurantSettlementPaid, MarkDeliverySettlementPaid, MarkPaid, Abort
    <2>5. ASSUME WorldStep \/ RegisterRestaurantPayoutAccount
                 \/ RegisterPartnerPayoutAccount \/ UNCHANGED vars
          PROVE  cycle' = cycle
      BY <2>5 DEF WorldStep, NextDay, Deliver, Captured, Withdraw, vars,
                  RegisterRestaurantPayoutAccount, RegisterPartnerPayoutAccount,
                  RegisterPayoutAccount
    <2>6. QED
      BY <1>1, <2>2, <2>3, <2>4, <2>5 DEF Next
  <1>2. ASSUME NEW c \in Cycles, cycle[c] # None
        PROVE  cycle'[c] # None /\ cycle'[c].start = cycle[c].start
                 /\ cycle'[c].end = cycle[c].end
    BY <1>2, WindowStays
  <1>3. QED
    BY <1>1, <1>2 DEF bookWindow

\* What was done in the window of the cycle, was done in that of the book.
LEMMA BookWorked ==
    ASSUME TypeOK, NEW c \in Cycles, NEW p \in Payees, NEW w \in Work, Worked(c, p, w)
    PROVE  Book!DoneInWindow(c, p, w)
  <1>1. cycle[c] \in Cycle
    BY DEF Worked, TypeOK
  <1>2. cycle[c].start \in Days /\ cycle[c].end \in Days
    BY <1>1 DEF Cycle
  <1>3. bookWindow[c] = <<cycle[c].start, cycle[c].end>>
    BY DEF bookWindow, Worked
  <1>4. bookWindow[c] # None
    BY <1>2, <1>3
  <1>5. PICK day \in stamps[w] : day \in cycle[c].start .. cycle[c].end - 1
    BY DEF Worked, Fell, Window
  <1>6. cycle[c].start <= day /\ day < cycle[c].end
    BY <1>2, <1>5 DEF Days
  <1>7. QED
    BY <1>3, <1>4, <1>5, <1>6 DEF Book!DoneInWindow, bookWindow, Worked

\* What the world does: work is done, or the book sees nothing of it.
LEMMA BookWorld ==
    ASSUME TypeOK, About, [Next]_vars, WorldStep
    PROVE  Book!Next \/ UNCHANGED <<done, stamps, bookWindow, row, sent, overlaps>>
  <1>1. UNCHANGED <<bookWindow, row, sent, overlaps>>
    <2>1. UNCHANGED <<cycle, row, sent, overlaps>>
      BY DEF WorldStep, NextDay, Deliver, Captured, Withdraw
    <2>2. QED
      BY <2>1 DEF bookWindow
  <1>2. ASSUME NEW w \in Work, NEW p \in Payees, Deliver(w, p) PROVE Book!Next
    <2>1. today \in Days
      BY DEF TypeOK
    <2>2. Book!Do(w, p, today)
      BY <1>1, <1>2 DEF Deliver, Book!Do, bookWindow
    <2>3. w \in Work /\ p \in Payees /\ Work = Sales \cup Deliveries
      BY <1>2 DEF Work
    <2>4. QED
      BY <2>1, <2>2, <2>3 DEF Book!Next
  <1>3. NextDay \/ (\E w \in Work : Captured(w) \/ Withdraw(w)) => UNCHANGED <<done, stamps>>
    BY DEF NextDay, Captured, Withdraw
  <1>4. QED
    BY <1>1, <1>2, <1>3 DEF WorldStep

\* A cycle is opened.
LEMMA BookOpens ==
    ASSUME TypeOK, NEW c \in Cycles, NEW start \in Days, NEW end \in Days,
           OpenCycle(c, start, end)
    PROVE  Book!Next
  <1>1. /\ cycle[c] = None /\ start < end
        /\ cycle' = [cycle EXCEPT ![c] = [start |-> start, end |-> end, status |-> "open"]]
        /\ UNCHANGED <<done, stamps, row, sent, overlaps>>
    BY DEF OpenCycle, CreateCycle, world
  <1>2. [start |-> start, end |-> end, status |-> "open"] \in Cycle
    BY <1>1 DEF Cycle, CycleStatus
  <1>3. bookWindow' = [bookWindow EXCEPT ![c] = <<start, end>>]
    <2>1. ASSUME NEW d \in Cycles
          PROVE  bookWindow'[d] = IF d = c THEN <<start, end>> ELSE bookWindow[d]
      <3>1. CASE d = c
        BY <1>1, <1>2, <3>1 DEF bookWindow, TypeOK
      <3>2. CASE d # c
        BY <1>1, <3>2 DEF bookWindow, TypeOK
      <3>3. QED
        BY <3>1, <3>2
    <2>2. QED
      BY <2>1 DEF bookWindow
  <1>4. bookWindow[c] = None
    BY <1>1 DEF bookWindow
  <1>5. Book!Open(c, start, end)
    BY <1>1, <1>3, <1>4 DEF Book!Open, bookWindow
  <1>6. QED
    BY <1>5 DEF Book!Next

\* Requests meet when a run or a payout begins.
LEMMA BookMeets ==
    ASSUME NEW c \in Cycles, NEW met \in SUBSET Overlap, Meets(c, met),
           UNCHANGED <<done, stamps, bookWindow, row, sent>>
    PROVE  Book!Next
  <1>1. Book!Meet(c, met)
    BY DEF Book!Meet, Meets, bookWindow
  <1>2. met \in SUBSET Book!Meeting
    BY DEF Overlap, Book!Meeting
  <1>3. QED
    BY <1>1, <1>2 DEF Book!Next

\* A run saves a row: the book allows it while nothing of the cycle is paid.
LEMMA BookEnters ==
    ASSUME SettlementInv, [Next]_vars, NEW r \in Requests, NEW payees, NEW step,
           SaveAndGoOn(r, payees, step), bookWindow' = bookWindow
    PROVE  Book!Next
  <1> DEFINE c == job[r].cycle
             p == job[r].payee
  <1>1. /\ ~ Free(r) /\ job[r].step = "save" /\ c \in Cycles /\ p \in Payees
        /\ job[r].work \in SUBSET Work
    BY JobAt DEF SaveAndGoOn, At, Free, SettlementInv
  <1>2. /\ row' = [row EXCEPT ![c][p] =
                     [work |-> job[r].work, status |-> IF @ = None THEN "pending" ELSE @.status]]
        /\ UNCHANGED <<done, stamps, sent, overlaps>>
    BY DEF SaveAndGoOn, Upsert, world
  <1>3. \A w \in job[r].work : Book!DoneInWindow(c, p, w)
    <2>1. \A w \in job[r].work : Worked(c, p, w)
      BY <1>1 DEF SettlementInv, WindowInv
    <2>2. QED
      BY <1>1, <2>1, BookWorked DEF SettlementInv
  <1>4. "run and payout" \in overlaps[c] \/ \A q \in Payees : ~ Book!IsPaid(c, q)
    <2>1. IsRun(r, c) /\ \A q \in Payees : ~ Allows(job[r].step, q)
      BY <1>1 DEF IsRun, Allows
    <2>2. "run and payout" \notin overlaps[c] => \A q \in Payees : ~ IsPaid(c, q)
      BY <1>1, <2>1 DEF SettlementInv, PayoutInv, Apart
    <2>3. QED
      BY <2>2 DEF IsPaid, Book!IsPaid
  <1>5. Book!Enter(c, p, job[r].work)
    BY <1>2, <1>3, <1>4 DEF Book!Enter, bookWindow, Payees
  <1>6. QED
    BY <1>1, <1>5 DEF Book!Next, Payees, Work

\* A payout is recorded: once and of what the row shows, unless requests have met.
LEMMA BookPays ==
    ASSUME SettlementInv, SentInv, [Next]_vars, NEW r \in Requests, At(r, "mark"), MarkPaid(r),
           bookWindow' = bookWindow
    PROVE  Book!Next
  <1> DEFINE c == job[r].cycle
             p == job[r].payee
  <1>1. /\ ~ Free(r) /\ job[r].step = "mark" /\ c \in Cycles /\ p \in Payees
        /\ job[r].work \in SUBSET Work
    BY JobAt DEF At, Free, SettlementInv
  <1>2. /\ row' = [row EXCEPT ![c][p].status = "paid"]
        /\ sent' = [sent EXCEPT ![c][p] = Append(@, job[r].work)]
        /\ UNCHANGED <<done, stamps, overlaps>>
    BY DEF MarkPaid, world
  <1>3. IsPayout(r, c, p) /\ row[c][p] # None
    BY <1>1 DEF IsPayout, SettlementInv, About
  <1>4. "two payouts" \in overlaps[c] \/ sent[c][p] = <<>>
    BY <1>1, <1>3 DEF SettlementInv, PayoutInv, PaidAlone
  <1>5. "run and payout" \in overlaps[c] \/ job[r].work = row[c][p].work
    BY <1>1, <1>3 DEF SettlementInv, PayoutInv, Apart
  <1>6. \A w \in job[r].work : Book!DoneInWindow(c, p, w)
    <2>1. \A w \in job[r].work : Worked(c, p, w)
      BY <1>1 DEF SentInv
    <2>2. QED
      BY <1>1, <2>1, BookWorked DEF SettlementInv
  <1>7. row' = [row EXCEPT ![c][p] = [work |-> @.work, status |-> "paid"]]
    <2>1. row[c][p] \in Settlement /\ row \in [Cycles -> [Payees -> Settlement \cup {None}]]
      BY <1>1, <1>3 DEF SettlementInv, TypeOK
    <2>2. [row[c][p] EXCEPT !.status = "paid"] = [work |-> row[c][p].work, status |-> "paid"]
      BY <2>1 DEF Settlement
    <2>3. QED
      BY <1>1, <1>2, <2>1, <2>2
  <1>8. Book!Pay(c, p, job[r].work)
    BY <1>2, <1>3, <1>4, <1>5, <1>6, <1>7 DEF Book!Pay, bookWindow
  <1>9. QED
    BY <1>1, <1>8 DEF Book!Next, Payees, Work

\* Steps of a request that neither begins nor writes a row are not in the book.
LEMMA BookMoves ==
    ASSUME TypeOK, NEW r \in Requests,
           \/ CheckRestaurants(r) \/ CheckPartners(r) \/ StartProcessing(r)
           \/ ListRestaurantsWithActivity(r) \/ ListPartnersWithActivity(r)
           \/ \E p \in Restaurants : ProcessRestaurant(r, p)
           \/ \E p \in Partners : ProcessPartner(r, p)
           \/ CompleteProcessing(r) \/ Abort(r)
    PROVE  UNCHANGED <<done, stamps, row, sent, overlaps>>
  BY DEF CheckRestaurants, CheckPartners, StartProcessing, ListRestaurantsWithActivity,
         ListPartnersWithActivity, ProcessRestaurant, ProcessPartner, Compute,
         CompleteProcessing, Abort, world

LEMMA BookStep == SettlementInv /\ SentInv /\ [Next]_vars => [Book!Next]_(Book!bookVars)
  <1> SUFFICES ASSUME SettlementInv, SentInv, [Next]_vars
               PROVE  Book!Next \/ UNCHANGED <<done, stamps, bookWindow, row, sent, overlaps>>
    BY DEF Book!bookVars, bookWindow
  <1>1. TypeOK /\ About
    BY DEF SettlementInv
  <1>2. CASE CycleStep
    BY <1>1, <1>2, BookOpens DEF CycleStep
  <1>3. CASE ~ CycleStep
    <2>1. bookWindow' = bookWindow
      BY <1>1, <1>3, WindowFrame
    <2>2. CASE WorldStep
      BY <1>1, <2>2, BookWorld
    <2>3. CASE RegisterRestaurantPayoutAccount \/ RegisterPartnerPayoutAccount \/ UNCHANGED vars
      BY <2>1, <2>3
      DEF RegisterRestaurantPayoutAccount, RegisterPartnerPayoutAccount,
          RegisterPayoutAccount, vars, world
    <2>4. ASSUME NEW r \in Requests, NEW c \in Cycles, ProcessCycle(r, c) PROVE Book!Next
      <3>1. UNCHANGED <<done, stamps, row, sent>>
        BY <2>4 DEF ProcessCycle, world
      <3>2. PICK met \in SUBSET Overlap : Meets(c, met)
        BY <2>4 DEF ProcessCycle, Overlap
      <3>3. QED
        BY <2>1, <3>1, <3>2, BookMeets
    <2>5. ASSUME NEW r \in Requests, NEW c \in Cycles, NEW p \in Payees, BeginPay(r, c, p)
          PROVE  Book!Next
      <3>1. UNCHANGED <<done, stamps, row, sent>>
        BY <2>5 DEF BeginPay, world
      <3>2. PICK met \in SUBSET Overlap : Meets(c, met)
        BY <2>5 DEF BeginPay, Overlap
      <3>3. QED
        BY <2>1, <3>1, <3>2, BookMeets
    <2>6. ASSUME NEW r \in Requests, UpsertRestaurantSettlement(r) \/ UpsertDeliverySettlement(r)
          PROVE  Book!Next
      BY <2>1, <2>6, BookEnters DEF UpsertRestaurantSettlement, UpsertDeliverySettlement
    <2>7. ASSUME NEW r \in Requests,
                 MarkRestaurantSettlementPaid(r) \/ MarkDeliverySettlementPaid(r)
          PROVE  Book!Next
      BY <2>1, <2>7, BookPays DEF MarkRestaurantSettlementPaid, MarkDeliverySettlementPaid
    <2>8. ASSUME NEW r \in Requests, ProcessStep(r),
                 ~ UpsertRestaurantSettlement(r), ~ UpsertDeliverySettlement(r)
          PROVE  Book!Next \/ UNCHANGED <<done, stamps, row, sent, overlaps>>
      BY <1>1, <2>4, <2>8, BookMoves DEF ProcessStep
    <2>9. ASSUME NEW r \in Requests, Abort(r) PROVE UNCHANGED <<done, stamps, row, sent, overlaps>>
      BY <1>1, <2>9, BookMoves
    <2>10. ASSUME NEW r \in Requests, PayStep(r) PROVE Book!Next
      BY <2>5, <2>7, <2>10 DEF PayStep, PayRestaurantSettlement, PayDeliverySettlement
    <2>11. QED
      BY <1>3, <2>1, <2>2, <2>3, <2>6, <2>8, <2>9, <2>10 DEF Next
  <1>4. QED
    BY <1>2, <1>3

\* Whatever requests do, entries are made from work done in the window, while
\* nothing of the cycle is paid, and paid once and as they are - or the requests
\* that break this have met.
THEOREM SettlementsImplementBook == Spec => ImplementsBook
  <1>1. Init => Book!Init
    BY DEF Init, Book!Init, Payees, Work
  <1>2. QED
    BY <1>1, BookStep, SentInvariant, PTL DEF Spec, ImplementsBook, Book!Spec

=============================================================================
