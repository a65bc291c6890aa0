---------------------------- MODULE Settlements ----------------------------
(***************************************************************************)
(* The Settlements module: settlement_service.go over repository.go over   *)
(* settlements.sql.  A cycle is a half-open window of days; processing it  *)
(* computes one row per restaurant and per delivery partner with activity  *)
(* in the window; an administrator records the payout of a row.            *)
(*                                                                         *)
(* Processing is one statement after the other over many rows, may stop    *)
(* anywhere and may be started again.  Orders go on being delivered, paid  *)
(* and refunded meanwhile, and rows can be paid as soon as they exist.     *)
(*                                                                         *)
(* What a row amounts to is abstracted to the set of the sales (delivered  *)
(* orders) or deliveries counted into it.  Its amount is a function of     *)
(* that set, except for the commission rate, which is fixed here.          *)
(***************************************************************************)
EXTENDS Integers, FiniteSets, Sequences

CONSTANTS
    Restaurants,         \* payees settled by SumSettlementData
    Partners,            \* payees settled by CountDelivered
    Sales,               \* orders, as a restaurant is paid for them
    Deliveries,          \* assignments, as a partner is paid for them
    Cycles,              \* the settlement_cycles rows that may be created
    Requests,            \* request slots: how many requests can be in flight
    NoJob,               \* job[r] of a slot that serves no request
    None,                \* no row
    LastDay,             \* bound: the days are 1 .. LastDay
    MaxFaults            \* bound: how many requests may stop half-way

VARIABLES
    today,
    done,                \* done[w]: who delivered w, and the day of its
                         \* delivered_at, or None
    delivered,           \* the work whose status is 'delivered'
    paid,                \* the sales whose payment_status is 'paid'
    stamps,              \* history variable, stamps[w]: the days delivered_at
                         \* of w has been set to
    cycle,               \* cycle[c]: the settlement_cycles row, or None
    row,                 \* row[c][p]: the settlement row of payee p, or None
    account,             \* the payees with a payout_accounts row
    job,                 \* job[r]: the request in slot r, or NoJob
    sent,                \* history variable, sent[c][p]: the payouts recorded,
                         \* each as the work the administrator saw in the row
    promised,            \* history variable, promised[c]: what was due when a run
                         \* of cycle c began, and has not been withdrawn or
                         \* moved out of the window since
    overlaps,            \* history variable, overlaps[c]: which requests about
                         \* cycle c have been in flight together
    faults               \* how many requests have stopped half-way so far

world == <<today, done, delivered, paid, stamps>>
vars == <<today, done, delivered, paid, stamps, cycle, row, account, job, sent, promised, overlaps, faults>>

-----------------------------------------------------------------------------
Payees == Restaurants \cup Partners

Work == Sales \cup Deliveries

Days == 1 .. LastDay

CycleStatus == {"open", "processing", "completed"}

\* 'processing' and 'failed' exist in the schema; no route sets them.
SettlementStatus == {"pending", "paid"}

Cycle == {c \in [start : Days, end : Days, status : CycleStatus] : c.start < c.end}

Settlement == [work : SUBSET Work, status : SettlementStatus]

Running == [step : {"checkRestaurants", "checkPartners", "start", "list"}, cycle : Cycles]
Computing == [step : {"restaurants", "partners"}, cycle : Cycles, todo : SUBSET Payees]
               \cup [step : {"save"}, cycle : Cycles, todo : SUBSET Payees,
                     payee : Payees, work : SUBSET Work]
Paying == [step : {"mark"}, cycle : Cycles, payee : Payees, work : SUBSET Work]

Job == Running \cup Computing \cup Paying

ASSUME SlotsAssumption ==
    /\ NoJob \notin Job
    /\ None \notin Cycle \cup Settlement \cup ((Payees \cup Days) \X Days)
    /\ Restaurants \cap Partners = {} /\ Sales \cap Deliveries = {}
    /\ LastDay \in Nat \ {0} /\ MaxFaults \in Nat

Overlap == {"two runs", "run and payout", "two payouts"}

TypeOK ==
    /\ today \in Days
    /\ done \in [Work -> (Payees \X Days) \cup {None}]
    /\ delivered \subseteq Work
    /\ paid \subseteq Sales
    /\ stamps \in [Work -> SUBSET Days]
    /\ cycle \in [Cycles -> Cycle \cup {None}]
    /\ row \in [Cycles -> [Payees -> Settlement \cup {None}]]
    /\ account \subseteq Payees
    /\ job \in [Requests -> Job \cup {NoJob}]
    /\ sent \in [Cycles -> [Payees -> Seq(SUBSET Work)]]
    /\ promised \in [Cycles -> SUBSET Work]
    /\ overlaps \in [Cycles -> SUBSET Overlap]
    /\ faults \in 0 .. MaxFaults

Init ==
    /\ today = 1
    /\ done = [w \in Work |-> None]
    /\ delivered = {}
    /\ paid = {}
    /\ stamps = [w \in Work |-> {}]
    /\ cycle = [c \in Cycles |-> None]
    /\ row = [c \in Cycles |-> [p \in Payees |-> None]]
    /\ account = {}
    /\ job = [r \in Requests |-> NoJob]
    /\ sent = [c \in Cycles |-> [p \in Payees |-> <<>>]]
    /\ promised = [c \in Cycles |-> {}]
    /\ overlaps = [c \in Cycles |-> {}]
    /\ faults = 0

Free(r) == job[r] = NoJob

At(r, step) == job[r] # NoJob /\ job[r].step = step

Become(r, newJob) == job' = [job EXCEPT ![r] = newJob]

Goto(r, step) == Become(r, [job[r] EXCEPT !.step = step])

\* The requests in flight that process cycle c, and those that pay one of its rows.
Runs(c) == {r \in Requests : job[r] \in Running \cup Computing /\ job[r].cycle = c}

Payouts(c) == {r \in Requests : job[r] \in Paying /\ job[r].cycle = c}

Meets(c, met) == overlaps' = [overlaps EXCEPT ![c] = @ \cup met]

IsPaid(c, p) == row[c][p] # None /\ row[c][p].status = "paid"

-----------------------------------------------------------------------------
(***************************************************************************)
(* What orders and deliveries do meanwhile.                                *)
(***************************************************************************)

NextDay ==
    /\ today < LastDay
    /\ today' = today + 1
    /\ UNCHANGED <<done, delivered, paid, stamps, cycle, row, account, job, sent, promised,
                   overlaps, faults>>

\* The days of cycle c, for the history variables and the properties.
Window(c) == cycle[c].start .. cycle[c].end - 1

\* MarkDelivered repeats the status it expects, so an assignment is delivered
\* once.  UpdateOrderStatus is by id alone: an update that read the order
\* earlier, or one that follows on a status written back, sets delivered_at
\* of an order again.
Deliver(w, p) ==
    /\ p \in IF w \in Sales THEN Restaurants ELSE Partners
    /\ done[w] # None => w \in Sales /\ p = done[w][1]
    /\ done' = [done EXCEPT ![w] = <<p, today>>]
    /\ delivered' = delivered \cup {w}
    /\ stamps' = [stamps EXCEPT ![w] = @ \cup {today}]
    /\ promised' = [c \in Cycles |-> {v \in promised[c] : v = w => today \in Window(c)}]
    /\ UNCHANGED <<today, paid, cycle, row, account, job, sent, overlaps, faults>>

\* SetPaymentStatus(paid); a repeated callback does it again after a refund.
Captured(w) ==
    /\ w \in Sales \ paid
    /\ paid' = paid \cup {w}
    /\ UNCHANGED <<today, done, delivered, stamps, cycle, row, account, job, sent, promised,
                   overlaps, faults>>

\* The order is refunded; or it gets another status from an update that read
\* it earlier, or the assignment is cancelled, although delivered.
Withdraw(w) ==
    /\ \/ w \in paid /\ paid' = paid \ {w} /\ UNCHANGED delivered
       \/ w \in delivered /\ delivered' = delivered \ {w} /\ UNCHANGED paid
    /\ promised' = [c \in Cycles |-> promised[c] \ {w}]
    /\ UNCHANGED <<today, done, stamps, cycle, row, account, job, sent, overlaps, faults>>

-----------------------------------------------------------------------------
(***************************************************************************)
(* Cycles: the window and what falls into it.                              *)
(***************************************************************************)

\* The index on (cycle_start, cycle_end) excludes equal windows only.
CreateCycle(c, start, end) ==
    /\ \A other \in Cycles :
         cycle[other] # None => <<cycle[other].start, cycle[other].end>> # <<start, end>>
    /\ cycle' = [cycle EXCEPT ![c] = [start |-> start, end |-> end, status |-> "open"]]

OpenCycle(c, start, end) ==
    /\ cycle[c] = None
    /\ start < end
    /\ CreateCycle(c, start, end)
    /\ UNCHANGED <<world, row, account, job, sent, promised, overlaps, faults>>

\* Mutant: the end day belongs to the window.
MutantWithin(c, day) == cycle[c].start <= day /\ day <= cycle[c].end

\* delivered_at >= from_ts AND delivered_at < to_ts
Within(c, day) == cycle[c].start <= day /\ day < cycle[c].end

\* status = 'delivered', for sales AND payment_status = 'paid'
due == {w \in delivered : w \in Sales => w \in paid}

\* What the two sums count for payee p.
SumSettlementData(c, p) ==
    {w \in Sales \cap due : done[w] # None /\ done[w][1] = p /\ Within(c, done[w][2])}

CountDelivered(c, p) ==
    {w \in Deliveries \cap due : done[w] # None /\ done[w][1] = p /\ Within(c, done[w][2])}

RestaurantsWithActivity(c) == {p \in Restaurants : SumSettlementData(c, p) # {}}

PartnersWithActivity(c) == {p \in Partners : CountDelivered(c, p) # {}}

-----------------------------------------------------------------------------
(***************************************************************************)
(* ProcessCycle.                                                           *)
(***************************************************************************)

MayProcess(c) == cycle[c] # None /\ cycle[c].status # "completed"

ProcessCycle(r, c) ==
    /\ Free(r)
    /\ MayProcess(c)
    /\ Become(r, [step |-> "checkRestaurants", cycle |-> c])
    /\ promised' = [promised EXCEPT ![c] =
                      UNION {SumSettlementData(c, p) \cup CountDelivered(c, p) : p \in Payees}]
    /\ Meets(c, (IF Runs(c) # {} THEN {"two runs"} ELSE {})
                  \cup (IF Payouts(c) # {} THEN {"run and payout"} ELSE {}))
    /\ UNCHANGED <<world, cycle, row, account, sent, faults>>

\* cycleHasAnyPaidSettlements reads the two tables in two statements.
NoneIsPaid(c, payees) == \A p \in payees : ~ IsPaid(c, p)

\* Mutant: the answer is not looked at.
MutantCheckRestaurants(r) ==
    /\ At(r, "checkRestaurants")
    /\ Goto(r, "checkPartners")
    /\ UNCHANGED <<world, cycle, row, account, sent, promised, overlaps, faults>>

CheckRestaurants(r) ==
    /\ At(r, "checkRestaurants")
    /\ IF NoneIsPaid(job[r].cycle, Restaurants) THEN Goto(r, "checkPartners") ELSE Become(r, NoJob)
    /\ UNCHANGED <<world, cycle, row, account, sent, promised, overlaps, faults>>

\* Mutant: the answer is not looked at.
MutantCheckPartners(r) ==
    /\ At(r, "checkPartners")
    /\ Goto(r, "start")
    /\ UNCHANGED <<world, cycle, row, account, sent, promised, overlaps, faults>>

CheckPartners(r) ==
    /\ At(r, "checkPartners")
    /\ IF NoneIsPaid(job[r].cycle, Partners) THEN Goto(r, "start") ELSE Become(r, NoJob)
    /\ UNCHANGED <<world, cycle, row, account, sent, promised, overlaps, faults>>

SetCycleStatus(c, status) == cycle' = [cycle EXCEPT ![c] = [@ EXCEPT !.status = status]]

StartProcessing(r) ==
    /\ At(r, "start")
    /\ SetCycleStatus(job[r].cycle, "processing")
    /\ Goto(r, "list")
    /\ UNCHANGED <<world, row, account, sent, promised, overlaps, faults>>

ListRestaurantsWithActivity(r) ==
    /\ At(r, "list")
    /\ Become(r, [step |-> "restaurants", cycle |-> job[r].cycle,
                  todo |-> RestaurantsWithActivity(job[r].cycle)])
    /\ UNCHANGED <<world, cycle, row, account, sent, promised, overlaps, faults>>

ListPartnersWithActivity(r) ==
    /\ At(r, "restaurants") /\ job[r].todo = {}
    /\ Become(r, [step |-> "partners", cycle |-> job[r].cycle,
                  todo |-> PartnersWithActivity(job[r].cycle)])
    /\ UNCHANGED <<world, cycle, row, account, sent, promised, overlaps, faults>>

\* The sum of one listed payee: nothing left of the activity is skipped,
\* anything else goes into the row in a statement of its own.
Compute(r, p, work) ==
    /\ p \in job[r].todo
    /\ Become(r, IF work = {} THEN [job[r] EXCEPT !.todo = @ \ {p}]
                 ELSE [step |-> "save", cycle |-> job[r].cycle, todo |-> job[r].todo \ {p},
                       payee |-> p, work |-> work])
    /\ UNCHANGED <<world, cycle, row, account, sent, promised, overlaps, faults>>

ProcessRestaurant(r, p) ==
    At(r, "restaurants") /\ Compute(r, p, SumSettlementData(job[r].cycle, p))

ProcessPartner(r, p) ==
    At(r, "partners") /\ Compute(r, p, CountDelivered(job[r].cycle, p))

\* Mutant: ON CONFLICT DO NOTHING.
MutantUpsertOnce(c, p, work) ==
    row' = [row EXCEPT ![c][p] = IF @ = None THEN [work |-> work, status |-> "pending"] ELSE @]

\* Mutant: ON CONFLICT DO UPDATE the status as well.
MutantReopen(c, p, work) == row' = [row EXCEPT ![c][p] = [work |-> work, status |-> "pending"]]

\* ON CONFLICT (cycle, payee) DO UPDATE: the status of an existing row stays.
Upsert(c, p, work) ==
    row' = [row EXCEPT ![c][p] =
              [work |-> work, status |-> IF @ = None THEN "pending" ELSE @.status]]

SaveAndGoOn(r, payees, step) ==
    /\ At(r, "save") /\ job[r].payee \in payees
    /\ Upsert(job[r].cycle, job[r].payee, job[r].work)
    /\ Become(r, [step |-> step, cycle |-> job[r].cycle, todo |-> job[r].todo])
    /\ UNCHANGED <<world, cycle, account, sent, promised, overlaps, faults>>

UpsertRestaurantSettlement(r) == SaveAndGoOn(r, Restaurants, "restaurants")

UpsertDeliverySettlement(r) == SaveAndGoOn(r, Partners, "partners")

CompleteProcessing(r) ==
    /\ At(r, "partners") /\ job[r].todo = {}
    /\ SetCycleStatus(job[r].cycle, "completed")
    /\ Become(r, NoJob)
    /\ UNCHANGED <<world, row, account, sent, promised, overlaps, faults>>

-----------------------------------------------------------------------------
(***************************************************************************)
(* Payouts.                                                                *)
(***************************************************************************)

\* An upsert; accounts are never removed.
RegisterPayoutAccount(p) ==
    /\ p \notin account
    /\ account' = account \cup {p}
    /\ UNCHANGED <<world, cycle, row, job, sent, promised, overlaps, faults>>

\* Owners register their restaurant, partners themselves.
RegisterRestaurantPayoutAccount == \E p \in Restaurants : RegisterPayoutAccount(p)

RegisterPartnerPayoutAccount == \E p \in Partners : RegisterPayoutAccount(p)

\* Mutant: any row can be paid.
MutantUnpaid(c, p) == row[c][p] # None

Unpaid(c, p) == row[c][p] # None /\ row[c][p].status # "paid"

BeginPay(r, c, p) ==
    /\ Free(r)
    /\ Unpaid(c, p)
    /\ p \in account
    /\ Become(r, [step |-> "mark", cycle |-> c, payee |-> p, work |-> row[c][p].work])
    /\ Meets(c, (IF Runs(c) # {} THEN {"run and payout"} ELSE {})
                  \cup (IF \E other \in Payouts(c) : job[other].payee = p
                        THEN {"two payouts"} ELSE {}))
    /\ UNCHANGED <<world, cycle, row, account, sent, promised, faults>>

PayRestaurantSettlement(r, c, p) == p \in Restaurants /\ BeginPay(r, c, p)

PayDeliverySettlement(r, c, p) == p \in Partners /\ BeginPay(r, c, p)

\* WHERE id only.  What the administrator is told, and the audit log keeps,
\* is the amount read at the beginning.
MarkPaid(r) ==
    LET c == job[r].cycle
        p == job[r].payee
    IN  /\ row' = [row EXCEPT ![c][p].status = "paid"]
        /\ sent' = [sent EXCEPT ![c][p] = Append(@, job[r].work)]
        /\ Become(r, NoJob)
        /\ UNCHANGED <<world, cycle, account, promised, overlaps, faults>>

MarkRestaurantSettlementPaid(r) == At(r, "mark") /\ job[r].payee \in Restaurants /\ MarkPaid(r)

MarkDeliverySettlementPaid(r) == At(r, "mark") /\ job[r].payee \in Partners /\ MarkPaid(r)

-----------------------------------------------------------------------------
\* A request ends before its next statement: an error is returned, or the
\* process stops.  What it has written stays.
Abort(r) ==
    /\ ~ Free(r)
    /\ faults < MaxFaults
    /\ faults' = faults + 1
    /\ Become(r, NoJob)
    /\ UNCHANGED <<world, cycle, row, account, sent, promised, overlaps>>

ProcessStep(r) ==
    \/ \E c \in Cycles : ProcessCycle(r, c)
    \/ CheckRestaurants(r)
    \/ CheckPartners(r)
    \/ StartProcessing(r)
    \/ ListRestaurantsWithActivity(r)
    \/ \E p \in Restaurants : ProcessRestaurant(r, p)
    \/ UpsertRestaurantSettlement(r)
    \/ ListPartnersWithActivity(r)
    \/ \E p \in Partners : ProcessPartner(r, p)
    \/ UpsertDeliverySettlement(r)
    \/ CompleteProcessing(r)

PayStep(r) ==
    \/ \E c \in Cycles, p \in Payees : PayRestaurantSettlement(r, c, p) \/ PayDeliverySettlement(r, c, p)
    \/ MarkRestaurantSettlementPaid(r)
    \/ MarkDeliverySettlementPaid(r)

WorldStep ==
    \/ NextDay
    \/ \E w \in Work : (\E p \in Payees : Deliver(w, p)) \/ Captured(w) \/ Withdraw(w)

CycleStep == \E c \in Cycles, start, end \in Days : OpenCycle(c, start, end)

Next ==
    \/ WorldStep
    \/ CycleStep
    \/ RegisterRestaurantPayoutAccount \/ RegisterPartnerPayoutAccount
    \/ \E r \in Requests : ProcessStep(r) \/ PayStep(r) \/ Abort(r)

Spec == Init /\ [][Next]_vars

-----------------------------------------------------------------------------
(***************************************************************************)
(* Properties.                                                             *)
(***************************************************************************)

\* Work w was delivered in the window of cycle c, or was so once.
Fell(c, w) == stamps[w] \cap Window(c) # {}

\* The window is half open: whatever has happened since to the order or the
\* assignment, a row holds only work of its payee that had, when it was summed,
\* been delivered on the start day or later and before the end day.  Cycles
\* whose windows meet at a day therefore settle the same work only if it was
\* delivered on two days.
RowsStayInWindow ==
    \A c \in Cycles, p \in Payees :
      row[c][p] # None =>
        \A w \in row[c][p].work : done[w] # None /\ done[w][1] = p /\ Fell(c, w)

\* A cycle that is completed has a row for everything that was due when a run
\* of it last began and has not been withdrawn, or delivered again outside the
\* window, since: the lists, the sums and the upserts leave nobody out, whether
\* earlier runs stopped half-way or not.
\* Two runs at once can lose work: the slower may save an older sum.
NothingMissed ==
    \A c \in Cycles :
      cycle[c] # None /\ cycle[c].status = "completed" /\ "two runs" \notin overlaps[c] =>
        \A w \in promised[c] :
          row[c][done[w][1]] # None /\ w \in row[c][done[w][1]].work

\* A paid row shows what the administrator paid, unless a run and a payout of
\* the cycle were in flight together: the guard against recomputing a cycle
\* with paid rows holds against every run that begins after the payout.
PaidAsComputed ==
    \A c \in Cycles, p \in Payees :
      IsPaid(c, p) /\ "run and payout" \notin overlaps[c] =>
        \A i \in DOMAIN sent[c][p] : sent[c][p][i] = row[c][p].work

\* ... and nobody is paid twice for a cycle, unless two payouts of a row were in
\* flight together; recomputing a cycle never reopens a paid row.
PaidOnce ==
    \A c \in Cycles, p \in Payees :
      "two payouts" \notin overlaps[c] => Len(sent[c][p]) <= 1

PayoutsMatchRows == PaidAsComputed /\ PaidOnce

\* As soon as one row of a cycle is paid the cycle is frozen, unless a run and
\* a payout of it were in flight together: a run that begins later stops at one
\* of its two checks, and neither the cycle's status nor any row's amount
\* changes again.  This is so for a cycle left 'processing' as well.
FrozenOncePaid ==
    [][\A c \in Cycles :
         (\E p \in Payees : IsPaid(c, p)) /\ "run and payout" \notin overlaps[c] =>
           /\ cycle'[c] = cycle[c]
           /\ \A q \in Payees : IF row[c][q] = None THEN row'[c][q] = None
                                ELSE row'[c][q].work = row[c][q].work]_vars

\* No work is paid twice, to anyone and in any cycle, unless two payouts of one
\* row were in flight together, or the work fell into the windows of two cycles:
\* they share a day (the index on settlement_cycles excludes equal windows
\* only), or the order was delivered in the one and again in the other.
WorkPaidOnce ==
    \A c, d \in Cycles, p, q \in Payees :
      \A i \in DOMAIN sent[c][p], j \in DOMAIN sent[d][q] :
        \A w \in sent[c][p][i] \cap sent[d][q][j] :
          /\ p = q
          /\ c # d => Fell(c, w) /\ Fell(d, w)
          /\ c = d /\ i # j => "two payouts" \in overlaps[c]

\* Whatever the requests do, entries and payouts change as PayoutBook allows.
Book == INSTANCE PayoutBook
          WITH days <- stamps,
               window <- [c \in Cycles |-> IF cycle[c] = None THEN None
                                           ELSE <<cycle[c].start, cycle[c].end>>],
               met <- overlaps

ImplementsBook == Book!Spec
=============================================================================
