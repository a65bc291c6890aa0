# TLA+ models of the food delivery backend

A specification of the state-changing core of this repository (a Go/Gin modular
monolith over PostgreSQL), model-checked with TLC and, where listed, proved with
TLAPS. Every action is translated from the Go service method, the repository
method and the SQL statement it stands for; `PROJECT.json` maps each definition
to its lines.

## How the program runs, and what that means for the models

* Each HTTP request is a goroutine; all requests share one PostgreSQL pool.
* Each SQL statement commits on its own at READ COMMITTED. Only
  `orders.Repository.Create` and `adminrbac.SetRolePermissions` use a
  transaction over several statements.
* A service method reads a row, decides in memory, and then executes
  `UPDATE ... WHERE id = $1`. Nothing locks the row and, with the exception of
  four assignment updates, no UPDATE repeats the condition that was checked.
* Secondary writes (history, counters, denormalised statuses) have their errors
  dropped (`_ =`).

So the atomic step of every model is one SQL statement (or one gateway call),
together with the checks in memory that follow or precede it without another
statement in between. A request that is in flight is a record in `req[r]` (`Orders`,
`Payments`) or `job[r]` (the others): which operation it runs, the step it stands
before, what it has read. `Requests` bounds how many are in flight at once, not how
many there are: a slot is reused. Any request may end before any of its statements
(`Abort`): the statement failed and its error was returned, the client went away and
the context was cancelled, or the process stopped. All three leave the same
database. `MaxFaults` bounds how often that happens in one behaviour, in the modules
where it matters how often.

Variables called *history variables* below are not in the program: they record
what has happened so that a property can speak of it. No guard reads them.

## Inventory

| Component | State | Operations | Interactions | What is hard |
|---|---|---|---|---|
| **Orders** (`modules/orders`) | `orders` (status, four milestone timestamps, `cancelled_at`, `payment_status`), `order_items`, `order_status_history` | Checkout, UpdateStatus, Cancel, SetPaymentStatus | reads Cart and Restaurants; called by Payments and Delivery; notifies | check and UPDATE are apart; history and notification follow later and may fail |
| **Payments** (`modules/payments`) | `payment_transactions`, `refunds`, `saved_payment_methods` | Initiate, Capture, MarkFailed, Refund, Webhook, saved methods | gateway; writes `orders.payment_status`; audit log | callbacks late, twice, reordered; two stores and a gateway without a common commit; balance check before a slow call |
| **Delivery** (`modules/delivery`) | `delivery_partners` (KYC, online, location, `active_assignment_count`), `delivery_assignments` | RegisterPartner, AdminReviewKYC, SetOnline, UpdateLocation, FindAndOffer, Accept, Reject, MarkPickedUp, MarkDelivered, Cancel | calls `OrderService.UpdateStatus` | a denormalised counter maintained by separate statements; order and assignment must move together |
| **Settlements** (`modules/settlements`) | cycles, restaurant and delivery settlements, payout accounts | OpenCycle, ProcessCycle, Pay..., RegisterPayoutAccount | sums of Orders and Delivery | recomputation racing a payout; a cycle that stops half-way |
| **Cart** (`modules/cart`) | one cart per customer, items | AddItem, UpdateItemQuantity, RemoveItem, ClearCart | reads Menu; read and cleared by Checkout | one-restaurant rule over several statements; checkout racing an edit |
| **Identity** (`modules/identity`) | OTP codes, refresh tokens in families | RequestOTP, VerifyOTP, RefreshTokens, Logout, LogoutAllDevices | Users | single use of codes and tokens under concurrent requests; reuse detection after a half-finished rotation |
| **Restaurants** | restaurant, documents, staff | Onboard, SubmitForApproval, AdminReview, SetAcceptingOrders, ReviewDocument, staff | read by Checkout | approval against documents reviewed concurrently |
| **Menu** | categories, items, variants, add-ons | CRUD, availability | read by Cart | availability read at one time and used at another |
| **Notifications** | notification rows, preferences, device tokens | Notify, MarkRead, preferences | called by Orders, Payments, Delivery | best-effort |
| **Admin RBAC** | roles, permissions, grants, audit log | role CRUD, grants, LogAction | permission middleware, Payments | replacing a role's permissions (transactional) |
| **Users** | profile, addresses | CRUD | Identity | default address |
| **Search** | none (queries) | search | Restaurants, Menu | none |
| **Platform** | Redis counters of the rate limiter | RateLimit, auth and permission middleware | every route | INCR and EXPIRE are two commands |
| **Wiring** (`cmd/api`, `config`) | none | start-up | all | none |

What makes each correct, in the order of importance:

1. **Orders**: an order follows `allowedTransitions`; terminal is terminal;
   timestamps, history and notifications agree with what the order went through.
2. **Payments**: paid implies charged; what is shown as refunded was paid back;
   refunds stay within the captured amount; a capture reaches the order.
3. **Delivery**: the counter agrees with the open assignments; nobody carries
   more than the cap; order and assignment move together.
4. **Settlements**: a payee gets what was earned in the window, all of it, once;
   a paid amount is never changed.
5. **Cart and checkout**: a cart has only what was asked for from its restaurant;
   what is ordered is what was in the cart, ordered once; nothing vanishes.
6. **Identity and users**: a code and a refresh token are good for one use; a
   reused token ends its family; limits are limits; a deleted user stays out.
7. **Restaurants**: what was complete at submission stays on file; hours are
   replaced, not duplicated; "verified" is true of every document.
8. **Admin RBAC**: a role has what it was last asked to have; nothing survives a
   deleted role.
9. **Menu**: what a restaurant keeps is on the menu its customers see.

## Modules

| Module | Models |
|---|---|
| `OrderStates` | the status machine of `orders/domain/entity.go` as constant operators, shared by the modules below |
| `OrderLifecycle` | abstract specification: one atomic step per allowed transition, no requests |
| `Orders` | `order_service.go` over `repository.go` over `orders.sql`: `UpdateStatus` and `Cancel` as requests of up to four statements, and the insertion of an order |
| `OrdersSerial` | `Orders` restricted to behaviours in which requests about one order do not overlap; refines `OrderLifecycle` |
| `Payments` | `payment_service.go`: Initiate, Capture, MarkFailed, Refund, and the gateway |
| `PaymentBook` | abstract specification: the platform's and the gateway's books, every change justified by the books of the moment, no requests |
| `Delivery` | `delivery_service.go`: partners, dispatch, assignments, the active counter |
| `Fulfilment` | composes `Delivery` (whole) with the order row and `UpdateStatus` as both a delivery request and the restaurant or customer use it |
| `Settlements` | `settlement_service.go`: cycles, `ProcessCycle` statement by statement, payouts, with the sales and deliveries that are summed |
| `PayoutBook` | abstract specification: entries made and paid in one step each, no runs and no requests |
| `Menu` | `menu_service.go`: categories, items, option rows |
| `Storefront` | composes `Menu` (whole) with `cart_service.go` and `Checkout` of `order_service.go` |
| `Restaurants` | `restaurant_service.go`: onboarding, hours, documents, staff, submission, review, opening |
| `Accounts` | `auth_service.go` and the life of the `users` row: one-time codes, sessions, refresh token families |
| `AdminRBAC` | `rbac_service.go` and the permission middleware: roles, permissions, grants |
| `OrdersProofs`, `PaymentsProofs`, `DeliveryProofs`, `SettlementsProofs`, `StorefrontProofs`, `RestaurantsProofs`, `AccountsProofs`, `AdminRBACProofs` | TLAPS proofs about the modules above |
| `MC*` | symmetry sets and constants for TLC |

Operators called `Mutant...` stand next to the definition they vary. No
specification uses them: each is the plausible bug that some property must be
able to tell from the code.

### Orders

`status`, `stamps` (which timestamp columns are set), `history` and `notified`
(as sets: which statuses have a line, which were announced) are the rows;
`req` the requests. `BeginUpdate` and `BeginCancel` are the read with the
check (`order_service.go` 193-199, 218-227), `Refuse` the conflict, `Write` the
UPDATE, `Record`/`RecordFails` the history insert with its dropped error,
`Notify` the last step. An order is placed in one step, because order and items
are inserted in one transaction; what comes before it is in `Storefront`.
`held` and `lost` are history variables.

### Payments

`payStatus` is `orders.payment_status`, `cancelled` the cancelled orders (the
only thing Initiate asks of the status), `txOrder`/`txStatus`/`latest` the
transaction rows, `refunded` the sum of completed refund rows (pending and failed
rows count for nobody, so they are in `req` only), `charged` and `paidBack` the
gateway's books, `audited` the audit log. `Pay` is the customer at the gateway:
it needs only a created gateway order, so it may come after a cancellation, and
for more than one transaction of one order. `BeginCapture` takes both a genuine
callback, which exists only once the customer has paid, and one whose signature
does not verify (a wrong or mangled callback): `Capture` marks the transaction
failed for the latter. Callbacks may be repeated at any time. A failing
`SetPaymentStatus` in `Capture` and a request that ends before it leave the same
database, so both are `Abort`. Amounts are integers; `Epsilon` is the 0.01.
History variables: `overlapped` (orders that had two refunds between check and
completion at once), `adrift` (an update of the order was lost), `unbooked` (the
gateway has paid a refund and the request ended before it was booked).

`PaymentBook` is the same without requests: an order is settled only when it is
charged, closed only when its booked refunds cover it, money is paid back only
within the captured amount (unless the order is `loose`: overlapped or unbooked),
booked only when paid back and audited only when booked. `ImplementsBook` says that
`Payments`, which decides on what it has read some statements before it writes,
makes no other changes than these. Notifications of this module change nothing it
reads and are left out.

### Delivery and Fulfilment

`asg[a]` is an assignment row; the unique index of
`0009_delivery.up.sql` is in `CreateAssignment`. `Accept`, `Reject`,
`MarkPickedUp` and `MarkDelivered` carry the status guard of their UPDATE,
`Cancel` has none, as in `delivery.sql`. The counter is adjusted in a later step
of the same request. Distance is abstracted: any available partner may be the
nearest. Partners start as `RegisterPartner` inserts them. `excuses` is the
history variable that names what has gone wrong with a partner's counter:
`overlap` (two dispatches chose the partner before either was counted),
`uncounted` and `unreleased` (a counter statement was lost), `stray` (an
assignment that was over was cancelled), `floored` (a decrement found 0).
`LoadAccountedFor` has two halves, `LoadNeverUnderstated` and
`LoadNeverOverstated`, each with the excuses that concern it.

`Fulfilment` adds the order row. `SyncDecides` and `SyncWrites` are
`OrderService.UpdateStatus` called from a delivery request, `SyncRefused` its
conflict, which the caller drops; `BeginUpdate` and `StaffWrites` are the
restaurant's or customer's own requests.

### Settlements

`today`, `done` (who delivered what, and the day in `delivered_at`), `delivered`
(what has that status) and `paid` (the orders with that payment status) stand for
the tables of Orders and Delivery that the sums are taken from; `due` is what the
sums count of them. `Deliver`, `Captured` and `Withdraw` change them at any time,
`Withdraw` for refunds, for cancellations after delivery and for an order whose
status a request that read it earlier writes back. An assignment is delivered once
(the UPDATE repeats the status); an order may be delivered again, on a later day,
because `UpdateOrderStatus` is by id alone and sets `delivered_at` each time
(`orders.sql:42-50`). `cycle`, `row` and `account` are the tables of the module. A run
of `ProcessCycle` is `CheckRestaurants`, `CheckPartners`, `StartProcessing`, the
list of restaurants, a sum and an upsert for each of them, the list of partners,
a sum and an upsert for each, `CompleteProcessing`; each is a statement, and the
request may end before any. A payout is the read with its checks (`BeginPay`)
and the UPDATE by id (`MarkPaid`). The amount of a row is a function of the set
of work counted into it, so the row keeps the set. History variables: `sent`
(what the administrator was shown when paying), `stamps` (the days `delivered_at`
has been set to), `promised` (what was due when a run of the cycle began and has
neither been withdrawn nor been delivered again outside the window since), `overlaps` (which
requests about a cycle have met).

`PayoutBook` has the work, the windows, the rows and `sent`, and neither runs nor
requests: work is done by one payee, perhaps on several days (`days`, which is
`stamps`); an entry is made from work done in the window while nothing of the cycle
is paid, and paid once, as entered. Its `met` is `overlaps`; a promise is given up
only for the cycle whose requests have met. `ImplementsBook` states the refinement.

### Menu and Storefront

`category`, `item` and `options` are rows, `draft` a `CreateItem` between its
check of the category and its insert. `DeleteItem` sets `deleted` and keeps the
row; `DeleteCategory` removes the rows of its items, soft-deleted ones included,
unless a cart line refers to one (`inUse`). `Shown` is what `GetFullMenu` lists.

`Storefront` adds one customer's `cart` and `line` rows. `AddItem` takes the item and
the restaurant as the request names them, two fields which nothing compares
(`cart_handler.go:43-65`), so a cart may hold another restaurant's items; it finds
the cart and decides; `ClearItems`, `DropCart`, `CreateCart`, `InsertItem` and
`AddItemAddon` are its statements when it switches restaurants. `Checkout` finds
the cart, `ListPricedItems` reads the lines with their items in one query and
`ListAddons` their add-ons in a query for each line (a line that changes or goes
meanwhile is read with any total), `GetRestaurant` checks the minimum amount, `PlaceOrder` inserts, `FindCart` and `EmptyCart` are
the clearing at the end, whose error is dropped. The quantity, variant and
add-ons of a line come together as its `total`. `ordered[l]` counts the orders
that hold line `l`; `late`, `mishaps` and the field `wanted` of a line are history:
the restaurant the customer asked for with the line, what came or changed after a checkout in flight had read the cart, and whether checkouts have
overlapped or left a cart unemptied.

### Restaurants

`restaurant`, `hours` (how many rows a day has), `document` (the `kyc_status` of
each type's row) and `staff` are rows. `SetOperatingHours` deletes the day's rows
and `InsertHours` inserts one, without a transaction; `SubmitForApproval` checks
status, hours and documents in three reads before `SetStatus`; `ReviewDocument`
writes the document, lists the restaurant's documents and writes
`restaurants.kyc_status` in three statements. The document comes from the path and
the restaurant from the body, and nothing compares the two
(`restaurant_handler.go:462-494`): `ReviewElsewhere` is the first statement of a
review of this restaurant's document with another restaurant's id, `ReviewForeign`
begins a review of another's document with this one's id. `SubmitForApproval` and `AdminReview` are the decisions about the
status; both check it and write it by id in a later statement, as
`SetAcceptingOrders` does. History variables: `unsure`, the days last set by
requests that overlapped or broke off; `disturbed`, which says that a document was
uploaded or reviewed beside a review, uploaded (or rejected with another
restaurant's id) after the verdict, or a review broke off; `contested`, which says that a decision was begun while another was still to
write its status.

### Accounts

One phone number: its `users` row, the one-time codes sent to it, and the refresh
tokens of its user. `RequestOTP` counts and inserts; `VerifyOTP`
reads the latest active code and compares, then `IncrementOTPAttempt` or
`ConsumeOTP`, `FindUser`, `CreateUser`, `StartSession`; `RefreshTokens` reads the
token, then ends the family (`RevokeRefreshTokenFamily`) or goes on to
`CheckUser`, `RevokeRefreshToken`, `CreateRefreshToken`. Codes and tokens expire at
any time. The resend cooldown is left out: it does no more than refuse a request, and
not for certain, because a failed read of the latest code skips it. The 24 hours that
the daily cap looks back do not end, so a cap of codes is one in all. History variables: `logins`
(sessions per code), `overlaps`, and `overtaken` (requests in flight when the user
was deleted). A session is a family: `Open(f)` while a token of it is valid or it is
being refreshed.

### AdminRBAC

`exists`, `perms` and `granted` are the committed rows. `SetRolePermissions` is
the one method besides the insertion of an order that runs in a transaction of
several statements: `Clear` and `DeleteRows` are its DELETE, which at READ
COMMITTED waits for transactions that have touched its rows (`Locked`) and does
not see what they have inserted meanwhile; `AddRolePermission` is one INSERT ...
ON CONFLICT DO NOTHING; `Commit` publishes, `Rollback` undoes. Every request
passes `HasPermission` first, at the time it arrives. `asked`, `mixing` and
`mixed` are history variables: what the last replacement to commit was to give a
role, and whether replacements of one role overlapped.

## Runs

| Run | Instance | Shows |
|---|---|---|
| `orders` | 1 order, 2 requests, 2 failures | `TypeOK`, `MilestonesInOrder`, `WitnessesHeld`, `TrailAccountsForAll`, `TerminalOnceQuiet` |
| `orders_serial` | 2 orders, 2 requests, 1 failure | without overlap on one order: `ImplementsLifecycle` (refinement), `TimelineInOrder`, `NoticesAreCurrent`, `NoticeFollows` (liveness) |
| `payments` | 1 order, 2 transactions, 2 requests, amounts 2 and 5 of 4, epsilon 1, 1 failure | `PaidIsCharged`, `RefundsAreReal`, `RefundedInFull`, `BalanceKeptWithoutOverlap`, `CaptureReachesOrder`, `FailedStaysFailed`, `ImplementsBook` |
| `payments_over_refund` | as `payments` | expected violation of `RefundsWithinCapture` |
| `delivery` | 1 partner, 2 orders, 3 assignments, 2 requests, cap 1, 1 failure | `LoadAccountedFor`, `CapKept` |
| `fulfilment` | 1 order, 1 partner, 2 assignments, 1 delivery request, 2 others, 1 failure | `DriftExplained` |
| `settlements` | 1 restaurant with 1 sale, 1 partner with 2 deliveries, 2 cycles, 2 requests, 3 days, 1 failure, within `Bounded` | `RowsStayInWindow`, `NothingMissed`, `PayoutsMatchRows`, `WorkPaidOnce`, `FrozenOncePaid`, `ImplementsBook` |
| `menu` | 2 restaurants, 2 categories, 2 items, 4 edits | `HiddenOnlyIfMoved` |
| `storefront` | 2 restaurants, 1 category, 1 item, 2 cart rows, 2 lines, 2 requests, totals up to 2, minimum 2, 1 edit of the menu | `OneRestaurantPerCart`, `OrderedOnce`, `NothingVanishes` |
| `restaurants` | 2 required and 1 optional document, 1 day, 1 staff user, 2 requests | `SubmittedIsComplete`, `HoursReplaced`, `VerifiedMeansVerified`, `OpenMeansApproved` |
| `accounts` | cap of 1 code and 1 attempt, 3 tokens, 2 requests | `LimitsNearlyKept`, `OneSessionPerCode`, `OneLiveToken`, `EndedStaysEnded`, `DeletedStaysOut` |
| `admin_rbac` | the system role and 1 custom role, 2 administrators, 2 permissions, 2 requests | `RolesInv` (`RoleIsAsAsked`, `NothingLeftBehind`, well-formedness) |

The type invariants of `Payments`, `Delivery`, `Settlements`, `Storefront`,
`Restaurants` and `Accounts` are proved (`TypeCorrect`, `StorefrontTypeCorrect`) and
not run.

**Why these bounds are enough to be interesting.** Two requests are the smallest
number that interleave, and no property here needs a third to be broken: the
proofs, which hold for any number of requests, confirm that for every safety
property. Operations on different orders, carts,
restaurants or phone numbers share nothing, so one of each is enough (the one way
two restaurants meet, a review with the wrong id, is in `Restaurants` as what it does
to either); two orders
are used where they compete (for a partner in `delivery`) or where the
refinement must keep them apart (`orders_serial`), two restaurants where a cart
switches between them. Two transactions give a latest one and an older one;
three assignments give an order that is offered again after a rejection while
another order is offered. In `payments` the amount 2 is a partial refund (two of
them are full) and 5 uses up the epsilon. `settlements` is checked within a
constraint, `Bounded` in `MCSettlements`, as everything at once has too many states:
either one cycle over the first days with two requests, both kinds of payee and a
failure, or two cycles, which may share days or not, with the sale and one request at
a time. In both the order may be withdrawn and delivered again. The third day lets two
windows be disjoint with an order delivered in each, or meet at a day that is in
neither or one of them; two deliveries make a row that changes between two runs. Two cart rows allow
a switch of restaurant and a cart that is found and then gone; a minimum of 2
makes one line too little and two enough, or one line of total 2; one item is enough
for a cart that is asked for its own restaurant's items and for another's. Three tokens
give a family a successor and its successor, or two families. One failure is
enough for each property to have its excuse used; two let a second request fail
after the first one's loss. `menu`, `storefront`, `restaurants`, `accounts` and
`admin_rbac` set no bound on failures.

**Symmetry.** Orders, transactions, partners, assignments, payees, rows and slots
are interchangeable model values; no definition orders or chooses among them. The
run that checks liveness, `orders_serial`, declares no symmetry, which would not
be sound there. In `fulfilment` the delivery slot and the other slots are
different sets and are permuted separately.

**Deadlock.** Checked in all runs but four, in which the system may really stop or
the bound on rows stops it: an order that was cancelled unpaid, with no request in
flight (both runs of `Payments`), a menu after its last category (`menu`), and in
`admin_rbac` the revocation of the last role that may assign roles, after which
every request is refused.

**Fairness and liveness.** Two things run by themselves: the goroutine of a
request is scheduled until it ends, and the database answers each statement or
fails it. `FairSerialSpec` assumes just that, weak fairness of the remaining
steps of each request in flight, and the run `orders_serial` checks under it that
every status an order enters is announced (`NoticeFollows`). Nothing else is
owed: the code has no background worker, retry loop or timer that would take up
what a request left undone, and no client is obliged to ask again. So no
property says that a lost update is made good; the safety properties name
instead what is left behind: `lost` in `TrailAccountsForAll`, `adrift` in
`CaptureReachesOrder`, `unreleased` in `LoadAccountedFor`, `unsynced` in
`DriftExplained`, the cycle left 'processing' in `FrozenOncePaid`, the cart that
was not emptied in `OrderedOnce`, `unsure` in `HoursReplaced`.

## What was found

One statement of the repository about itself is contradicted by a run
(`payments_over_refund`; the quotes are in `PROJECT.json`): two overlapping
refunds return more than was captured, contrary to the comment on `Refund`.
`BalanceKeptWithoutOverlap` says, and `BalanceCorrect` proves, when the promise is
kept.

What else the modelling met, without a run of its own. Where a property's excuse
stands for it, the property is named:

* "Terminal" statuses (`orders/domain/entity_test.go:30`) are left by a request
  that read the order earlier (`TerminalOnceQuiet`).
* A pickup before the restaurant marked the order ready leaves the order behind,
  contrary to `delivery_service.go:191` (`refused` in `DriftExplained`).
* The counter that `0009_delivery.up.sql:34` keeps "in sync" loses a slot when an
  offer is rejected before it is counted (`floored` in `LoadAccountedFor`).
* `cart_service.go:39-42` says the cart is re-pointed "rather than
  deleting/recreating the cart row"; the code deletes and recreates it.
* `restaurant_service.go:83-86` says a submission requires a service area; it is
  never checked.
* A cart may hold items of another restaurant than its own, although
  `cart_service.go:20-25` and `0006_cart.up.sql:3` say one restaurant per cart: what is
  kept is the restaurant that the request names (`OneRestaurantPerCart`).
* A document rejected with another restaurant's id leaves its own restaurant
  'verified' (`restaurant_handler.go:462-494`; `disturbed` in `VerifiedMeansVerified`).
* The resend cooldown is skipped when the latest code cannot be read
  (`auth_service.go:49`).
* Migration 0004 provides for several shifts a day; `SetOperatingHours` deletes
  the day's rows before it inserts one (`HoursReplaced`).
* `docs/model-catalog.md:51` names 'suspended' and 'closed' restaurants; no route
  leads there.
* `ListPricedItems` does not look at `deleted_at`: a deleted dish that is in a cart
  is ordered.
* A deactivated user is refused, a suspended one is not: no code reads
  `users.status`. `LogoutAllDevices` has no route.
* A revoked staff member is not added again: `AddStaff` meets the old row.
* An order that is marked delivered again is stamped again (`orders.sql:48`), so a
  second cycle settles it once more, however disjoint the windows are
  (`WorkPaidOnce`), or a run under way misses it (`promised` in `NothingMissed`).
* Cycles whose windows overlap settle the same work twice: nothing compares
  windows. A cycle can be processed before its window is over, and work that
  becomes due after a cycle is completed (a late capture) is never settled:
  `NothingMissed` promises only what was due when the run began.
* The last administrator who may assign roles can be deprived of it.
* Every amount goes through `pgtype.Numeric.Scan(float64)` with its error dropped;
  the models assume that the conversion succeeds.

## Proofs

All theorems hold for every value of the constants: any set of orders,
transactions, rows and request slots, any amounts and limits, any number of
failures. They assume what the modules state as named assumptions, which TLC
evaluates in every run: the markers (`NoJob`, `None`, `Gone`) are not requests or
rows; bounds and amounts are natural numbers, a refund is above 0; payees and work
of different kinds are different; `Delivery` and `Accounts`, which count, have
finitely many slots (and assignments); `Staff` and `Requests` are different.

Of the properties only the type invariants and a few others are inductive by
themselves. What each module's inductive invariant adds, and why it is needed:

**`OrdersProofs`.** `MilestonesInOrder` needs to know that a check made on an
*earlier* status stays meaningful: `JobInv` says that what a pending request saw
is a status the row has held (`held` only grows), and `RowInv` that the held
statuses are closed under "came through" (ready implies preparing implies
confirmed) and that the columns are stamped for exactly the milestones among them.
A transition allowed from a held status then preserves the closure, whatever the
row's present status is. `OrdersInv` joins these with `TypeOK` and
`WitnessesHeld`; `TerminalCorrect` is a step argument on it.
`SerialImplementsLifecycle` adds `SerialInv` (a request about to write saw the
row's present status) and maps each step to an `Advance`, `Place` or stutter of
`OrderLifecycle`. `TimelineInv` says of a serial order that its history is in
order and that a line still to be written belongs to the present status.

**`PaymentsProofs`.** `Writers` lists once which statements write which column;
`Grows` says that a transaction keeps its order, a charge is not undone and the sum
of completed refunds only grows. `PaymentsInv` strengthens `PaidIsCharged` and
`RefundedInFull` with `JobInv` (a request's transaction belongs to its order;
genuine callbacks and refunds are about charged transactions; the sum a refund has
read is at most the present one, and includes its own amount once completed) and
`RowsInv`. `RefundsAreReal` relates sums over rows to what requests have still to
book: `FundsInv` counts the money a request holds unit by unit, as a set of pairs of
request and number, so that what all requests hold together is a cardinality, and a
step, which changes one request, adds or removes that request's units (no induction
over the requests is needed). It is an equation for an order none of whose paid
refunds was lost, and otherwise an inequality. `BalanceInv`: on an order that never
had overlapping refunds at most one refund is in flight, and its amount still fits.
`CaptureReachesCorrect` and `FailedCorrect` follow step by step from `PaymentsInv`;
the second rests on `Moving(t)`, the requests that checked a transaction before it
failed: once there are none, none can join. With `FundsInv` and `BalanceInv` every
step maps to one of `PaymentBook`, or to none (`PaymentsImplementBook`).

**`DeliveryProofs`.** `Balanced(p)` is two inequalities over cardinalities (open
assignments and releases to come against the counter and increments to come), and
the cap over open assignments and those about to be created, each up to its
excuses. Every step changes one row and one request, so each cardinality changes
by one at most (`CountsAfter`). `FulfilmentIsDelivery` shows that the composition
takes only Delivery's steps, which carries these theorems over. `FulfilmentInv`
adds that a pending UPDATE was allowed from the status it saw (`UpdateInv`), that
a request's assignment exists (`Errands`), and that the order of an assignment
picked up or delivered, and not explained, has followed or has a request on its
way to it (`FollowInv`).

**`SettlementsProofs`.** `WindowInv`: what a run has summed had been done in the
window, as had what a row holds; work keeps its payee and the days it was done on
only become more, so this stays true when an order is delivered again. `PayoutInv`: a
payout that meets no other has seen the row it is to mark, and a run that meets no
payout saves only while no row of its cycle is paid; the two checks being two
reads, this is needed per payee kind and per step. `RunInv`: what an undisturbed
run was promised is saved, or summed and about to be saved, or of a payee still on
its list (`Covered`), and a run before its lists has everything ahead of it.
`SentInv`: what has been or is being paid was done by the payee in the window.
`WorkPaidOnceCorrect` follows with `PayoutInv`: work has one payee, so two payouts of
it are of one row or of two cycles in whose windows it was done.
`SettlementsImplementBook` maps upserts to `Enter`, the marking to `Pay`, and the
statements at which requests meet to `Meet`.

**`StorefrontProofs`.** `RowsInv` and `DraftInv` for the menu (`CreateItem`
inserts under a category checked earlier, which may be gone but is not another
restaurant's). `StorefrontIsMenu` shows that the composition takes only Menu's
steps. `OneCart` and `WishInv`: the cart an `AddItem` has found is of the restaurant it was
asked for or gone, and rows are not reused. `ReadInv`: what a checkout has read
of a line is the line, unless the line is `late`. `OnceInv`: without a mishap an
ordered line that still exists is about to be removed by the checkout that
ordered it.

**`RestaurantsProofs`.** `CompleteInv` extends `SubmittedIsComplete` to requests
that have checked and not yet written; `HoursInv` says that a day outside `unsure`
has one replacement at most; `ReviewInv` that an undisturbed review is alone, and
that a verdict which is about to be 'verified' is true of the restaurant's own
documents, whoever's document was reviewed. `OpenInv`: while nobody
contests the status one decision at most is under way, about a restaurant that is
not approved, and whoever is opening a restaurant has found it approved and it still
is; an approved restaurant is neither submitted nor reviewed again, so the check of
`SetAcceptingOrders` does not go stale.

**`AccountsProofs`.** `CodeInv`: without overlap, a code that is active or being
verified has started no session. `TokenInv`: without overlap, the valid token of a
family is the one its refresh in flight is about to revoke. `Over(f)`: nothing valid
is left of family f and nobody is refreshing it; then no step gives it a token
(`NextKeepsTokens`), since a presented token that is not valid leads to the end of
the family and never to a renewal, and `ReuseEnds` is the step that brings it about.
`DeletedInv` says who can still write after a deletion. `LimitsInv` counts the
requests about to insert or increment against the slots.

**`AdminRBACProofs`.** `Undisturbed`: a replacement that overlaps no other deletes
all committed rows and has inserted or is to insert what it was asked for.
`CleanInv`: a role without a row has nothing.

| Theorem | What it establishes |
|---|---|
| `OrdersProofs!TypeCorrect` | `TypeOK`: Every reachable state of Orders is well typed, for any orders, request slots and number of failures. |
| `OrdersProofs!MilestonesCorrect` | `MilestonesInOrder`: The milestone columns fill in lifecycle order however requests overlap and fail. |
| `OrdersProofs!WitnessesCorrect` | `WitnessesHeld`: History lines and notifications name only statuses the order row has really held. |
| `OrdersProofs!TrailCorrect` | `TrailAccountsForAll`: A status the row has held lacks its history line only while the line is being written or because writing it failed. |
| `OrdersProofs!TerminalCorrect` | `TerminalOnceQuiet`: A terminal order with no pending write is never moved again and gets no new pending write. |
| `PaymentsProofs!TypeCorrect` | Every reachable state of Payments is well typed, for any orders, transactions, request slots, amounts and number of failures. |
| `PaymentsProofs!PaidIsChargedCorrect` | `PaidIsCharged`: However callbacks, failure reports and refunds interleave and fail, an order or transaction counts as paid or refunded only when the customer was charged. |
| `PaymentsProofs!RefundedInFullCorrect` | `RefundedInFull`: Orders and transactions shown as refunded are covered by completed refunds, although Refund decides on a sum it read earlier. |
| `PaymentsProofs!BalanceCorrect` | `BalanceKeptWithoutOverlap`: Refunds of an order stay within the captured amount as long as no two of them are between check and completion at once, and so does what the gateway pays back unless it paid a refund that was never booked. |
| `PaymentsProofs!RefundsAreRealCorrect` | `RefundsAreReal`: What is audited was booked and what is booked as refunded was paid back by the gateway, wherever requests end and however many overlap. |
| `PaymentsProofs!FailedCorrect` | `FailedStaysFailed`: A failed payment attempt on which nothing is under way is never captured or refunded, whatever callbacks still arrive. |
| `PaymentsProofs!PaymentsImplementBook` | `ImplementsBook`: Payments implements the abstract books: every write of a callback or refund is justified by the books at the moment it is made, although it was decided on older reads. |
| `PaymentsProofs!CaptureReachesCorrect` | `CaptureReachesOrder`: A captured transaction is on an order that is not pending, unless the update of the order is still to come or was lost to a failure. |
| `OrdersProofs!SerialImplementsLifecycle` | `ImplementsLifecycle`: Without overlapping requests on one order, Orders implements the abstract lifecycle. |
| `DeliveryProofs!TypeCorrect` | Every reachable state of Delivery is well typed, for any orders, partners, assignments and request slots. |
| `DeliveryProofs!LoadCorrect` | `LoadAccountedFor`: The denormalised counter of a partner's assignments errs in neither direction, unless a statement was lost, an assignment that was over was cancelled or a release overtook its increment. |
| `DeliveryProofs!CapCorrect` | `CapKept`: No partner carries more than the cap, for any cap, unless two dispatches chose the partner at once or the counter had lost an assignment. |
| `SettlementsProofs!TypeCorrect` | Every reachable state of Settlements is well typed, for any payees, work, cycles and requests. |
| `SettlementsProofs!WindowCorrect` | `RowsStayInWindow`: A settlement row holds only work of its payee that was delivered in its cycle's window, although the work is summed some statements before the row is saved and may be delivered again since. |
| `SettlementsProofs!PayoutsCorrect` | `PayoutsMatchRows`: Nobody is paid twice for a cycle and a paid row shows what was paid, unless two payouts of the row, or a run and a payout of the cycle, have met. |
| `SettlementsProofs!FrozenCorrect` | `FrozenOncePaid`: No step rewrites a row of a cycle with a paid row, unless a run and a payout of the cycle have met. |
| `SettlementsProofs!WorkPaidOnceCorrect` | `WorkPaidOnce`: No work is paid twice unless two payouts of one row met, or the work was delivered in the windows of two cycles: because they share a day, or because it was delivered again. |
| `SettlementsProofs!SettlementsImplementBook` | `ImplementsBook`: Settlements implements the abstract payout book: whatever runs and payouts interleave, a row is made from work done in the window while nothing of the cycle is paid, and is paid once and as it is, unless the requests that break this have met. |
| `StorefrontProofs!HiddenCorrect` | `HiddenOnlyIfMoved`: An item that its restaurant has not deleted is on its restaurant's menu unless UpdateItem moved it, for any restaurants, categories and edits. |
| `RestaurantsProofs!TypeCorrect` | Every reachable state of Restaurants is well typed. |
| `RestaurantsProofs!HoursCorrect` | `HoursReplaced`: A day's hours are one row unless replacements of the day overlapped or broke off between their two statements. |
| `RestaurantsProofs!SubmissionCorrect` | `SubmittedIsComplete`: A submitted restaurant has the documents it needs, and hours unless they are being replaced or lost, although submission checks them in separate reads. |
| `RestaurantsProofs!VerdictCorrect` | `VerifiedMeansVerified`: kyc_status is 'verified' only while documents are on file and every one is, even where documents of other restaurants are reviewed with this one's id, unless an upload, another review or a rejection with another restaurant's id got in the way or a review broke off. |
| `RestaurantsProofs!OpenCorrect` | `OpenMeansApproved`: A restaurant that takes orders is an approved one, although every status is checked long before it is relied on, unless a submission or a review was begun while another was still to write its status. |
| `AccountsProofs!TypeCorrect` | Every reachable state of Accounts is well typed. |
| `AccountsProofs!CodeCorrect` | `OneSessionPerCode`: A one-time code starts at most one session unless two requests verify it at once. |
| `AccountsProofs!RotationCorrect` | `OneLiveToken`: A refresh token family has at most one valid token unless two refreshes of it overlap. |
| `AccountsProofs!ReuseCorrect` | `EndedStaysEnded`: Reuse ends a session that nobody is refreshing, and a session that has ended, by reuse, a logout, a lapse or a refresh that broke off, is never taken up again. |
| `AccountsProofs!DeletionCorrect` | `DeletedStaysOut`: A deleted user gets no new session or token, except from a request in flight at the deletion. |
| `AccountsProofs!LimitsCorrect` | `LimitsNearlyKept`: The daily cap of codes and the limit of wrong attempts are exceeded by less than the number of requests in flight at once, for any cap and any number of requests. |
| `OrdersProofs!TimelineCorrect` | `TimelineInOrder`: Without overlapping requests on an order, its history lists the statuses in lifecycle order, whatever fails. |
| `OrdersProofs!NoticesCorrect` | `NoticesAreCurrent`: Without overlapping requests on an order, a notification names the status the order is in. |
| `DeliveryProofs!FulfilmentIsDelivery` | Composed with the orders, Delivery takes only its own steps, so what is proved of it holds of the composition. |
| `DeliveryProofs!DriftCorrect` | `DriftExplained`: Order and assignment disagree only while a request is on its way between them, or in one of the explained ways. |
| `SettlementsProofs!NothingMissedCorrect` | `NothingMissed`: A completed cycle has a row for everything that was due when its last run began and has not been withdrawn, or delivered again outside the window, since, unless two runs of it have met. |
| `StorefrontProofs!StorefrontIsMenu` | Composed with carts and checkouts, Menu takes only its own steps, so what is proved of it holds in the storefront. |
| `StorefrontProofs!StorefrontTypeCorrect` | Every reachable state of Storefront is well typed. |
| `StorefrontProofs!CartCorrect` | `OneRestaurantPerCart`: A cart holds only lines that were asked for from its restaurant, with items whose rows are there, although AddItem acts on a cart it found some statements earlier. |
| `StorefrontProofs!OrderedOnceCorrect` | `OrderedOnce`: A line is ordered at most once, unless checkouts overlapped or a cart was not emptied after its order. |
| `StorefrontProofs!VanishingCorrect` | `NothingVanishes`: What emptying the cart removes is ordered as it is, except for lines that came or changed after the checkout read the cart. |
| `AdminRBACProofs!RolesCorrect` | `RolesInv`: A role holds what it was last asked to hold unless replacements of it overlapped, and what was deleted is granted and carried by nothing, whatever interleaves. |

**Model-checked only.** `NoticeFollows`: liveness under fairness is out of the
prover's reach. Every other property of every passing run is a theorem.

## Not modelled, and why

* **Notifications, Search**: best-effort sending and read-only queries; nothing
  reads what they leave. `Orders` keeps the set of announced statuses instead.
* **Platform**: the rate limiter is two Redis commands and a count and shares no
  state with the modules. Its hazard (EXPIRE lost after INCR) is listed.
* **Configuration and wiring**: start-up code; its limits are CONSTANTS here.
* **Saved payment methods, addresses, profile fields, bank details, devices, login
  attempts**: rows that nothing modelled reads to decide anything.
* **Audit log**: written, never read; `Payments` keeps the audited refunds.
* **UpdateLocation** and distances: any eligible partner may be the nearest.
* **HTTP layer**: parsing, authentication and ownership checks refuse requests and
  change no state modelled here; `RequirePermission` is in `AdminRBAC`.
* **Prices**: a line's total stands for quantity, variant and add-ons; taxes, fees
  and commission are arithmetic on it. Quantities stay below the width of int16.
* **Time**: expiries and days pass by steps of their own; the daily cap's window does
  not end; the resend cooldown is left out.

## What is left

1. The default among saved payment methods and among addresses: two requests that
   unset and set it at once.
2. The rate limiter's window.
3. In `Payments`: charges against refundable money (a duplicate callback after a
   refund captures again), and a second attempt to pay beside a first.
