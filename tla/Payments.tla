------------------------------ MODULE Payments ------------------------------
(***************************************************************************)
(* The Payments module: payment_service.go over repository.go over         *)
(* payments.sql, and the gateway behind domain.PaymentGateway.             *)
(*                                                                         *)
(* A transaction row is one attempt to pay an order.  The customer pays at *)
(* the gateway; the client's callback and the gateway's webhooks tell the  *)
(* service, in any order, late and more than once.  Each of Initiate,      *)
(* Capture, MarkFailed and Refund is a request that reads, decides and     *)
(* then executes statement after statement, each committed on its own and  *)
(* keyed by id alone, so that requests interleave between any two and may  *)
(* end after any of them.                                                  *)
(*                                                                         *)
(* Amounts are integers (the smallest unit of NUMERIC(10,2)).              *)
(***************************************************************************)
EXTENDS Naturals

CONSTANTS
    OrderIds,            \* orders of the platform, all of the same amount
    Txs,                 \* the payment_transactions rows that may be created
    Requests,            \* request slots: how many requests can be in flight
    NoJob,               \* req[r] of a slot that serves no request
    None,                \* no order, no transaction
    Total,               \* orders.total_amount
    Epsilon,             \* the 0.01 the service allows for float rounding
    RefundAmounts,       \* the amounts administrators ask to refund
    MaxFaults            \* bound: how many statements may fail

VARIABLES
    payStatus,           \* payStatus[o]: orders.payment_status
    cancelled,           \* the orders whose status is cancelled
    txOrder,             \* txOrder[t]: the order transaction t pays, or None
    txStatus,            \* txStatus[t]: payment_transactions.status
    latest,              \* latest[o]: the transaction of o created last, or None
    refunded,            \* refunded[o]: SUM(amount) of completed refunds rows
    audited,             \* audited[o]: the sum of the refunds in admin_audit_log
    charged,             \* at the gateway: the transactions the customer paid
    paidBack,            \* at the gateway: how much was paid back for order o
    req,                 \* req[r]: the request in slot r, or NoJob
    overlapped,          \* history variable: orders that had two refunds at once
    adrift,              \* history variable: orders whose payment_status update
                         \* was lost to a failure
    unbooked,            \* history variable: orders for which the gateway has
                         \* paid a refund whose row was never completed
    faults               \* how many statements have failed so far

orderVars == <<payStatus, cancelled>>
txVars == <<txOrder, txStatus, latest>>
gatewayVars == <<charged, paidBack>>
moneyVars == <<refunded, audited, paidBack, overlapped>>
ghostVars == <<adrift, unbooked, faults>>
vars == <<payStatus, cancelled, txOrder, txStatus, latest, refunded, audited,
          charged, paidBack, req, overlapped, adrift, unbooked, faults>>

-----------------------------------------------------------------------------
\* "failed" and "authorized" are in the code's vocabulary but never written.
PaymentStatus == {"pending", "paid", "failed", "refunded"}

TransactionStatus ==
    {"initiated", "authorized", "captured", "failed", "refunded", "partially_refunded"}

\* The requests in flight.  A capture knows whether its callback carries a
\* genuine signature; a refund carries the sum of completed refunds it read.
Initiating == [kind : {"initiate"}, step : {"open"}, order : OrderIds]
Capturing  == [kind : {"capture"}, step : {"mark", "setPaid"}, order : OrderIds,
               tx : Txs, genuine : BOOLEAN]
Failing    == [kind : {"fail"}, step : {"mark"}, order : OrderIds, tx : Txs]
Refunding  == [kind : {"refund"},
               step : {"sum", "gateway", "complete", "setTx", "setOrder", "audit"},
               order : OrderIds, tx : Txs, amount : RefundAmounts, already : Nat]

Job == Initiating \cup Capturing \cup Failing \cup Refunding

ASSUME AmountsAssumption ==
    /\ Total \in Nat
    /\ Epsilon \in Nat
    /\ RefundAmounts \subseteq Nat \ {0}     \* CHECK (amount > 0)
ASSUME SlotsAssumption ==
    /\ NoJob \notin Job
    /\ None \notin OrderIds \cup Txs
    /\ MaxFaults \in Nat

TypeOK ==
    /\ payStatus \in [OrderIds -> PaymentStatus]
    /\ cancelled \subseteq OrderIds
    /\ txOrder \in [Txs -> OrderIds \cup {None}]
    /\ txStatus \in [Txs -> TransactionStatus]
    /\ latest \in [OrderIds -> Txs \cup {None}]
    /\ refunded \in [OrderIds -> Nat]
    /\ audited \in [OrderIds -> Nat]
    /\ charged \subseteq Txs
    /\ paidBack \in [OrderIds -> Nat]
    /\ req \in [Requests -> Job \cup {NoJob}]
    /\ overlapped \subseteq OrderIds
    /\ adrift \subseteq OrderIds
    /\ unbooked \subseteq OrderIds
    /\ faults \in 0 .. MaxFaults

Init ==
    /\ payStatus = [o \in OrderIds |-> "pending"]
    /\ cancelled = {}
    /\ txOrder = [t \in Txs |-> None]
    /\ txStatus = [t \in Txs |-> "initiated"]
    /\ latest = [o \in OrderIds |-> None]
    /\ refunded = [o \in OrderIds |-> 0]
    /\ audited = [o \in OrderIds |-> 0]
    /\ charged = {}
    /\ paidBack = [o \in OrderIds |-> 0]
    /\ req = [r \in Requests |-> NoJob]
    /\ overlapped = {}
    /\ adrift = {}
    /\ unbooked = {}
    /\ faults = 0

Free(r) == req[r] = NoJob

\* Request r stands before the given step of a request of the given kind.
At(r, kind, step) == req[r] # NoJob /\ req[r].kind = kind /\ req[r].step = step

Goto(r, step) == req' = [req EXCEPT ![r] = [@ EXCEPT !.step = step]]

Done(r) == req' = [req EXCEPT ![r] = NoJob]

-----------------------------------------------------------------------------
(***************************************************************************)
(* Around the service: the order is cancelled (Orders), the customer pays  *)
(* at the gateway.                                                         *)
(***************************************************************************)

CancelOrder(o) ==
    /\ o \notin cancelled
    /\ cancelled' = cancelled \cup {o}
    /\ UNCHANGED <<payStatus, txVars, gatewayVars, refunded, audited, req,
                   overlapped, ghostVars>>

\* The customer completes the gateway's checkout of transaction t.  The
\* gateway does not know of cancellations or of other transactions.
Pay(t) ==
    /\ txOrder[t] # None
    /\ t \notin charged
    /\ charged' = charged \cup {t}
    /\ UNCHANGED <<orderVars, txVars, moneyVars, req, ghostVars>>

-----------------------------------------------------------------------------
(***************************************************************************)
(* Initiate: the order is read and must await payment; then the gateway    *)
(* order and the transaction row are created.                              *)
(***************************************************************************)

BeginInitiate(r, o) ==
    /\ Free(r)
    /\ payStatus[o] = "pending"
    /\ o \notin cancelled
    /\ req' = [req EXCEPT ![r] = [kind |-> "initiate", step |-> "open", order |-> o]]
    /\ UNCHANGED <<orderVars, txVars, moneyVars, charged, ghostVars>>

CreateTransaction(r, t) ==
    /\ At(r, "initiate", "open")
    /\ txOrder[t] = None
    /\ txOrder' = [txOrder EXCEPT ![t] = req[r].order]
    /\ latest' = [latest EXCEPT ![req[r].order] = t]
    /\ Done(r)
    /\ UNCHANGED <<orderVars, txStatus, moneyVars, charged, ghostVars>>

-----------------------------------------------------------------------------
(***************************************************************************)
(* Capture and MarkFailed: callbacks and webhooks about a transaction.     *)
(***************************************************************************)

\* Mutant: Capture does not look whether the attempt has failed.
MutantBeginCapture(r, t, genuine) ==
    /\ Free(r)
    /\ txOrder[t] # None
    /\ genuine => t \in charged
    /\ txStatus[t] # "captured"
    /\ req' = [req EXCEPT ![r] = [kind |-> "capture", step |-> "mark",
                                  order |-> txOrder[t], tx |-> t, genuine |-> genuine]]
    /\ UNCHANGED <<orderVars, txVars, moneyVars, charged, ghostVars>>

\* Capture finds the transaction by the gateway's order id; it answers at
\* once when the transaction is captured (a duplicate) or failed.  A genuine
\* callback exists only for what the customer has paid.
BeginCapture(r, t, genuine) ==
    /\ Free(r)
    /\ txOrder[t] # None
    /\ genuine => t \in charged
    /\ txStatus[t] \notin {"captured", "failed"}
    /\ req' = [req EXCEPT ![r] = [kind |-> "capture", step |-> "mark",
                                  order |-> txOrder[t], tx |-> t, genuine |-> genuine]]
    /\ UNCHANGED <<orderVars, txVars, moneyVars, charged, ghostVars>>

SetTx(t, newStatus) == txStatus' = [txStatus EXCEPT ![t] = newStatus]

\* Mutant: the outcome of VerifyCallback is ignored.
MutantMarkCaptured(r) ==
    /\ At(r, "capture", "mark")
    /\ SetTx(req[r].tx, "captured")
    /\ Goto(r, "setPaid")
    /\ UNCHANGED <<orderVars, txOrder, latest, moneyVars, charged, ghostVars>>

\* VerifyCallback accepts the signature; the row becomes captured, whatever
\* it has become since it was read.
MarkCaptured(r) ==
    /\ At(r, "capture", "mark")
    /\ req[r].genuine
    /\ SetTx(req[r].tx, "captured")
    /\ Goto(r, "setPaid")
    /\ UNCHANGED <<orderVars, txOrder, latest, moneyVars, charged, ghostVars>>

\* VerifyCallback rejects the signature; the row becomes failed.
RejectCallback(r) ==
    /\ At(r, "capture", "mark")
    /\ ~req[r].genuine
    /\ SetTx(req[r].tx, "failed")
    /\ Done(r)
    /\ UNCHANGED <<orderVars, txOrder, latest, moneyVars, charged, ghostVars>>

\* Mutant: a cancelled order is not marked paid.
MutantSetPaid(r) ==
    /\ At(r, "capture", "setPaid")
    /\ payStatus' = [payStatus EXCEPT ![req[r].order] =
                       IF req[r].order \in cancelled THEN @ ELSE "paid"]
    /\ Done(r)
    /\ UNCHANGED <<cancelled, txVars, moneyVars, charged, ghostVars>>

\* orders.SetPaymentStatus(paid); the request is answered.
SetPaid(r) ==
    /\ At(r, "capture", "setPaid")
    /\ payStatus' = [payStatus EXCEPT ![req[r].order] = "paid"]
    /\ Done(r)
    /\ UNCHANGED <<cancelled, txVars, moneyVars, charged, ghostVars>>

\* MarkFailed finds the transaction; its status does not matter.
BeginFail(r, t) ==
    /\ Free(r)
    /\ txOrder[t] # None
    /\ req' = [req EXCEPT ![r] = [kind |-> "fail", step |-> "mark",
                                  order |-> txOrder[t], tx |-> t]]
    /\ UNCHANGED <<orderVars, txVars, moneyVars, charged, ghostVars>>

MarkFailed(r) ==
    /\ At(r, "fail", "mark")
    /\ SetTx(req[r].tx, "failed")
    /\ Done(r)
    /\ UNCHANGED <<orderVars, txOrder, latest, moneyVars, charged, ghostVars>>

-----------------------------------------------------------------------------
(***************************************************************************)
(* Refund: an administrator returns some or all of the money.              *)
(***************************************************************************)

\* A refund of order o that has read the balance and not booked its amount.
RefundInFlight(r, o) ==
    req[r] # NoJob /\ req[r].kind = "refund" /\ req[r].order = o
      /\ req[r].step \in {"gateway", "complete"}

\* The order's latest transaction must be captured.
BeginRefund(r, o, amount) ==
    /\ Free(r)
    /\ latest[o] # None
    /\ txStatus[latest[o]] = "captured"
    /\ req' = [req EXCEPT ![r] = [kind |-> "refund", step |-> "sum", order |-> o,
                                  tx |-> latest[o], amount |-> amount, already |-> 0]]
    /\ UNCHANGED <<orderVars, txVars, moneyVars, charged, ghostVars>>

\* Mutant: the check forgets what has been refunded before.
MutantWithinBalance(already, amount) == amount <= Total + Epsilon

WithinBalance(already, amount) == already + amount <= Total + Epsilon

\* The completed refunds are summed and the amount is checked against the
\* rest; the pending row that is then inserted counts for nobody.
SumRefunds(r) ==
    /\ At(r, "refund", "sum")
    /\ LET o == req[r].order IN
         \/ /\ WithinBalance(refunded[o], req[r].amount)
            /\ req' = [req EXCEPT ![r] = [@ EXCEPT !.step = "gateway",
                                                   !.already = refunded[o]]]
            /\ overlapped' = overlapped \cup
                 {p \in {o} : \E other \in Requests \ {r} : RefundInFlight(other, o)}
         \/ /\ ~WithinBalance(refunded[o], req[r].amount)
            /\ Done(r)
            /\ UNCHANGED overlapped
    /\ UNCHANGED <<orderVars, txVars, refunded, audited, gatewayVars, ghostVars>>

\* Mutant: the row is completed without waiting for the gateway's answer.
MutantGatewayRefund(r) ==
    /\ At(r, "refund", "gateway")
    /\ Goto(r, "complete")
    /\ UNCHANGED <<orderVars, txVars, refunded, audited, overlapped, gatewayVars, ghostVars>>

\* The gateway pays the amount back.
GatewayRefund(r) ==
    /\ At(r, "refund", "gateway")
    /\ paidBack' = [paidBack EXCEPT ![req[r].order] = @ + req[r].amount]
    /\ Goto(r, "complete")
    /\ UNCHANGED <<orderVars, txVars, refunded, audited, overlapped, charged, ghostVars>>

\* The gateway refuses; the row is marked failed.
GatewayRefuses(r) ==
    /\ At(r, "refund", "gateway")
    /\ Done(r)
    /\ UNCHANGED <<orderVars, txVars, moneyVars, charged, ghostVars>>

\* The row becomes completed and counts from now on.
MarkRefundCompleted(r) ==
    /\ At(r, "refund", "complete")
    /\ refunded' = [refunded EXCEPT ![req[r].order] = @ + req[r].amount]
    /\ Goto(r, "setTx")
    /\ UNCHANGED <<orderVars, txVars, audited, paidBack, overlapped, charged, ghostVars>>

\* Mutant: any refund counts as a refund in full.
MutantInFull(job) == job.amount > 0

\* Whether the refund completes the order's refunds, judged on the sum read
\* before the gateway was asked.
InFull(job) == job.already + job.amount + Epsilon >= Total

\* The transaction becomes refunded or partially refunded.
SetTxRefunded(r) ==
    /\ At(r, "refund", "setTx")
    /\ SetTx(req[r].tx, IF InFull(req[r]) THEN "refunded" ELSE "partially_refunded")
    /\ Goto(r, "setOrder")
    /\ UNCHANGED <<orderVars, txOrder, latest, moneyVars, charged, ghostVars>>

\* The order becomes refunded, or paid again after a partial refund.
SetOrderRefunded(r) ==
    /\ At(r, "refund", "setOrder")
    /\ payStatus' = [payStatus EXCEPT ![req[r].order] =
                       IF InFull(req[r]) THEN "refunded" ELSE "paid"]
    /\ Goto(r, "audit")
    /\ UNCHANGED <<cancelled, txVars, moneyVars, charged, ghostVars>>

\* The refund is written to the audit log and the request is answered.
LogAction(r) ==
    /\ At(r, "refund", "audit")
    /\ audited' = [audited EXCEPT ![req[r].order] = @ + req[r].amount]
    /\ Done(r)
    /\ UNCHANGED <<orderVars, txVars, refunded, paidBack, overlapped, charged, ghostVars>>

-----------------------------------------------------------------------------
Fault == faults < MaxFaults /\ faults' = faults + 1

\* SetStatus or SetPaymentStatus fails; Refund drops the error and carries on.
SetFails(r) ==
    /\ Fault
    /\ \/ /\ At(r, "refund", "setTx")
          /\ Goto(r, "setOrder")
       \/ /\ At(r, "refund", "setOrder")
          /\ Goto(r, "audit")
    /\ UNCHANGED <<orderVars, txVars, moneyVars, charged, adrift, unbooked>>

\* The request ends before its next statement: the statement fails, the
\* context is cancelled, the process stops.  A gateway that has paid a refund
\* and whose answer is lost leaves the same: the row counts for nobody.
Abort(r) ==
    /\ ~Free(r)
    /\ Fault
    /\ adrift' = adrift \cup {o \in {req[r].order} : At(r, "capture", "setPaid")}
    /\ unbooked' = unbooked \cup {o \in {req[r].order} : At(r, "refund", "complete")}
    /\ Done(r)
    /\ UNCHANGED <<orderVars, txVars, moneyVars, charged>>

Next ==
    \/ \E o \in OrderIds : CancelOrder(o)
    \/ \E t \in Txs : Pay(t)
    \/ \E r \in Requests :
          \/ \E o \in OrderIds :
                \/ BeginInitiate(r, o)
                \/ \E amount \in RefundAmounts : BeginRefund(r, o, amount)
          \/ \E t \in Txs :
                \/ CreateTransaction(r, t)
                \/ BeginFail(r, t)
                \/ \E genuine \in BOOLEAN : BeginCapture(r, t, genuine)
          \/ MarkCaptured(r) \/ RejectCallback(r) \/ SetPaid(r) \/ MarkFailed(r)
          \/ SumRefunds(r) \/ GatewayRefund(r) \/ GatewayRefuses(r)
          \/ MarkRefundCompleted(r) \/ SetTxRefunded(r) \/ SetOrderRefunded(r)
          \/ LogAction(r)
          \/ SetFails(r) \/ Abort(r)

Spec == Init /\ [][Next]_vars

-----------------------------------------------------------------------------
(***************************************************************************)
(* Properties.                                                             *)
(***************************************************************************)

\* The transactions of order o the customer has paid.
ChargesFor(o) == {t \in charged : txOrder[t] = o}

\* An order counts as paid, or as refunded, only when the customer's money
\* was taken for it; the same for a transaction.  This must survive every
\* order of callbacks, failure reports and refunds ("this is the ONLY code
\* path allowed to mark an order as paid", Capture).
PaidIsCharged ==
    /\ \A o \in OrderIds : payStatus[o] # "pending" => ChargesFor(o) # {}
    /\ \A t \in Txs : txStatus[t] \in {"captured", "refunded", "partially_refunded"}
                        => t \in charged

\* The refunds the platform shows as completed have been paid back by the
\* gateway, and those it audits have been completed, also when requests end
\* between the gateway's answer and the statements that record it.
RefundsAreReal ==
    \A o \in OrderIds : audited[o] <= refunded[o] /\ refunded[o] <= paidBack[o]

\* An order or a transaction is shown as refunded only when completed
\* refunds cover it (but for Epsilon), although Refund judges that on a sum
\* it read before other refunds completed.
RefundedInFull ==
    /\ \A o \in OrderIds : payStatus[o] = "refunded" => refunded[o] + Epsilon >= Total
    /\ \A t \in Txs : txStatus[t] = "refunded" => refunded[txOrder[t]] + Epsilon >= Total

\* What Refund's comment promises: completed refunds never exceed the
\* captured amount (but for Epsilon).
RefundsWithinCapture == \A o \in OrderIds : refunded[o] <= Total + Epsilon

\* The promise is kept for every order that never had two refunds between
\* their balance check and their completion at the same time, whatever
\* callbacks, failures and aborted requests come in between.  The gateway too
\* pays back no more, unless a refund it had paid was never booked: the sum
\* the next refund reads does not have it.
BalanceKeptWithoutOverlap ==
    \A o \in OrderIds \ overlapped :
        /\ refunded[o] <= Total + Epsilon
        /\ o \notin unbooked => paidBack[o] <= Total + Epsilon

\* A captured transaction reaches its order: the order is no longer pending,
\* or a request is about to mark it, or the request that should have done so
\* failed.  Interleaving alone never leaves a captured payment on an unpaid
\* order.
CaptureReachesOrder ==
    \A t \in Txs : txStatus[t] = "captured" =>
        \/ payStatus[txOrder[t]] # "pending"
        \/ txOrder[t] \in adrift
        \/ \E r \in Requests : At(r, "capture", "setPaid") /\ req[r].order = txOrder[t]

\* The requests that may still move transaction t on although it has failed
\* meanwhile: what they have checked, they have checked before.
Moving(t) ==
    {r \in Requests :
        /\ req[r] # NoJob /\ req[r].kind # "initiate" /\ req[r].tx = t
        /\ \/ At(r, "capture", "mark")
           \/ req[r].kind = "refund" /\ req[r].step \in {"sum", "gateway", "complete", "setTx"}}

\* "This payment attempt already failed; initiate a new one" (Capture): a
\* failed transaction on which nothing is under way stays failed and is never
\* refunded, whatever callbacks about it arrive, even if the customer has paid.
FailedStaysFailed ==
    [][\A t \in Txs : txStatus[t] = "failed" /\ Moving(t) = {} =>
          txStatus'[t] = "failed" /\ Moving(t)' = {}]_vars

\* Whatever the requests do, the books change as PaymentBook allows.
Book == INSTANCE PaymentBook
          WITH taken <- {o \in OrderIds : ChargesFor(o) # {}},
               loose <- overlapped \cup unbooked

ImplementsBook == Book!Spec
=============================================================================
