--------------------------- MODULE PaymentsProofs ---------------------------
(***************************************************************************)
(* Proofs about Payments, for any number of orders, transactions, request  *)
(* slots and failures and for any amounts: the type invariant, that paid   *)
(* means charged, that refunded means covered by completed refunds, that   *)
(* the money shown as refunded was paid back, that the balance is kept by  *)
(* refunds that do not overlap, that a capture reaches its order, that a   *)
(* failed attempt stays failed, and that Payments implements PaymentBook.  *)
(*                                                                         *)
(* Three invariants carry the proofs: PaymentsInv (what a request relies   *)
(* on), FundsInv (the sums and what the requests hold) and BalanceInv (the *)
(* refund in flight fits).                                                 *)
(***************************************************************************)
EXTENDS Payments, FiniteSetTheorems, TLAPS

\* Every step preserves the type invariant.
LEMMA NextTypeOK == TypeOK /\ [Next]_vars => TypeOK'
  <1> SUFFICES ASSUME TypeOK, [Next]_vars PROVE TypeOK'
    OBVIOUS
  <1> USE AmountsAssumption, SlotsAssumption
      DEF TypeOK, orderVars, txVars, gatewayVars, moneyVars, ghostVars
  <1>j. \A r \in Requests : req[r] # NoJob => req[r] \in Job
    OBVIOUS
  <1>s. \A j \in Job : j.order \in OrderIds
    BY DEF Job, Initiating, Capturing, Failing, Refunding
  <1>d. ASSUME NEW r \in Requests, Done(r) PROVE req' \in [Requests -> Job \cup {NoJob}]
    BY <1>d DEF Done
  <1>1. ASSUME NEW o \in OrderIds, CancelOrder(o) PROVE TypeOK'
    BY <1>1 DEF CancelOrder
  <1>2. ASSUME NEW t \in Txs, Pay(t) PROVE TypeOK'
    BY <1>2 DEF Pay
  <1>3. ASSUME NEW r \in Requests, NEW o \in OrderIds, BeginInitiate(r, o) PROVE TypeOK'
    <2>1. [kind |-> "initiate", step |-> "open", order |-> o] \in Job
      BY DEF Job, Initiating
    <2> QED
      BY <1>3, <2>1 DEF BeginInitiate
  <1>4. ASSUME NEW r \in Requests, NEW o \in OrderIds, NEW amount \in RefundAmounts,
               BeginRefund(r, o, amount)
        PROVE  TypeOK'
    <2>1. [kind |-> "refund", step |-> "sum", order |-> o, tx |-> latest[o],
           amount |-> amount, already |-> 0] \in Job
      BY <1>4 DEF BeginRefund, Job, Refunding
    <2> QED
      BY <1>4, <2>1 DEF BeginRefund
  <1>5. ASSUME NEW r \in Requests, NEW t \in Txs, CreateTransaction(r, t) PROVE TypeOK'
    <2>1. req[r].order \in OrderIds
      BY <1>5, <1>j, <1>s DEF CreateTransaction, At
    <2> QED
      BY <1>5, <1>d, <2>1 DEF CreateTransaction
  <1>6. ASSUME NEW r \in Requests, NEW t \in Txs, BeginFail(r, t) PROVE TypeOK'
    <2>1. [kind |-> "fail", step |-> "mark", order |-> txOrder[t], tx |-> t] \in Job
      BY <1>6 DEF BeginFail, Job, Failing
    <2> QED
      BY <1>6, <2>1 DEF BeginFail
  <1>7. ASSUME NEW r \in Requests, NEW t \in Txs, NEW genuine \in BOOLEAN,
               BeginCapture(r, t, genuine)
        PROVE  TypeOK'
    <2>1. [kind |-> "capture", step |-> "mark", order |-> txOrder[t], tx |-> t,
           genuine |-> genuine] \in Job
      BY <1>7 DEF BeginCapture, Job, Capturing
    <2> QED
      BY <1>7, <2>1 DEF BeginCapture
  <1>c. ASSUME NEW r \in Requests, req[r] # NoJob, req[r].kind = "capture"
        PROVE  req[r] \in Capturing
    BY <1>c, <1>j DEF Job, Initiating, Capturing, Failing, Refunding
  <1>r. ASSUME NEW r \in Requests, req[r] # NoJob, req[r].kind = "refund"
        PROVE  req[r] \in Refunding
    BY <1>r, <1>j DEF Job, Initiating, Capturing, Failing, Refunding
  <1>f. ASSUME NEW r \in Requests, req[r] # NoJob, req[r].kind = "fail"
        PROVE  req[r] \in Failing
    BY <1>f, <1>j DEF Job, Initiating, Capturing, Failing, Refunding
  <1>g. ASSUME NEW r \in Requests, req[r] # NoJob, req[r].kind = "refund",
               NEW step \in {"sum", "gateway", "complete", "setTx", "setOrder", "audit"},
               Goto(r, step)
        PROVE  req' \in [Requests -> Job \cup {NoJob}]
    <2>1. [req[r] EXCEPT !.step = step] \in Refunding
      BY <1>r, <1>g DEF Refunding
    <2> QED
      BY <1>g, <2>1 DEF Goto, Job
  <1>8. ASSUME NEW r \in Requests, MarkCaptured(r) PROVE TypeOK'
    <2>1. req[r] \in Capturing
      BY <1>8, <1>c DEF MarkCaptured, At
    <2>2. [req[r] EXCEPT !.step = "setPaid"] \in Capturing
      BY <2>1 DEF Capturing
    <2>3. req' \in [Requests -> Job \cup {NoJob}]
      BY <1>8, <2>2 DEF MarkCaptured, Goto, Job
    <2> QED
      BY <1>8, <2>1, <2>3 DEF MarkCaptured, SetTx, TransactionStatus
  <1>9. ASSUME NEW r \in Requests, RejectCallback(r) PROVE TypeOK'
    BY <1>9, <1>c, <1>d DEF RejectCallback, At, SetTx, TransactionStatus
  <1>10. ASSUME NEW r \in Requests, SetPaid(r) PROVE TypeOK'
    BY <1>10, <1>d DEF SetPaid, PaymentStatus
  <1>11. ASSUME NEW r \in Requests, MarkFailed(r) PROVE TypeOK'
    BY <1>11, <1>f, <1>d DEF MarkFailed, At, SetTx, TransactionStatus
  <1>12. ASSUME NEW r \in Requests, SumRefunds(r) PROVE TypeOK'
    <2>1. req[r] \in Refunding
      BY <1>12, <1>r DEF SumRefunds, At
    <2>2. req[r].order \in OrderIds /\ refunded[req[r].order] \in Nat
      BY <2>1 DEF Refunding
    <2>3. [req[r] EXCEPT !.step = "gateway", !.already = refunded[req[r].order]] \in Job
      BY <2>1, <2>2 DEF Refunding, Job
    <2>4. req' \in [Requests -> Job \cup {NoJob}]
      BY <1>12, <1>d, <2>3 DEF SumRefunds
    <2>5. overlapped' \subseteq OrderIds
      BY <1>12, <2>2 DEF SumRefunds
    <2> QED
      BY <1>12, <2>4, <2>5 DEF SumRefunds
  <1>13. ASSUME NEW r \in Requests, GatewayRefund(r) PROVE TypeOK'
    <2>1. req[r].order \in OrderIds /\ req[r].amount \in Nat
      BY <1>13, <1>r DEF GatewayRefund, At, Refunding
    <2>2. req' \in [Requests -> Job \cup {NoJob}]
      BY <1>13, <1>g DEF GatewayRefund, At
    <2> QED
      BY <1>13, <2>1, <2>2 DEF GatewayRefund
  <1>14. ASSUME NEW r \in Requests, GatewayRefuses(r) PROVE TypeOK'
    BY <1>14, <1>d DEF GatewayRefuses
  <1>15. ASSUME NEW r \in Requests, MarkRefundCompleted(r) PROVE TypeOK'
    <2>1. req[r].order \in OrderIds /\ req[r].amount \in Nat
      BY <1>15, <1>r DEF MarkRefundCompleted, At, Refunding
    <2>2. req' \in [Requests -> Job \cup {NoJob}]
      BY <1>15, <1>g DEF MarkRefundCompleted, At
    <2> QED
      BY <1>15, <2>1, <2>2 DEF MarkRefundCompleted
  <1>16. ASSUME NEW r \in Requests, SetTxRefunded(r) PROVE TypeOK'
    <2>1. req' \in [Requests -> Job \cup {NoJob}]
      BY <1>16, <1>g DEF SetTxRefunded, At
    <2> QED
      BY <1>16, <2>1 DEF SetTxRefunded, SetTx, TransactionStatus
  <1>17. ASSUME NEW r \in Requests, SetOrderRefunded(r) PROVE TypeOK'
    <2>1. req' \in [Requests -> Job \cup {NoJob}]
      BY <1>17, <1>g DEF SetOrderRefunded, At
    <2> QED
      BY <1>17, <2>1 DEF SetOrderRefunded, PaymentStatus
  <1>18. ASSUME NEW r \in Requests, LogAction(r) PROVE TypeOK'
    <2>1. req[r].order \in OrderIds /\ req[r].amount \in Nat
      BY <1>18, <1>r DEF LogAction, At, Refunding
    <2> QED
      BY <1>18, <1>d, <2>1 DEF LogAction
  <1>19. ASSUME NEW r \in Requests, SetFails(r) PROVE TypeOK'
    <2>1. req' \in [Requests -> Job \cup {NoJob}]
      BY <1>19, <1>g DEF SetFails, At
    <2> QED
      BY <1>19, <2>1 DEF SetFails, Fault
  <1>20. ASSUME NEW r \in Requests, Abort(r) PROVE TypeOK'
    <2>1. req[r].order \in OrderIds
      BY <1>20, <1>j, <1>s DEF Abort, Free
    <2> QED
      BY <1>20, <1>d, <2>1 DEF Abort, Fault
  <1>21. CASE UNCHANGED vars
    BY <1>21 DEF vars
  <1> QED
    BY <1>1, <1>2, <1>3, <1>4, <1>5, <1>6, <1>7, <1>8, <1>9, <1>10, <1>11, <1>12,
       <1>13, <1>14, <1>15, <1>16, <1>17, <1>18, <1>19, <1>20, <1>21 DEF Next

\* The variables keep their types (Payments!TypeOK), whatever callbacks and
\* refunds overlap or fail.
THEOREM TypeCorrect == Spec => []TypeOK
  <1>1. Init => TypeOK
    BY SlotsAssumption DEF Init, TypeOK, PaymentStatus, TransactionStatus
  <1> QED
    BY <1>1, NextTypeOK, PTL DEF Spec

-----------------------------------------------------------------------------
\* Which statements write which part of the state.
LEMMA Writers ==
  ASSUME [Next]_vars
  PROVE  /\ payStatus' = payStatus \/ \E r \in Requests : SetPaid(r) \/ SetOrderRefunded(r)
         /\ txStatus' = txStatus \/ \E r \in Requests :
              MarkCaptured(r) \/ RejectCallback(r) \/ MarkFailed(r) \/ SetTxRefunded(r)
         /\ UNCHANGED <<txOrder, latest>>
              \/ \E r \in Requests, t \in Txs : CreateTransaction(r, t)
         /\ refunded' = refunded \/ \E r \in Requests : MarkRefundCompleted(r)
         /\ charged' = charged \/ \E t \in Txs : Pay(t)
  <1> USE DEF vars, orderVars, txVars, gatewayVars, moneyVars, ghostVars
  <1>1. CASE UNCHANGED vars
    BY <1>1
  <1>2. ASSUME NEW o \in OrderIds, CancelOrder(o) PROVE UNCHANGED <<payStatus, txStatus, txOrder, latest, refunded, charged>>
    BY <1>2 DEF CancelOrder
  <1>3. ASSUME NEW t \in Txs, Pay(t) PROVE UNCHANGED <<payStatus, txStatus, txOrder, latest, refunded>>
    BY <1>3 DEF Pay
  <1>4. ASSUME NEW r \in Requests, NEW o \in OrderIds,
               BeginInitiate(r, o) \/ \E amount \in RefundAmounts : BeginRefund(r, o, amount)
        PROVE  UNCHANGED <<payStatus, txStatus, txOrder, latest, refunded, charged>>
    BY <1>4 DEF BeginInitiate, BeginRefund
  <1>5. ASSUME NEW r \in Requests, NEW t \in Txs, CreateTransaction(r, t)
        PROVE  UNCHANGED <<payStatus, txStatus, refunded, charged>>
    BY <1>5 DEF CreateTransaction
  <1>6. ASSUME NEW r \in Requests, NEW t \in Txs,
               BeginFail(r, t) \/ \E genuine \in BOOLEAN : BeginCapture(r, t, genuine)
        PROVE  UNCHANGED <<payStatus, txStatus, txOrder, latest, refunded, charged>>
    BY <1>6 DEF BeginFail, BeginCapture
  <1>7. ASSUME NEW r \in Requests,
               MarkCaptured(r) \/ RejectCallback(r) \/ MarkFailed(r) \/ SetTxRefunded(r)
        PROVE  UNCHANGED <<payStatus, txOrder, latest, refunded, charged>>
    BY <1>7 DEF MarkCaptured, RejectCallback, MarkFailed, SetTxRefunded
  <1>8. ASSUME NEW r \in Requests, SetPaid(r) \/ SetOrderRefunded(r)
        PROVE  UNCHANGED <<txStatus, txOrder, latest, refunded, charged>>
    BY <1>8 DEF SetPaid, SetOrderRefunded
  <1>9. ASSUME NEW r \in Requests,
               \/ SumRefunds(r) \/ GatewayRefund(r) \/ GatewayRefuses(r)
               \/ LogAction(r) \/ SetFails(r) \/ Abort(r)
        PROVE  UNCHANGED <<payStatus, txStatus, txOrder, latest, refunded, charged>>
    BY <1>9 DEF SumRefunds, GatewayRefund, GatewayRefuses, LogAction, SetFails, Abort
  <1>10. ASSUME NEW r \in Requests, MarkRefundCompleted(r)
         PROVE  UNCHANGED <<payStatus, txStatus, txOrder, latest, charged>>
    BY <1>10 DEF MarkRefundCompleted
  <1> QED
    BY <1>1, <1>2, <1>3, <1>4, <1>5, <1>6, <1>7, <1>8, <1>9, <1>10 DEF Next

\* What a request in flight may rely on.  Its transaction belongs to its
\* order; a genuine callback and a refund are about a transaction that was
\* paid; the sum a refund has read is at most the present one, and includes
\* the refund's own amount once that is completed.
JobInv(r) ==
    req[r] # NoJob =>
      /\ req[r].kind # "initiate" => txOrder[req[r].tx] = req[r].order
      /\ req[r].kind = "capture" =>
           /\ req[r].step = "setPaid" => req[r].genuine
           /\ req[r].genuine => req[r].tx \in charged
      /\ req[r].kind = "refund" =>
           /\ req[r].tx \in charged
           /\ req[r].step \in {"gateway", "complete"} =>
                req[r].already <= refunded[req[r].order]
           /\ req[r].step \in {"setTx", "setOrder"} =>
                req[r].already + req[r].amount <= refunded[req[r].order]

\* Only a transaction that exists is paid or has another status than its
\* default, and the latest transaction of an order is one of its own.
RowsInv ==
    /\ \A t \in Txs : txOrder[t] = None => t \notin charged /\ txStatus[t] = "initiated"
    /\ \A o \in OrderIds : latest[o] # None => txOrder[latest[o]] = o

PaymentsInv ==
    /\ TypeOK
    /\ \A r \in Requests : JobInv(r)
    /\ RowsInv
    /\ PaidIsCharged
    /\ RefundedInFull

\* The initial state satisfies the inductive invariant.
LEMMA InitPaymentsInv == Init => PaymentsInv
  <1> SUFFICES ASSUME Init PROVE PaymentsInv
    OBVIOUS
  <1>1. TypeOK
    BY SlotsAssumption DEF Init, TypeOK, PaymentStatus, TransactionStatus
  <1>2. (\A r \in Requests : JobInv(r)) /\ RowsInv
    BY DEF Init, JobInv, RowsInv
  <1>3. PaidIsCharged /\ RefundedInFull
    BY DEF Init, PaidIsCharged, RefundedInFull
  <1> QED
    BY <1>1, <1>2, <1>3 DEF PaymentsInv

\* A transaction keeps its order, a payment is not undone, and the sum of
\* completed refunds only grows.
LEMMA Grows ==
  ASSUME TypeOK, [Next]_vars
  PROVE  /\ \A t \in Txs : txOrder[t] # None => txOrder'[t] = txOrder[t]
         /\ charged \subseteq charged'
         /\ \A o \in OrderIds : refunded[o] <= refunded'[o]
  <1>1. \A t \in Txs : txOrder[t] # None => txOrder'[t] = txOrder[t]
    BY Writers DEF CreateTransaction, TypeOK
  <1>2. charged \subseteq charged'
    BY Writers DEF Pay
  <1>3. \A o \in OrderIds : refunded[o] <= refunded'[o]
    <2>1. CASE refunded' = refunded
      BY <2>1 DEF TypeOK
    <2>2. ASSUME NEW r \in Requests, MarkRefundCompleted(r)
          PROVE  \A o \in OrderIds : refunded[o] <= refunded'[o]
      <3>1. req[r].amount \in Nat
        BY <2>2, AmountsAssumption
        DEF MarkRefundCompleted, At, TypeOK, Job, Initiating, Capturing, Failing, Refunding
      <3> QED
        BY <2>2, <3>1 DEF MarkRefundCompleted, TypeOK
    <2> QED
      BY <2>1, <2>2, Writers
  <1> QED
    BY <1>1, <1>2, <1>3

\* The fields of a job in flight, by its kind.
LEMMA JobFields ==
  ASSUME TypeOK, NEW r \in Requests, req[r] # NoJob
  PROVE  /\ req[r] \in Job
         /\ req[r].order \in OrderIds
         /\ req[r].kind \in {"initiate", "capture", "fail", "refund"}
         /\ req[r].kind # "initiate" => req[r].tx \in Txs
         /\ req[r].kind = "capture" => req[r] \in Capturing
         /\ req[r].kind = "refund" => req[r] \in Refunding
         /\ req[r].kind = "refund" => req[r].amount \in Nat /\ req[r].already \in Nat
  <1>1. req[r] \in Job
    BY DEF TypeOK
  <1> QED
    BY <1>1, AmountsAssumption DEF Job, Initiating, Capturing, Failing, Refunding

\* A request that a step leaves alone keeps its invariant.
LEMMA JobInvFrame ==
  ASSUME TypeOK, [Next]_vars, NEW q \in Requests, JobInv(q), req'[q] = req[q]
  PROVE  JobInv(q)'
  <1> SUFFICES ASSUME req[q] # NoJob PROVE JobInv(q)'
    BY DEF JobInv
  <1>1. /\ req[q].order \in OrderIds
        /\ req[q].kind # "initiate" => req[q].tx \in Txs
        /\ req[q].kind = "refund" => req[q].amount \in Nat /\ req[q].already \in Nat
    BY JobFields
  <1>2. refunded[req[q].order] \in Nat /\ refunded'[req[q].order] \in Nat
    BY <1>1, NextTypeOK DEF TypeOK
  <1>3. req[q].kind # "initiate" => txOrder'[req[q].tx] = req[q].order
    BY <1>1, Grows, SlotsAssumption DEF JobInv
  <1> QED
    BY <1>1, <1>2, <1>3, Grows DEF JobInv

\* Goto moves the step of r's job and touches nothing else of any job.
LEMMA GotoJob ==
  ASSUME TypeOK, NEW r \in Requests, req[r] # NoJob, NEW step, Goto(r, step)
  PROVE  /\ req'[r] = [req[r] EXCEPT !.step = step]
         /\ \A q \in Requests \ {r} : req'[q] = req[q]
         /\ req'[r].kind = req[r].kind
         /\ req'[r].order = req[r].order
         /\ req'[r].step = step
         /\ req[r].kind # "initiate" => req'[r].tx = req[r].tx
         /\ req[r].kind = "capture" => req'[r].genuine = req[r].genuine
         /\ req[r].kind = "refund" =>
              req'[r].amount = req[r].amount /\ req'[r].already = req[r].already
  <1>1. /\ req'[r] = [req[r] EXCEPT !.step = step]
        /\ \A q \in Requests \ {r} : req'[q] = req[q]
    BY DEF Goto, TypeOK
  <1>2. req[r] \in Job
    BY JobFields
  <1> QED
    BY <1>1, <1>2 DEF Job, Initiating, Capturing, Failing, Refunding

\* Every step leaves all requests but one alone, and what it makes of that
\* one is good again.
LEMMA NextJobInv == PaymentsInv /\ [Next]_vars => \A q \in Requests : JobInv(q)'
  <1> SUFFICES ASSUME PaymentsInv, [Next]_vars, NEW q \in Requests PROVE JobInv(q)'
    OBVIOUS
  <1>t. TypeOK /\ TypeOK' /\ JobInv(q)
    BY NextTypeOK DEF PaymentsInv
  <1>s. CASE req'[q] = req[q]
    BY <1>s, <1>t, JobInvFrame
  <1>n. CASE req'[q] = NoJob
    BY <1>n DEF JobInv
  <1>d. ASSUME NEW r \in Requests, Done(r) PROVE JobInv(q)'
    BY <1>d, <1>s, <1>n, <1>t DEF Done, TypeOK
  <1>1. CASE UNCHANGED req
    BY <1>1, <1>s
  <1>2. ASSUME NEW r \in Requests, NEW o \in OrderIds, BeginInitiate(r, o) PROVE JobInv(q)'
    <2>1. CASE q = r
      BY <1>2, <2>1, <1>t DEF BeginInitiate, JobInv, TypeOK
    <2>2. CASE q # r
      BY <1>2, <2>2, <1>s, <1>t DEF BeginInitiate, TypeOK
    <2> QED
      BY <2>1, <2>2
  <1>3. ASSUME NEW r \in Requests, NEW o \in OrderIds, NEW amount \in RefundAmounts,
               BeginRefund(r, o, amount)
        PROVE  JobInv(q)'
    <2>1. CASE q = r
      <3>1. latest[o] \in Txs /\ txOrder[latest[o]] = o /\ latest[o] \in charged
        BY <1>3, <1>t DEF BeginRefund, PaymentsInv, RowsInv, PaidIsCharged, TypeOK
      <3> QED
        BY <1>3, <2>1, <3>1, <1>t
        DEF BeginRefund, JobInv, TypeOK, txVars, moneyVars
    <2>2. CASE q # r
      BY <1>3, <2>2, <1>s, <1>t DEF BeginRefund, TypeOK
    <2> QED
      BY <2>1, <2>2
  <1>4. ASSUME NEW r \in Requests, NEW t \in Txs, BeginFail(r, t) PROVE JobInv(q)'
    <2>1. CASE q = r
      BY <1>4, <2>1, <1>t DEF BeginFail, JobInv, TypeOK, txVars
    <2>2. CASE q # r
      BY <1>4, <2>2, <1>s, <1>t DEF BeginFail, TypeOK
    <2> QED
      BY <2>1, <2>2
  <1>5. ASSUME NEW r \in Requests, NEW t \in Txs, NEW genuine \in BOOLEAN,
               BeginCapture(r, t, genuine)
        PROVE  JobInv(q)'
    <2>1. CASE q = r
      BY <1>5, <2>1, <1>t DEF BeginCapture, JobInv, TypeOK, txVars
    <2>2. CASE q # r
      BY <1>5, <2>2, <1>s, <1>t DEF BeginCapture, TypeOK
    <2> QED
      BY <2>1, <2>2
  <1>6. ASSUME NEW r \in Requests,
               \/ \E t \in Txs : CreateTransaction(r, t)
               \/ RejectCallback(r) \/ SetPaid(r) \/ MarkFailed(r)
               \/ GatewayRefuses(r) \/ LogAction(r) \/ Abort(r)
        PROVE  JobInv(q)'
    BY <1>6, <1>d DEF CreateTransaction, RejectCallback, SetPaid, MarkFailed,
                      GatewayRefuses, LogAction, Abort
  <1>7. ASSUME NEW r \in Requests, MarkCaptured(r) PROVE JobInv(q)'
    <2>1. CASE q = r
      <3>1. req[r] # NoJob /\ req[r].kind = "capture" /\ req[r].genuine
        BY <1>7 DEF MarkCaptured, At
      <3>2. /\ req'[r].kind = "capture" /\ req'[r].genuine
            /\ req'[r].order = req[r].order /\ req'[r].tx = req[r].tx
        BY <1>7, <3>1, <1>t, GotoJob DEF MarkCaptured
      <3> QED
        BY <1>7, <2>1, <3>1, <3>2, <1>t DEF MarkCaptured, JobInv
    <2>2. CASE q # r
      BY <1>7, <2>2, <1>s, <1>t, GotoJob DEF MarkCaptured, At
    <2> QED
      BY <2>1, <2>2
  <1>8. ASSUME NEW r \in Requests, SumRefunds(r) PROVE JobInv(q)'
    <2> DEFINE o == req[r].order
    <2>1. /\ At(r, "refund", "sum") /\ o \in OrderIds /\ refunded[o] \in Nat
          /\ req[r] \in Refunding
      BY <1>8, <1>t, JobFields DEF SumRefunds, At, TypeOK
    <2>2. CASE Done(r)
      BY <2>2, <1>d
    <2>3. CASE req' = [req EXCEPT ![r] = [@ EXCEPT !.step = "gateway", !.already = refunded[o]]]
      <3>1. CASE q = r
        <4>1. /\ req'[r].kind = "refund" /\ req'[r].step = "gateway"
              /\ req'[r].order = o /\ req'[r].tx = req[r].tx
              /\ req'[r].already = refunded[o]
          BY <2>1, <2>3, <1>t DEF TypeOK, At, Refunding
        <4>2. UNCHANGED <<txOrder, charged, refunded>>
          BY <1>8 DEF SumRefunds, txVars, gatewayVars
        <4> QED
          BY <2>1, <3>1, <4>1, <4>2, <1>t DEF JobInv, At
      <3>2. CASE q # r
        BY <2>3, <3>2, <1>s, <1>t DEF TypeOK
      <3> QED
        BY <3>1, <3>2
    <2> QED
      BY <1>8, <2>2, <2>3 DEF SumRefunds
  <1>9. ASSUME NEW r \in Requests, NEW step \in {"complete", "setTx", "setOrder", "audit"},
               req[r] # NoJob, req[r].kind = "refund", Goto(r, step),
               txOrder' = txOrder, charged' = charged,
               step = "complete" => req[r].step = "gateway" /\ refunded' = refunded,
               step = "setTx" => /\ req[r].step = "complete"
                                 /\ refunded'[req[r].order] = refunded[req[r].order] + req[r].amount,
               step = "setOrder" => req[r].step = "setTx" /\ refunded' = refunded
        PROVE  JobInv(q)'
    <2>1. CASE q = r
      <3>1. /\ req[r].order \in OrderIds
            /\ req[r].amount \in Nat /\ req[r].already \in Nat
        BY <1>9, <1>t, JobFields
      <3>2. refunded[req[r].order] \in Nat
        BY <3>1, <1>t DEF TypeOK
      <3>3. /\ req'[r].kind = "refund" /\ req'[r].step = step
            /\ req'[r].order = req[r].order /\ req'[r].tx = req[r].tx
            /\ req'[r].amount = req[r].amount /\ req'[r].already = req[r].already
        BY <1>9, <1>t, GotoJob
      <3> QED
        BY <1>9, <2>1, <3>1, <3>2, <3>3, <1>t DEF JobInv
    <2>2. CASE q # r
      BY <1>9, <2>2, <1>s, <1>t, GotoJob
    <2> QED
      BY <2>1, <2>2
  <1>10. ASSUME NEW r \in Requests, GatewayRefund(r) PROVE JobInv(q)'
    BY <1>10, <1>9 DEF GatewayRefund, At, txVars
  <1>11. ASSUME NEW r \in Requests, MarkRefundCompleted(r) PROVE JobInv(q)'
    <2>1. req[r].order \in OrderIds
      BY <1>11, <1>t, JobFields DEF MarkRefundCompleted, At
    <2> QED
      BY <1>11, <1>9, <2>1, <1>t DEF MarkRefundCompleted, At, txVars, TypeOK
  <1>12. ASSUME NEW r \in Requests, SetTxRefunded(r) PROVE JobInv(q)'
    BY <1>12, <1>9 DEF SetTxRefunded, At, moneyVars
  <1>13. ASSUME NEW r \in Requests, SetOrderRefunded(r) PROVE JobInv(q)'
    BY <1>13, <1>9 DEF SetOrderRefunded, At, txVars
  <1>14. ASSUME NEW r \in Requests, SetFails(r) PROVE JobInv(q)'
    BY <1>14, <1>9 DEF SetFails, At, txVars, moneyVars
  <1> QED
    BY <1>1, <1>2, <1>3, <1>4, <1>5, <1>6, <1>7, <1>8, <1>10, <1>11, <1>12, <1>13, <1>14
    DEF Next, CancelOrder, Pay, vars

\* The rows of transactions and orders stay consistent.
LEMMA NextRowsInv == PaymentsInv /\ [Next]_vars => RowsInv'
  <1> SUFFICES ASSUME PaymentsInv, [Next]_vars PROVE RowsInv'
    OBVIOUS
  <1>t. TypeOK /\ TypeOK'
    BY NextTypeOK DEF PaymentsInv
  <1>1. ASSUME NEW t \in Txs, txOrder'[t] = None
        PROVE  t \notin charged' /\ txStatus'[t] = "initiated"
    <2>1. txOrder[t] = None
      BY <1>1, Grows, <1>t
    <2>2. t \notin charged /\ txStatus[t] = "initiated"
      BY <2>1 DEF PaymentsInv, RowsInv
    <2>3. t \notin charged'
      BY <2>1, <2>2, Writers DEF Pay
    <2>4. ASSUME NEW r \in Requests, req[r] # NoJob, req[r].kind # "initiate"
          PROVE  req[r].tx # t
      BY <2>1, <2>4, <1>t, JobFields, SlotsAssumption DEF PaymentsInv, JobInv
    <2>5. txStatus'[t] = txStatus[t]
      BY <2>4, Writers, <1>t
      DEF MarkCaptured, RejectCallback, MarkFailed, SetTxRefunded, SetTx, At, TypeOK
    <2> QED
      BY <2>2, <2>3, <2>5
  <1>2. ASSUME NEW o \in OrderIds, latest'[o] # None PROVE txOrder'[latest'[o]] = o
    <2>1. CASE UNCHANGED <<txOrder, latest>>
      BY <1>2, <2>1 DEF PaymentsInv, RowsInv
    <2>2. ASSUME NEW r \in Requests, NEW t \in Txs, CreateTransaction(r, t)
          PROVE  txOrder'[latest'[o]] = o
      <3>1. txOrder[t] = None /\ req[r].order \in OrderIds
        BY <2>2, <1>t, JobFields DEF CreateTransaction, At
      <3>2. CASE o = req[r].order
        BY <2>2, <3>1, <3>2, <1>t DEF CreateTransaction, TypeOK
      <3>3. CASE o # req[r].order
        <4>1. latest'[o] = latest[o]
          BY <2>2, <3>3, <1>t DEF CreateTransaction, TypeOK
        <4>2. latest[o] \in Txs /\ txOrder[latest[o]] = o
          BY <1>2, <4>1, <1>t DEF PaymentsInv, RowsInv, TypeOK
        <4> QED
          BY <4>1, <4>2, <1>t, Grows, SlotsAssumption
      <3> QED
        BY <3>2, <3>3
    <2> QED
      BY <2>1, <2>2, Writers
  <1> QED
    BY <1>1, <1>2 DEF RowsInv

\* Whatever becomes paid, refunded or captured has been charged.
LEMMA NextPaidIsCharged == PaymentsInv /\ [Next]_vars => PaidIsCharged'
  <1> SUFFICES ASSUME PaymentsInv, [Next]_vars PROVE PaidIsCharged'
    OBVIOUS
  <1>t. TypeOK /\ TypeOK'
    BY NextTypeOK DEF PaymentsInv
  <1>c. \A o \in OrderIds : ChargesFor(o) \subseteq ChargesFor(o)'
    BY <1>t, Grows, SlotsAssumption DEF ChargesFor, TypeOK
  <1>1. ASSUME NEW o \in OrderIds, payStatus'[o] # "pending" PROVE ChargesFor(o)' # {}
    <2>1. CASE payStatus'[o] = payStatus[o]
      BY <1>1, <2>1, <1>c DEF PaymentsInv, PaidIsCharged
    <2>2. ASSUME NEW r \in Requests, SetPaid(r) \/ SetOrderRefunded(r), req[r].order = o
          PROVE  ChargesFor(o)' # {}
      <3>1. req[r] # NoJob /\ req[r].tx \in charged /\ txOrder[req[r].tx] = o
        BY <2>2 DEF SetPaid, SetOrderRefunded, At, PaymentsInv, JobInv
      <3> QED
        BY <3>1, <1>c DEF ChargesFor
    <2>3. ASSUME NEW r \in Requests, SetPaid(r) \/ SetOrderRefunded(r), req[r].order # o
          PROVE  payStatus'[o] = payStatus[o]
      BY <2>3, <1>t DEF SetPaid, SetOrderRefunded, TypeOK
    <2> QED
      BY <2>1, <2>2, <2>3, Writers
  <1>2. ASSUME NEW t \in Txs,
               txStatus'[t] \in {"captured", "refunded", "partially_refunded"}
        PROVE  t \in charged'
    <2>1. CASE txStatus'[t] = txStatus[t]
      BY <1>2, <2>1, <1>t, Grows DEF PaymentsInv, PaidIsCharged
    <2>2. ASSUME NEW r \in Requests, MarkCaptured(r) \/ SetTxRefunded(r), req[r].tx = t
          PROVE  t \in charged'
      <3>1. t \in charged
        BY <2>2 DEF MarkCaptured, SetTxRefunded, At, PaymentsInv, JobInv
      <3> QED
        BY <3>1, <1>t, Grows
    <2>3. ASSUME NEW r \in Requests, RejectCallback(r) \/ MarkFailed(r), req[r].tx = t
          PROVE  txStatus'[t] = "failed"
      BY <2>3, <1>t DEF RejectCallback, MarkFailed, SetTx, TypeOK
    <2>4. ASSUME NEW r \in Requests, req[r].tx # t,
                 MarkCaptured(r) \/ RejectCallback(r) \/ MarkFailed(r) \/ SetTxRefunded(r)
          PROVE  txStatus'[t] = txStatus[t]
      BY <2>4, <1>t
      DEF MarkCaptured, RejectCallback, MarkFailed, SetTxRefunded, SetTx, TypeOK
    <2> QED
      BY <1>2, <2>1, <2>2, <2>3, <2>4, Writers
  <1> QED
    BY <1>1, <1>2 DEF PaidIsCharged

\* A refund that is judged to be in full is covered by completed refunds.
LEMMA InFullIsCovered ==
  ASSUME PaymentsInv, NEW r \in Requests, req[r] # NoJob, req[r].kind = "refund",
         req[r].step \in {"setTx", "setOrder"}, InFull(req[r])
  PROVE  refunded[req[r].order] + Epsilon >= Total
  <1>1. /\ req[r].order \in OrderIds
        /\ req[r].amount \in Nat /\ req[r].already \in Nat
    BY JobFields DEF PaymentsInv
  <1>2. refunded[req[r].order] \in Nat
    BY <1>1 DEF PaymentsInv, TypeOK
  <1>3. req[r].already + req[r].amount <= refunded[req[r].order]
    BY DEF PaymentsInv, JobInv
  <1> QED
    BY <1>1, <1>2, <1>3, AmountsAssumption DEF InFull

\* What is shown as refunded is covered.
LEMMA NextRefundedInFull == PaymentsInv /\ [Next]_vars => RefundedInFull'
  <1> SUFFICES ASSUME PaymentsInv, [Next]_vars PROVE RefundedInFull'
    OBVIOUS
  <1>t. TypeOK /\ TypeOK'
    BY NextTypeOK DEF PaymentsInv
  <1>g. ASSUME NEW o \in OrderIds, refunded[o] + Epsilon >= Total
        PROVE  refunded'[o] + Epsilon >= Total
    <2>1. refunded[o] \in Nat /\ refunded'[o] \in Nat /\ refunded[o] <= refunded'[o]
      BY <1>t, Grows DEF TypeOK
    <2> QED
      BY <1>g, <2>1, AmountsAssumption
  <1>1. ASSUME NEW o \in OrderIds, payStatus'[o] = "refunded"
        PROVE  refunded'[o] + Epsilon >= Total
    <2>1. CASE payStatus'[o] = payStatus[o]
      BY <1>1, <2>1, <1>g DEF PaymentsInv, RefundedInFull
    <2>2. ASSUME NEW r \in Requests, SetOrderRefunded(r), req[r].order = o
          PROVE  refunded'[o] + Epsilon >= Total
      <3>1. InFull(req[r])
        BY <1>1, <2>2, <1>t DEF SetOrderRefunded, TypeOK
      <3> QED
        BY <2>2, <3>1, <1>g, InFullIsCovered DEF SetOrderRefunded, At
    <2>3. ASSUME NEW r \in Requests, SetPaid(r), req[r].order = o
          PROVE  payStatus'[o] = "paid"
      BY <2>3, <1>t DEF SetPaid, TypeOK
    <2>4. ASSUME NEW r \in Requests, SetPaid(r) \/ SetOrderRefunded(r), req[r].order # o
          PROVE  payStatus'[o] = payStatus[o]
      BY <2>4, <1>t DEF SetPaid, SetOrderRefunded, TypeOK
    <2> QED
      BY <1>1, <2>1, <2>2, <2>3, <2>4, Writers
  <1>2. ASSUME NEW t \in Txs, txStatus'[t] = "refunded"
        PROVE  refunded'[txOrder'[t]] + Epsilon >= Total
    <2>1. CASE txStatus'[t] = txStatus[t]
      <3>1. txOrder[t] \in OrderIds /\ txOrder'[t] = txOrder[t]
        BY <1>2, <2>1, <1>t, Grows DEF PaymentsInv, RowsInv, TypeOK
      <3> QED
        BY <1>2, <2>1, <3>1, <1>g DEF PaymentsInv, RefundedInFull
    <2>2. ASSUME NEW r \in Requests, SetTxRefunded(r), req[r].tx = t
          PROVE  refunded'[txOrder'[t]] + Epsilon >= Total
      <3>1. /\ At(r, "refund", "setTx") /\ InFull(req[r])
            /\ txOrder' = txOrder
        BY <1>2, <2>2, <1>t DEF SetTxRefunded, SetTx, TypeOK
      <3>2. req[r].order \in OrderIds /\ txOrder[t] = req[r].order
        BY <2>2, <3>1, <1>t, JobFields DEF PaymentsInv, JobInv, At
      <3> QED
        BY <3>1, <3>2, <1>g, InFullIsCovered DEF At
    <2>3. ASSUME NEW r \in Requests, req[r].tx = t,
                 MarkCaptured(r) \/ RejectCallback(r) \/ MarkFailed(r)
          PROVE  txStatus'[t] \in {"captured", "failed"}
      BY <2>3, <1>t DEF MarkCaptured, RejectCallback, MarkFailed, SetTx, TypeOK
    <2>4. ASSUME NEW r \in Requests, req[r].tx # t,
                 MarkCaptured(r) \/ RejectCallback(r) \/ MarkFailed(r) \/ SetTxRefunded(r)
          PROVE  txStatus'[t] = txStatus[t]
      BY <2>4, <1>t
      DEF MarkCaptured, RejectCallback, MarkFailed, SetTxRefunded, SetTx, TypeOK
    <2> QED
      BY <1>2, <2>1, <2>2, <2>3, <2>4, Writers
  <1> QED
    BY <1>1, <1>2 DEF RefundedInFull

\* The inductive invariant holds in every reachable state.
LEMMA SpecPaymentsInv == Spec => []PaymentsInv
  <1>1. PaymentsInv /\ [Next]_vars => PaymentsInv'
    BY NextTypeOK, NextJobInv, NextRowsInv, NextPaidIsCharged, NextRefundedInFull
    DEF PaymentsInv
  <1> QED
    BY <1>1, InitPaymentsInv, PTL DEF Spec

\* Orders and transactions count as paid or refunded only when the customer
\* was charged (PaidIsCharged), in whatever order genuine and false callbacks,
\* failure reports, refunds and cancellations arrive.
THEOREM PaidIsChargedCorrect == Spec => []PaidIsCharged
  <1>1. PaymentsInv => PaidIsCharged
    BY DEF PaymentsInv
  <1> QED
    BY <1>1, SpecPaymentsInv, PTL

\* What is shown as refunded is covered by completed refunds
\* (RefundedInFull), although Refund judges that on a sum it read earlier.
THEOREM RefundedInFullCorrect == Spec => []RefundedInFull
  <1>1. PaymentsInv => RefundedInFull
    BY DEF PaymentsInv
  <1> QED
    BY <1>1, SpecPaymentsInv, PTL

-----------------------------------------------------------------------------
(***************************************************************************)
(* The money under way.  A refund the gateway has paid, and later one that *)
(* is booked, is in no sum yet but in its request.  What the requests hold *)
(* for an order is counted unit by unit, as a set of <<request, n>> with n *)
(* up to the amount, so that the sum over the requests is the cardinality  *)
(* of that set.                                                            *)
(***************************************************************************)

Takes(job, o, steps) ==
    job # NoJob /\ job.kind = "refund" /\ job.order = o /\ job.step \in steps

Weight(job, o, steps) == IF Takes(job, o, steps) THEN job.amount ELSE 0

Units(jobs, o, steps) ==
    {u \in Requests \X Nat : u[2] \in 1 .. Weight(jobs[u[1]], o, steps)}

PaidSteps == {"complete"}
BookedSteps == {"setTx", "setOrder", "audit"}

\* What the requests hold of order o that is paid and not booked, and that is
\* booked and not audited.
Unbooked(o) == Cardinality(Units(req, o, PaidSteps))
Unaudited(o) == Cardinality(Units(req, o, BookedSteps))

\* The platform's sums and what its requests hold are covered by what the
\* gateway paid; exactly, where no paid refund was lost.
FundsInv ==
    \A o \in OrderIds :
        /\ IsFiniteSet(Units(req, o, PaidSteps)) /\ IsFiniteSet(Units(req, o, BookedSteps))
        /\ audited[o] + Unaudited(o) <= refunded[o]
        /\ refunded[o] + Unbooked(o) <= paidBack[o]
        /\ o \notin unbooked => refunded[o] + Unbooked(o) = paidBack[o]

\* The weight of a job is a natural number.
LEMMA WeightType ==
  ASSUME NEW job \in Job \cup {NoJob}, NEW o, NEW steps
  PROVE  Weight(job, o, steps) \in Nat
  BY AmountsAssumption, SlotsAssumption
  DEF Weight, Takes, Job, Initiating, Capturing, Failing, Refunding

\* One request's units are as many as its amount.
LEMMA SliceCardinality ==
  ASSUME NEW r, NEW n \in Nat
  PROVE  IsFiniteSet({r} \X (1 .. n)) /\ Cardinality({r} \X (1 .. n)) = n
  <1>1. IsFiniteSet({r}) /\ Cardinality({r}) = 1
    BY FS_Singleton
  <1>2. IsFiniteSet(1 .. n) /\ Cardinality(1 .. n) = n
    BY FS_Interval
  <1>3. /\ IsFiniteSet({r} \X (1 .. n))
        /\ Cardinality({r} \X (1 .. n)) = Cardinality({r}) * Cardinality(1 .. n)
    BY <1>1, <1>2, FS_Product
  <1> QED
    BY <1>1, <1>2, <1>3

\* When one request changes, the sum changes by what its weight changes.
LEMMA UnitsStep ==
  ASSUME NEW J \in [Requests -> Job \cup {NoJob}], NEW K \in [Requests -> Job \cup {NoJob}],
         NEW r \in Requests, \A q \in Requests \ {r} : K[q] = J[q],
         NEW o, NEW steps, IsFiniteSet(Units(J, o, steps))
  PROVE  /\ IsFiniteSet(Units(K, o, steps))
         /\ Cardinality(Units(J, o, steps)) \in Nat
         /\ Cardinality(Units(K, o, steps)) \in Nat
         /\ Cardinality(Units(K, o, steps)) + Weight(J[r], o, steps)
              = Cardinality(Units(J, o, steps)) + Weight(K[r], o, steps)
  <1> DEFINE Slice(L) == {r} \X (1 .. Weight(L[r], o, steps))
             Others == {u \in Requests \X Nat :
                          u[1] # r /\ u[2] \in 1 .. Weight(J[u[1]], o, steps)}
  <1>w. Weight(J[r], o, steps) \in Nat /\ Weight(K[r], o, steps) \in Nat
    BY WeightType
  <1>1. Units(J, o, steps) = Others \cup Slice(J)
    BY <1>w DEF Units
  <1>2. Units(K, o, steps) = Others \cup Slice(K)
    BY <1>w DEF Units
  <1>3. Others \cap Slice(J) = {} /\ Others \cap Slice(K) = {}
    OBVIOUS
  <1>4. IsFiniteSet(Others)
    BY <1>1, FS_Subset
  <1>5. /\ IsFiniteSet(Slice(J)) /\ Cardinality(Slice(J)) = Weight(J[r], o, steps)
        /\ IsFiniteSet(Slice(K)) /\ Cardinality(Slice(K)) = Weight(K[r], o, steps)
    BY <1>w, SliceCardinality
  <1>6. Cardinality(Others) \in Nat
    BY <1>4, FS_CardinalityType
  <1>9. Cardinality(Others \cap Slice(J)) = 0 /\ Cardinality(Others \cap Slice(K)) = 0
    BY <1>3, FS_EmptySet, Zenon
  <1> HIDE DEF Slice, Others
  <1>7. /\ IsFiniteSet(Others \cup Slice(J))
        /\ Cardinality(Others \cup Slice(J)) = Cardinality(Others) + Weight(J[r], o, steps)
    <2>1. /\ IsFiniteSet(Others \cup Slice(J))
          /\ Cardinality(Others \cup Slice(J))
            = Cardinality(Others) + Cardinality(Slice(J)) - Cardinality(Others \cap Slice(J))
      BY <1>4, <1>5, FS_Union
    <2> QED
      BY <2>1, <1>w, <1>5, <1>6, <1>9
  <1>8. /\ IsFiniteSet(Others \cup Slice(K))
        /\ Cardinality(Others \cup Slice(K)) = Cardinality(Others) + Weight(K[r], o, steps)
    <2>1. /\ IsFiniteSet(Others \cup Slice(K))
          /\ Cardinality(Others \cup Slice(K))
            = Cardinality(Others) + Cardinality(Slice(K)) - Cardinality(Others \cap Slice(K))
      BY <1>4, <1>5, FS_Union
    <2> QED
      BY <2>1, <1>w, <1>5, <1>6, <1>9
  <1> QED
    BY <1>w, <1>1, <1>2, <1>6, <1>7, <1>8

\* What one request holds is part of the sum.
LEMMA UnitsHold ==
  ASSUME NEW J \in [Requests -> Job \cup {NoJob}], NEW r \in Requests,
         NEW o, NEW steps, IsFiniteSet(Units(J, o, steps))
  PROVE  Weight(J[r], o, steps) <= Cardinality(Units(J, o, steps))
  <1>1. Weight(J[r], o, steps) \in Nat
    BY WeightType
  <1>2. {r} \X (1 .. Weight(J[r], o, steps)) \subseteq Units(J, o, steps)
    BY <1>1 DEF Units
  <1>3. Cardinality({r} \X (1 .. Weight(J[r], o, steps))) = Weight(J[r], o, steps)
    BY <1>1, SliceCardinality
  <1>4. Cardinality({r} \X (1 .. Weight(J[r], o, steps))) <= Cardinality(Units(J, o, steps))
    BY <1>2, FS_Subset
  <1> QED
    BY <1>3, <1>4

\* Where only request r holds something, the sum is what r holds.
LEMMA UnitsOfOne ==
  ASSUME NEW J \in [Requests -> Job \cup {NoJob}], NEW r \in Requests,
         NEW o, NEW steps, \A q \in Requests \ {r} : ~Takes(J[q], o, steps)
  PROVE  Cardinality(Units(J, o, steps)) = Weight(J[r], o, steps)
  <1>1. Weight(J[r], o, steps) \in Nat
    BY WeightType
  <1>2. \A q \in Requests \ {r} : Weight(J[q], o, steps) = 0
    BY DEF Weight
  <1>3. Units(J, o, steps) = {r} \X (1 .. Weight(J[r], o, steps))
    BY <1>1, <1>2 DEF Units
  <1> QED
    BY <1>1, <1>3, SliceCardinality

\* A step of one request keeps the books covered when they change by no more
\* than what the request holds does.
LEMMA FundsStep ==
  ASSUME TypeOK, TypeOK', FundsInv, unbooked \subseteq unbooked',
         NEW r \in Requests, \A q \in Requests \ {r} : req'[q] = req[q],
         \A o \in OrderIds :
            LET heldPaid     == Weight(req[r], o, PaidSteps)
                holdsPaid    == Weight(req'[r], o, PaidSteps)
                heldBooked   == Weight(req[r], o, BookedSteps)
                holdsBooked  == Weight(req'[r], o, BookedSteps)
            IN /\ audited'[o] + holdsBooked + refunded[o]
                    <= refunded'[o] + audited[o] + heldBooked
               /\ refunded'[o] + holdsPaid + paidBack[o]
                    <= paidBack'[o] + refunded[o] + heldPaid
               /\ o \notin unbooked' =>
                    refunded'[o] + holdsPaid + paidBack[o]
                       = paidBack'[o] + refunded[o] + heldPaid
  PROVE  FundsInv'
  <1> SUFFICES ASSUME NEW o \in OrderIds
               PROVE  /\ IsFiniteSet(Units(req', o, PaidSteps))
                      /\ IsFiniteSet(Units(req', o, BookedSteps))
                      /\ audited'[o] + Unaudited(o)' <= refunded'[o]
                      /\ refunded'[o] + Unbooked(o)' <= paidBack'[o]
                      /\ o \notin unbooked' => refunded'[o] + Unbooked(o)' = paidBack'[o]
    BY DEF FundsInv, Units
  <1>t. /\ req \in [Requests -> Job \cup {NoJob}] /\ req' \in [Requests -> Job \cup {NoJob}]
        /\ audited[o] \in Nat /\ refunded[o] \in Nat /\ paidBack[o] \in Nat
        /\ audited'[o] \in Nat /\ refunded'[o] \in Nat /\ paidBack'[o] \in Nat
    BY DEF TypeOK
  <1>f. /\ IsFiniteSet(Units(req, o, PaidSteps)) /\ IsFiniteSet(Units(req, o, BookedSteps))
        /\ audited[o] + Unaudited(o) <= refunded[o]
        /\ refunded[o] + Unbooked(o) <= paidBack[o]
        /\ o \notin unbooked' => refunded[o] + Unbooked(o) = paidBack[o]
    BY DEF FundsInv
  <1>w. /\ Weight(req[r], o, PaidSteps) \in Nat /\ Weight(req'[r], o, PaidSteps) \in Nat
        /\ Weight(req[r], o, BookedSteps) \in Nat /\ Weight(req'[r], o, BookedSteps) \in Nat
    BY <1>t, WeightType
  <1>p. /\ IsFiniteSet(Units(req', o, PaidSteps))
        /\ Unbooked(o) \in Nat /\ Unbooked(o)' \in Nat
        /\ Unbooked(o)' + Weight(req[r], o, PaidSteps)
             = Unbooked(o) + Weight(req'[r], o, PaidSteps)
    BY <1>t, <1>f, UnitsStep DEF Unbooked
  <1>b. /\ IsFiniteSet(Units(req', o, BookedSteps))
        /\ Unaudited(o) \in Nat /\ Unaudited(o)' \in Nat
        /\ Unaudited(o)' + Weight(req[r], o, BookedSteps)
             = Unaudited(o) + Weight(req'[r], o, BookedSteps)
    BY <1>t, <1>f, UnitsStep DEF Unaudited
  <1>1. audited'[o] + Unaudited(o)' <= refunded'[o]
    BY <1>t, <1>f, <1>w, <1>b
  <1>2. refunded'[o] + Unbooked(o)' <= paidBack'[o]
    BY <1>t, <1>f, <1>w, <1>p
  <1>3. o \notin unbooked' => refunded'[o] + Unbooked(o)' = paidBack'[o]
    BY <1>t, <1>f, <1>w, <1>p
  <1> QED
    BY <1>p, <1>b, <1>1, <1>2, <1>3

\* At first nothing is held.
LEMMA InitFundsInv == Init => FundsInv
  <1> SUFFICES ASSUME Init, NEW o \in OrderIds
               PROVE  /\ IsFiniteSet(Units(req, o, PaidSteps))
                      /\ IsFiniteSet(Units(req, o, BookedSteps))
                      /\ audited[o] + Unaudited(o) <= refunded[o]
                      /\ refunded[o] + Unbooked(o) = paidBack[o]
                      /\ refunded[o] + Unbooked(o) <= paidBack[o]
    BY DEF FundsInv
  <1>1. audited[o] = 0 /\ refunded[o] = 0 /\ paidBack[o] = 0
    BY DEF Init
  <1>2. \A r \in Requests : /\ Weight(req[r], o, PaidSteps) = 0
                            /\ Weight(req[r], o, BookedSteps) = 0
    BY DEF Init, Weight, Takes
  <1>3. Units(req, o, PaidSteps) = {} /\ Units(req, o, BookedSteps) = {}
    BY <1>2 DEF Units
  <1>4. /\ IsFiniteSet(Units(req, o, PaidSteps)) /\ IsFiniteSet(Units(req, o, BookedSteps))
        /\ Unaudited(o) = 0 /\ Unbooked(o) = 0
    BY <1>3, FS_EmptySet, Zenon DEF Unaudited, Unbooked
  <1> QED
    BY <1>1, <1>4

\* A step of one request that holds neither before nor after it, and that
\* leaves the books alone, keeps them covered.
LEMMA FundsFrame ==
  ASSUME TypeOK, TypeOK', FundsInv, UNCHANGED <<refunded, audited, paidBack>>,
         unbooked \subseteq unbooked',
         NEW r \in Requests, \A q \in Requests \ {r} : req'[q] = req[q],
         \A o \in OrderIds :
            /\ Weight(req'[r], o, PaidSteps) = Weight(req[r], o, PaidSteps)
            /\ Weight(req'[r], o, BookedSteps) = Weight(req[r], o, BookedSteps)
  PROVE  FundsInv'
  <1>1. ASSUME NEW o \in OrderIds
        PROVE  /\ audited[o] \in Nat /\ refunded[o] \in Nat /\ paidBack[o] \in Nat
               /\ Weight(req[r], o, PaidSteps) \in Nat
               /\ Weight(req[r], o, BookedSteps) \in Nat
    BY WeightType DEF TypeOK
  <1> QED
    BY <1>1, FundsStep

\* Every step keeps the books covered.
LEMMA NextFundsInv == TypeOK /\ FundsInv /\ [Next]_vars => FundsInv'
  <1> SUFFICES ASSUME TypeOK, FundsInv, [Next]_vars PROVE FundsInv'
    OBVIOUS
  <1>t. TypeOK'
    BY NextTypeOK
  <1> USE DEF orderVars, txVars, gatewayVars, moneyVars, ghostVars
  <1>1. CASE UNCHANGED <<req, refunded, audited, paidBack, unbooked>>
    BY <1>1 DEF FundsInv, Unbooked, Unaudited, Units
  <1>b. ASSUME NEW r \in Requests, Free(r), NEW j, req' = [req EXCEPT ![r] = j],
               j.kind = "refund" => j.step = "sum",
               UNCHANGED <<refunded, audited, paidBack, unbooked>>
        PROVE  FundsInv'
    <2>1. req'[r] = j /\ \A q \in Requests \ {r} : req'[q] = req[q]
      BY <1>b DEF TypeOK
    <2>2. \A o \in OrderIds :
            /\ Weight(req'[r], o, PaidSteps) = Weight(req[r], o, PaidSteps)
            /\ Weight(req'[r], o, BookedSteps) = Weight(req[r], o, BookedSteps)
      BY <1>b, <2>1 DEF Free, Weight, Takes, PaidSteps, BookedSteps
    <2> QED
      BY <1>b, <1>t, <2>1, <2>2, FundsFrame
  <1>2. ASSUME NEW r \in Requests,
               \/ \E o \in OrderIds : BeginInitiate(r, o)
               \/ \E o \in OrderIds, amount \in RefundAmounts : BeginRefund(r, o, amount)
               \/ \E t \in Txs : BeginFail(r, t)
               \/ \E t \in Txs, genuine \in BOOLEAN : BeginCapture(r, t, genuine)
        PROVE  FundsInv'
    BY <1>2, <1>b DEF BeginInitiate, BeginRefund, BeginFail, BeginCapture
  \* A request that is no refund, or has not been to the gateway, holds nothing.
  <1>d. ASSUME NEW r \in Requests, req[r] # NoJob, Done(r),
               req[r].kind = "refund" => req[r].step \in {"sum", "gateway"},
               UNCHANGED <<refunded, audited, paidBack, unbooked>>
        PROVE  FundsInv'
    <2>1. req'[r] = NoJob /\ \A q \in Requests \ {r} : req'[q] = req[q]
      BY <1>d DEF Done, TypeOK
    <2>2. \A o \in OrderIds :
            /\ Weight(req'[r], o, PaidSteps) = Weight(req[r], o, PaidSteps)
            /\ Weight(req'[r], o, BookedSteps) = Weight(req[r], o, BookedSteps)
      BY <1>d, <2>1 DEF Weight, Takes, PaidSteps, BookedSteps
    <2> QED
      BY <1>d, <1>t, <2>1, <2>2, FundsFrame
  <1>3. ASSUME NEW r \in Requests,
               \/ \E t \in Txs : CreateTransaction(r, t)
               \/ RejectCallback(r) \/ SetPaid(r) \/ MarkFailed(r) \/ GatewayRefuses(r)
        PROVE  FundsInv'
    BY <1>3, <1>d DEF CreateTransaction, RejectCallback, SetPaid, MarkFailed,
                      GatewayRefuses, At
  <1>4. ASSUME NEW r \in Requests, MarkCaptured(r) PROVE FundsInv'
    <2>1. /\ req[r] # NoJob /\ req[r].kind = "capture" /\ req'[r].kind = "capture"
          /\ \A q \in Requests \ {r} : req'[q] = req[q]
      BY <1>4, GotoJob DEF MarkCaptured, At
    <2>2. \A o \in OrderIds :
            /\ Weight(req'[r], o, PaidSteps) = Weight(req[r], o, PaidSteps)
            /\ Weight(req'[r], o, BookedSteps) = Weight(req[r], o, BookedSteps)
      BY <2>1 DEF Weight, Takes
    <2> QED
      BY <1>4, <1>t, <2>1, <2>2, FundsFrame DEF MarkCaptured
  <1>5. ASSUME NEW r \in Requests, SumRefunds(r) PROVE FundsInv'
    <2> DEFINE o == req[r].order
    <2>1. /\ req[r] # NoJob /\ req[r].kind = "refund" /\ req[r].step = "sum"
          /\ req[r] \in Refunding
          /\ UNCHANGED <<refunded, audited, paidBack, unbooked>>
      BY <1>5, JobFields DEF SumRefunds, At
    <2>2. CASE Done(r)
      BY <2>1, <2>2, <1>d
    <2>3. CASE req' = [req EXCEPT ![r] = [@ EXCEPT !.step = "gateway", !.already = refunded[o]]]
      <3>1. /\ req'[r].step = "gateway"
            /\ \A q \in Requests \ {r} : req'[q] = req[q]
        BY <2>1, <2>3 DEF TypeOK, Refunding
      <3>2. \A p \in OrderIds :
              /\ Weight(req'[r], p, PaidSteps) = Weight(req[r], p, PaidSteps)
              /\ Weight(req'[r], p, BookedSteps) = Weight(req[r], p, BookedSteps)
        BY <2>1, <3>1 DEF Weight, Takes, PaidSteps, BookedSteps
      <3> QED
        BY <1>t, <2>1, <3>1, <3>2, FundsFrame
    <2> QED
      BY <1>5, <2>2, <2>3 DEF SumRefunds
  \* A refund moves on: it holds what the step it reaches holds.
  <1>g. ASSUME NEW r \in Requests,
               NEW step \in {"complete", "setTx", "setOrder", "audit"},
               req[r] # NoJob, req[r].kind = "refund", Goto(r, step)
        PROVE  /\ \A q \in Requests \ {r} : req'[q] = req[q]
               /\ req[r].order \in OrderIds /\ req[r].amount \in Nat
               /\ \A o \in OrderIds, steps \in {PaidSteps, BookedSteps} :
                     Weight(req'[r], o, steps) =
                        IF o = req[r].order /\ step \in steps THEN req[r].amount ELSE 0
    <2>1. /\ req'[r].kind = "refund" /\ req'[r].step = step
          /\ req'[r].order = req[r].order /\ req'[r].amount = req[r].amount
          /\ \A q \in Requests \ {r} : req'[q] = req[q]
      BY <1>g, GotoJob
    <2>2. req'[r] # NoJob
      <3>1. req'[r] = [req[r] EXCEPT !.step = step] /\ req[r] \in Refunding
        BY <1>g, GotoJob, JobFields
      <3>2. req'[r] \in Refunding
        BY <1>g, <3>1 DEF Refunding
      <3> QED
        BY <3>2, SlotsAssumption DEF Job
    <2>3. req[r].order \in OrderIds /\ req[r].amount \in Nat
      BY <1>g, JobFields
    <2> QED
      BY <2>1, <2>2, <2>3 DEF Weight, Takes
  \* So far it has held what its step held.
  <1>h. ASSUME NEW r \in Requests, req[r] # NoJob, req[r].kind = "refund"
        PROVE  \A o \in OrderIds, steps \in {PaidSteps, BookedSteps} :
                  Weight(req[r], o, steps) =
                     IF o = req[r].order /\ req[r].step \in steps THEN req[r].amount ELSE 0
    BY <1>h DEF Weight, Takes
  <1>6. ASSUME NEW r \in Requests, SetTxRefunded(r) \/ SetOrderRefunded(r) \/ SetFails(r)
        PROVE  FundsInv'
    <2>1. /\ req[r] # NoJob /\ req[r].kind = "refund"
          /\ req[r].step \in {"setTx", "setOrder"}
          /\ \E step \in {"setOrder", "audit"} : Goto(r, step)
          /\ UNCHANGED <<refunded, audited, paidBack, unbooked>>
      BY <1>6 DEF SetTxRefunded, SetOrderRefunded, SetFails, At
    <2>2. PICK step \in {"setOrder", "audit"} : Goto(r, step)
      BY <2>1
    <2>3. \A o \in OrderIds :
            /\ Weight(req'[r], o, PaidSteps) = Weight(req[r], o, PaidSteps)
            /\ Weight(req'[r], o, BookedSteps) = Weight(req[r], o, BookedSteps)
      BY <2>1, <2>2, <1>g, <1>h DEF PaidSteps, BookedSteps
    <2> QED
      BY <1>t, <2>1, <2>2, <2>3, <1>g, FundsFrame
  <1>7. ASSUME NEW r \in Requests, GatewayRefund(r) PROVE FundsInv'
    <2>1. /\ req[r] # NoJob /\ req[r].kind = "refund" /\ req[r].step = "gateway"
          /\ Goto(r, "complete")
          /\ paidBack' = [paidBack EXCEPT ![req[r].order] = @ + req[r].amount]
          /\ UNCHANGED <<refunded, audited, unbooked>>
      BY <1>7 DEF GatewayRefund, At
    <2>2. /\ \A q \in Requests \ {r} : req'[q] = req[q]
          /\ req[r].order \in OrderIds /\ req[r].amount \in Nat
      BY <2>1, <1>g
    <2>3. ASSUME NEW o \in OrderIds
          PROVE  /\ Weight(req[r], o, PaidSteps) = 0 /\ Weight(req[r], o, BookedSteps) = 0
                 /\ Weight(req'[r], o, BookedSteps) = 0
                 /\ paidBack'[o] = paidBack[o] + Weight(req'[r], o, PaidSteps)
                 /\ audited[o] \in Nat /\ refunded[o] \in Nat /\ paidBack[o] \in Nat
                 /\ Weight(req'[r], o, PaidSteps) \in Nat
      <3>1. /\ Weight(req[r], o, PaidSteps) = 0 /\ Weight(req[r], o, BookedSteps) = 0
            /\ Weight(req'[r], o, BookedSteps) = 0
            /\ Weight(req'[r], o, PaidSteps) = IF o = req[r].order THEN req[r].amount ELSE 0
        BY <2>1, <1>g, <1>h DEF PaidSteps, BookedSteps
      <3> QED
        BY <2>1, <2>2, <3>1 DEF TypeOK
    <2> QED
      BY <1>t, <2>1, <2>2, <2>3, FundsStep
  <1>8. ASSUME NEW r \in Requests, MarkRefundCompleted(r) PROVE FundsInv'
    <2>1. /\ req[r] # NoJob /\ req[r].kind = "refund" /\ req[r].step = "complete"
          /\ Goto(r, "setTx")
          /\ refunded' = [refunded EXCEPT ![req[r].order] = @ + req[r].amount]
          /\ UNCHANGED <<paidBack, audited, unbooked>>
      BY <1>8 DEF MarkRefundCompleted, At
    <2>2. /\ \A q \in Requests \ {r} : req'[q] = req[q]
          /\ req[r].order \in OrderIds /\ req[r].amount \in Nat
      BY <2>1, <1>g
    <2>3. ASSUME NEW o \in OrderIds
          PROVE  /\ Weight(req'[r], o, PaidSteps) = 0 /\ Weight(req[r], o, BookedSteps) = 0
                 /\ Weight(req[r], o, PaidSteps) = Weight(req'[r], o, BookedSteps)
                 /\ refunded'[o] = refunded[o] + Weight(req'[r], o, BookedSteps)
                 /\ audited[o] \in Nat /\ refunded[o] \in Nat /\ paidBack[o] \in Nat
                 /\ Weight(req'[r], o, BookedSteps) \in Nat
      <3>1. /\ Weight(req'[r], o, PaidSteps) = 0 /\ Weight(req[r], o, BookedSteps) = 0
            /\ Weight(req[r], o, PaidSteps) = IF o = req[r].order THEN req[r].amount ELSE 0
            /\ Weight(req'[r], o, BookedSteps) = IF o = req[r].order THEN req[r].amount ELSE 0
        BY <2>1, <1>g, <1>h DEF PaidSteps, BookedSteps
      <3> QED
        BY <2>1, <2>2, <3>1 DEF TypeOK
    <2> QED
      BY <1>t, <2>1, <2>2, <2>3, FundsStep
  <1>9. ASSUME NEW r \in Requests, LogAction(r) PROVE FundsInv'
    <2>1. /\ req[r] # NoJob /\ req[r].kind = "refund" /\ req[r].step = "audit"
          /\ req'[r] = NoJob /\ \A q \in Requests \ {r} : req'[q] = req[q]
          /\ audited' = [audited EXCEPT ![req[r].order] = @ + req[r].amount]
          /\ UNCHANGED <<paidBack, refunded, unbooked>>
      BY <1>9 DEF LogAction, At, Done, TypeOK
    <2>2. req[r].order \in OrderIds /\ req[r].amount \in Nat
      BY <2>1, JobFields
    <2>3. ASSUME NEW o \in OrderIds
          PROVE  /\ Weight(req[r], o, PaidSteps) = 0
                 /\ Weight(req'[r], o, PaidSteps) = 0 /\ Weight(req'[r], o, BookedSteps) = 0
                 /\ audited'[o] = audited[o] + Weight(req[r], o, BookedSteps)
                 /\ audited[o] \in Nat /\ refunded[o] \in Nat /\ paidBack[o] \in Nat
                 /\ Weight(req[r], o, BookedSteps) \in Nat
      <3>1. Weight(req'[r], o, PaidSteps) = 0 /\ Weight(req'[r], o, BookedSteps) = 0
        BY <2>1 DEF Weight, Takes
      <3> QED
        BY <2>1, <2>2, <3>1, <1>h DEF PaidSteps, BookedSteps, TypeOK
    <2> QED
      BY <1>t, <2>1, <2>2, <2>3, FundsStep
  <1>10. ASSUME NEW r \in Requests, Abort(r) PROVE FundsInv'
    <2>1. /\ req[r] # NoJob
          /\ req'[r] = NoJob /\ \A q \in Requests \ {r} : req'[q] = req[q]
          /\ unbooked' = unbooked \cup {o \in {req[r].order} : At(r, "refund", "complete")}
          /\ UNCHANGED <<paidBack, refunded, audited>>
      BY <1>10 DEF Abort, Free, Done, TypeOK
    <2>2. ASSUME NEW o \in OrderIds
          PROVE  /\ Weight(req'[r], o, PaidSteps) = 0 /\ Weight(req'[r], o, BookedSteps) = 0
                 /\ Weight(req[r], o, PaidSteps) \in Nat /\ Weight(req[r], o, BookedSteps) \in Nat
                 /\ o \notin unbooked' => Weight(req[r], o, PaidSteps) = 0
                 /\ audited[o] \in Nat /\ refunded[o] \in Nat /\ paidBack[o] \in Nat
      <3>1. Weight(req'[r], o, PaidSteps) = 0 /\ Weight(req'[r], o, BookedSteps) = 0
        BY <2>1 DEF Weight, Takes
      <3>2. Weight(req[r], o, PaidSteps) \in Nat /\ Weight(req[r], o, BookedSteps) \in Nat
        BY WeightType DEF TypeOK
      <3>3. o \notin unbooked' => Weight(req[r], o, PaidSteps) = 0
        BY <2>1 DEF Weight, Takes, PaidSteps, At
      <3> QED
        BY <3>1, <3>2, <3>3 DEF TypeOK
    <2>3. unbooked \subseteq unbooked'
      BY <2>1
    <2> QED
      BY <1>t, <2>1, <2>2, <2>3, FundsStep
  <1> QED
    BY <1>1, <1>2, <1>3, <1>4, <1>5, <1>6, <1>7, <1>8, <1>9, <1>10
    DEF Next, CancelOrder, Pay, vars

-----------------------------------------------------------------------------
\* On an order whose refunds never overlapped at most one refund is in
\* flight, and its amount still fits into the balance.
BalanceInv ==
    \A o \in OrderIds \ overlapped :
        /\ refunded[o] <= Total + Epsilon
        /\ \A r \in Requests : RefundInFlight(r, o) =>
              /\ refunded[o] + req[r].amount <= Total + Epsilon
              /\ \A s \in Requests : RefundInFlight(s, o) => s = r

\* A step after which the refunds in flight are among those before it, with
\* their amounts, and which books none of them, keeps the balance.
LEMMA BalanceFrame ==
  ASSUME BalanceInv, refunded' = refunded, overlapped' = overlapped,
         \A r \in Requests, o \in OrderIds : RefundInFlight(r, o)' =>
            RefundInFlight(r, o) /\ req'[r].amount = req[r].amount
  PROVE  BalanceInv'
  BY DEF BalanceInv

\* Every step keeps the balance.
LEMMA NextBalanceInv == TypeOK /\ BalanceInv /\ [Next]_vars => BalanceInv'
  <1> SUFFICES ASSUME TypeOK, BalanceInv, [Next]_vars PROVE BalanceInv'
    OBVIOUS
  <1> USE DEF orderVars, txVars, gatewayVars, moneyVars, ghostVars
  <1>1. CASE UNCHANGED <<req, refunded, overlapped>>
    BY <1>1, BalanceFrame DEF RefundInFlight
  <1>d. ASSUME NEW r \in Requests, Done(r), refunded' = refunded, overlapped' = overlapped
        PROVE  BalanceInv'
    BY <1>d, BalanceFrame DEF Done, RefundInFlight, TypeOK
  <1>b. ASSUME NEW r \in Requests, NEW j, req' = [req EXCEPT ![r] = j],
               j.kind = "refund" => j.step = "sum",
               refunded' = refunded, overlapped' = overlapped
        PROVE  BalanceInv'
    BY <1>b, BalanceFrame DEF RefundInFlight, TypeOK
  <1>2. ASSUME NEW r \in Requests,
               \/ \E o \in OrderIds : BeginInitiate(r, o)
               \/ \E o \in OrderIds, amount \in RefundAmounts : BeginRefund(r, o, amount)
               \/ \E t \in Txs : BeginFail(r, t)
               \/ \E t \in Txs, genuine \in BOOLEAN : BeginCapture(r, t, genuine)
        PROVE  BalanceInv'
    BY <1>2, <1>b DEF BeginInitiate, BeginRefund, BeginFail, BeginCapture
  <1>3. ASSUME NEW r \in Requests,
               \/ \E t \in Txs : CreateTransaction(r, t)
               \/ RejectCallback(r) \/ SetPaid(r) \/ MarkFailed(r)
               \/ GatewayRefuses(r) \/ LogAction(r) \/ Abort(r)
        PROVE  BalanceInv'
    BY <1>3, <1>d DEF CreateTransaction, RejectCallback, SetPaid, MarkFailed,
                      GatewayRefuses, LogAction, Abort
  <1>4. ASSUME NEW r \in Requests, NEW step, req[r] # NoJob, Goto(r, step),
               req[r].kind = "refund" =>
                 (step \in {"gateway", "complete"} => req[r].step \in {"gateway", "complete"}),
               refunded' = refunded, overlapped' = overlapped
        PROVE  BalanceInv'
    BY <1>4, BalanceFrame, GotoJob DEF RefundInFlight
  <1>5. ASSUME NEW r \in Requests,
               \/ MarkCaptured(r) \/ GatewayRefund(r) \/ SetTxRefunded(r)
               \/ SetOrderRefunded(r) \/ SetFails(r)
        PROVE  BalanceInv'
    BY <1>5, <1>4 DEF MarkCaptured, GatewayRefund, SetTxRefunded, SetOrderRefunded,
                      SetFails, At
  <1>6. ASSUME NEW r \in Requests, SumRefunds(r) PROVE BalanceInv'
    <2> DEFINE o == req[r].order
    <2>1. /\ At(r, "refund", "sum") /\ o \in OrderIds /\ req[r] \in Refunding
          /\ refunded' = refunded
      BY <1>6, JobFields DEF SumRefunds, At
    <2>2. CASE Done(r) /\ UNCHANGED overlapped
      BY <2>1, <2>2, <1>d
    <2>3. CASE /\ WithinBalance(refunded[o], req[r].amount)
               /\ req' = [req EXCEPT ![r] = [@ EXCEPT !.step = "gateway", !.already = refunded[o]]]
               /\ overlapped' = overlapped \cup
                    {p \in {o} : \E other \in Requests \ {r} : RefundInFlight(other, o)}
      <3>1. /\ req'[r].order = o /\ req'[r].amount = req[r].amount
            /\ \A q \in Requests \ {r} : req'[q] = req[q]
        BY <2>1, <2>3 DEF TypeOK, At, Refunding
      <3>2. ASSUME NEW p \in OrderIds \ overlapped'
            PROVE  /\ refunded'[p] <= Total + Epsilon
                   /\ \A q \in Requests : RefundInFlight(q, p)' =>
                         /\ refunded'[p] + req'[q].amount <= Total + Epsilon
                         /\ \A s \in Requests : RefundInFlight(s, p)' => s = q
        <4>1. p \in OrderIds \ overlapped
          BY <2>3, <3>2
        <4>2. \A q \in Requests \ {r} : RefundInFlight(q, p)' <=> RefundInFlight(q, p)
          BY <3>1 DEF RefundInFlight
        <4>3. CASE p = o
          <5>1. \A q \in Requests \ {r} : ~RefundInFlight(q, p)
            BY <2>3, <3>2, <4>3
          <5> QED
            BY <2>1, <2>3, <3>1, <4>1, <4>2, <4>3, <5>1 DEF BalanceInv, WithinBalance
        <4>4. CASE p # o
          <5>1. ~RefundInFlight(r, p)'
            BY <3>1, <4>4 DEF RefundInFlight
          <5> QED
            BY <2>1, <3>1, <4>1, <4>2, <5>1 DEF BalanceInv
        <4> QED
          BY <4>3, <4>4
      <3> QED
        BY <3>2 DEF BalanceInv
    <2> QED
      BY <1>6, <2>2, <2>3 DEF SumRefunds
  <1>7. ASSUME NEW r \in Requests, MarkRefundCompleted(r) PROVE BalanceInv'
    <2> DEFINE o == req[r].order
    <2>1. /\ At(r, "refund", "complete") /\ o \in OrderIds
          /\ RefundInFlight(r, o)
          /\ overlapped' = overlapped
      BY <1>7, JobFields DEF MarkRefundCompleted, At, RefundInFlight
    <2>2. /\ refunded' = [refunded EXCEPT ![o] = @ + req[r].amount]
          /\ req'[r].step = "setTx"
          /\ \A q \in Requests \ {r} : req'[q] = req[q]
      BY <1>7, <2>1, GotoJob DEF MarkRefundCompleted, At
    <2>3. ~ \E p \in OrderIds : RefundInFlight(r, p)'
      BY <2>2 DEF RefundInFlight
    <2>4. \A q \in Requests \ {r}, p \in OrderIds : RefundInFlight(q, p)' <=> RefundInFlight(q, p)
      BY <2>2 DEF RefundInFlight
    <2>5. ASSUME NEW p \in OrderIds \ overlapped'
          PROVE  /\ refunded'[p] <= Total + Epsilon
                 /\ \A q \in Requests : RefundInFlight(q, p)' =>
                       /\ refunded'[p] + req'[q].amount <= Total + Epsilon
                       /\ \A s \in Requests : RefundInFlight(s, p)' => s = q
      <3>1. CASE p = o
        <4>1. refunded'[p] = refunded[o] + req[r].amount
          BY <2>1, <2>2, <3>1 DEF TypeOK
        <4>2. \A q \in Requests : ~RefundInFlight(q, p)'
          BY <2>1, <2>3, <2>4, <2>5, <3>1 DEF BalanceInv
        <4> QED
          BY <2>1, <2>5, <3>1, <4>1, <4>2 DEF BalanceInv
      <3>2. CASE p # o
        <4>1. refunded'[p] = refunded[p]
          BY <2>1, <2>2, <3>2 DEF TypeOK
        <4> QED
          BY <2>1, <2>2, <2>3, <2>4, <2>5, <4>1 DEF BalanceInv
      <3> QED
        BY <3>1, <3>2
    <2> QED
      BY <2>5 DEF BalanceInv
  <1> QED
    BY <1>1, <1>2, <1>3, <1>5, <1>6, <1>7 DEF Next, CancelOrder, Pay, vars

\* The three inductive invariants hold in every reachable state.
LEMMA SpecMoneyInv == Spec => [](PaymentsInv /\ FundsInv /\ BalanceInv)
  <1>1. Init => FundsInv /\ BalanceInv
    BY InitFundsInv, AmountsAssumption DEF Init, BalanceInv, RefundInFlight
  <1>2. PaymentsInv /\ FundsInv /\ BalanceInv /\ [Next]_vars => FundsInv' /\ BalanceInv'
    BY NextFundsInv, NextBalanceInv DEF PaymentsInv
  <1> QED
    BY <1>1, <1>2, SpecPaymentsInv, PTL DEF Spec

\* Completed refunds have been paid back and audited ones have been completed
\* (RefundsAreReal), wherever requests end.
THEOREM RefundsAreRealCorrect == Spec => []RefundsAreReal
  <1>1. PaymentsInv /\ FundsInv => RefundsAreReal
    <2> SUFFICES ASSUME TypeOK, FundsInv, NEW o \in OrderIds
                 PROVE  audited[o] <= refunded[o] /\ refunded[o] <= paidBack[o]
      BY DEF PaymentsInv, RefundsAreReal
    <2>1. Unaudited(o) \in Nat /\ Unbooked(o) \in Nat
      BY FS_CardinalityType DEF FundsInv, Unaudited, Unbooked
    <2>2. audited[o] \in Nat /\ refunded[o] \in Nat /\ paidBack[o] \in Nat
      BY DEF TypeOK
    <2>3. audited[o] + Unaudited(o) <= refunded[o] /\ refunded[o] + Unbooked(o) <= paidBack[o]
      BY DEF FundsInv
    <2> QED
      BY <2>1, <2>2, <2>3
  <1> QED
    BY <1>1, SpecMoneyInv, PTL

\* On an order without overlap the refund in flight, if any, still fits into
\* what the gateway has paid back.
LEMMA PaidBackWithin ==
  ASSUME TypeOK, FundsInv, BalanceInv, NEW o \in OrderIds \ overlapped, o \notin unbooked
  PROVE  /\ paidBack[o] <= Total + Epsilon
         /\ \A r \in Requests : RefundInFlight(r, o) /\ req[r].step = "gateway" =>
               paidBack[o] + req[r].amount <= Total + Epsilon
  <1>t. /\ refunded[o] \in Nat /\ paidBack[o] \in Nat
        /\ req \in [Requests -> Job \cup {NoJob}]
    BY DEF TypeOK
  <1>f. refunded[o] + Unbooked(o) = paidBack[o]
    BY DEF FundsInv
  <1>b. refunded[o] <= Total + Epsilon
    BY DEF BalanceInv
  <1>1. ASSUME NEW r \in Requests, RefundInFlight(r, o)
        PROVE  /\ refunded[o] + req[r].amount <= Total + Epsilon
               /\ Unbooked(o) = Weight(req[r], o, PaidSteps)
    <2>1. /\ refunded[o] + req[r].amount <= Total + Epsilon
          /\ \A q \in Requests \ {r} : ~RefundInFlight(q, o)
      BY <1>1 DEF BalanceInv
    <2>2. \A q \in Requests \ {r} : ~Takes(req[q], o, PaidSteps)
      BY <2>1 DEF Takes, PaidSteps, RefundInFlight
    <2> QED
      BY <1>t, <2>1, <2>2, UnitsOfOne DEF Unbooked
  <1>2. ASSUME NEW r \in Requests, RefundInFlight(r, o)
        PROVE  /\ paidBack[o] <= Total + Epsilon
               /\ req[r].step = "gateway" => paidBack[o] + req[r].amount <= Total + Epsilon
    <2>1. req[r].amount \in Nat /\ req[r].step \in {"gateway", "complete"}
      BY <1>2, JobFields DEF RefundInFlight
    <2>2. CASE req[r].step = "gateway"
      <3>1. Weight(req[r], o, PaidSteps) = 0
        BY <2>2 DEF Weight, Takes, PaidSteps
      <3> QED
        BY <1>t, <1>f, <1>1, <1>2, <2>1, <3>1, AmountsAssumption
    <2>3. CASE req[r].step = "complete"
      <3>1. Weight(req[r], o, PaidSteps) = req[r].amount
        BY <1>2, <2>3 DEF Weight, Takes, PaidSteps, RefundInFlight
      <3> QED
        BY <1>t, <1>f, <1>1, <1>2, <2>1, <2>3, <3>1, AmountsAssumption
    <2> QED
      BY <2>1, <2>2, <2>3
  <1>3. CASE \A r \in Requests : ~RefundInFlight(r, o)
    <2>1. \A r \in Requests : Weight(req[r], o, PaidSteps) = 0
      BY <1>3 DEF Weight, Takes, PaidSteps, RefundInFlight
    <2>2. Units(req, o, PaidSteps) = {}
      BY <2>1 DEF Units
    <2>3. Unbooked(o) = 0
      BY <2>2, FS_EmptySet DEF Unbooked
    <2> QED
      BY <1>t, <1>f, <1>b, <1>3, <2>3
  <1> QED
    BY <1>2, <1>3

\* Refunds stay within the captured amount for every order that never had two
\* refunds between their balance check and their completion at once, and what
\* the gateway pays back does too unless a paid refund was never booked
\* (BalanceKeptWithoutOverlap).
THEOREM BalanceCorrect == Spec => []BalanceKeptWithoutOverlap
  <1>1. PaymentsInv /\ FundsInv /\ BalanceInv => BalanceKeptWithoutOverlap
    BY PaidBackWithin DEF PaymentsInv, BalanceInv, BalanceKeptWithoutOverlap
  <1> QED
    BY <1>1, SpecMoneyInv, PTL

-----------------------------------------------------------------------------
\* Every step keeps captures accounted for.
LEMMA NextCaptureReaches ==
  PaymentsInv /\ CaptureReachesOrder /\ [Next]_vars => CaptureReachesOrder'
  <1> SUFFICES ASSUME PaymentsInv, CaptureReachesOrder, [Next]_vars,
                      NEW t \in Txs, txStatus'[t] = "captured"
               PROVE  \/ payStatus'[txOrder'[t]] # "pending"
                      \/ txOrder'[t] \in adrift'
                      \/ \E r \in Requests : At(r, "capture", "setPaid")'
                                            /\ req'[r].order = txOrder'[t]
    BY DEF CaptureReachesOrder, At
  <1> DEFINE o == txOrder[t]
             Reached == \/ payStatus'[o] # "pending"
                        \/ o \in adrift'
                        \/ \E r \in Requests : At(r, "capture", "setPaid")'
                                              /\ req'[r].order = o
  <1> USE DEF orderVars, txVars, gatewayVars, moneyVars, ghostVars
  <1>t. TypeOK /\ TypeOK'
    BY NextTypeOK DEF PaymentsInv
  <1>a. adrift \subseteq adrift'
    BY DEF Next, vars, CancelOrder, Pay, BeginInitiate, BeginRefund, CreateTransaction,
           BeginFail, BeginCapture, MarkCaptured, RejectCallback, SetPaid, MarkFailed,
           SumRefunds, GatewayRefund, GatewayRefuses, MarkRefundCompleted, SetTxRefunded,
           SetOrderRefunded, LogAction, SetFails, Abort
  <1>p. ASSUME NEW q \in OrderIds, payStatus[q] # "pending" PROVE payStatus'[q] # "pending"
    BY <1>p, <1>t, Writers DEF SetPaid, SetOrderRefunded, TypeOK
  <1>m. ASSUME NEW r \in Requests, MarkCaptured(r), req[r].tx = t PROVE o \in OrderIds /\ Reached
    <2>1. /\ req[r] # NoJob /\ req[r].kind = "capture"
          /\ req[r].order \in OrderIds /\ o = req[r].order
      BY <1>m, <1>t, JobFields DEF MarkCaptured, At, PaymentsInv, JobInv
    <2>2. /\ req'[r].kind = "capture" /\ req'[r].step = "setPaid"
          /\ req'[r].order = o /\ req'[r] # NoJob
      <3>1. req'[r].kind = "capture" /\ req'[r].step = "setPaid" /\ req'[r].order = o
        BY <1>m, <1>t, <2>1, GotoJob DEF MarkCaptured
      <3>2. req'[r] \in Job
        <4>1. req[r] \in Capturing
          BY <2>1, <1>t, JobFields
        <4> QED
          BY <1>m, <1>t, <2>1, <4>1, GotoJob DEF MarkCaptured, Job, Capturing
      <3> QED
        BY <3>1, <3>2, SlotsAssumption
    <2> QED
      BY <2>1, <2>2 DEF At
  <1>1. CASE \E r \in Requests : MarkCaptured(r) /\ req[r].tx = t
    BY <1>1, <1>m, <1>t, Grows, SlotsAssumption
  <1>2. CASE ~ \E r \in Requests : MarkCaptured(r) /\ req[r].tx = t
    <2>1. txStatus[t] = "captured"
      <3>1. ASSUME NEW r \in Requests, RejectCallback(r) \/ MarkFailed(r) \/ SetTxRefunded(r)
            PROVE  txStatus'[t] = txStatus[t]
        BY <3>1, <1>t
        DEF RejectCallback, MarkFailed, SetTxRefunded, SetTx, TypeOK
      <3>2. ASSUME NEW r \in Requests, MarkCaptured(r)
            PROVE  txStatus'[t] = txStatus[t]
        BY <3>2, <1>2, <1>t DEF MarkCaptured, SetTx, TypeOK
      <3> QED
        BY <3>1, <3>2, Writers
    <2>2. o \in OrderIds /\ txOrder'[t] = o
      BY <2>1, <1>t, Grows DEF PaymentsInv, RowsInv, TypeOK
    <2>3. CASE payStatus[o] # "pending"
      BY <2>2, <2>3, <1>p
    <2>4. CASE o \in adrift
      BY <2>2, <2>4, <1>a
    <2>5. ASSUME NEW r \in Requests, At(r, "capture", "setPaid"), req[r].order = o
          PROVE  Reached
      <3>1. CASE req'[r] = req[r]
        BY <2>5, <3>1 DEF At
      <3>2. CASE SetPaid(r)
        BY <2>2, <2>5, <3>2, <1>t DEF SetPaid, TypeOK
      <3>3. CASE Abort(r)
        BY <2>5, <3>3 DEF Abort
      <3>4. ASSUME ~SetPaid(r), ~Abort(r) PROVE req'[r] = req[r]
        <4>1. ASSUME NEW q \in Requests, q # r,
                     (\E j : req' = [req EXCEPT ![q] = j]) \/ Done(q) \/ \E step : Goto(q, step)
              PROVE  req'[r] = req[r]
          BY <4>1, <1>t DEF Done, Goto, TypeOK
        <4>2. ASSUME NEW q \in Requests,
                     \/ \E p \in OrderIds : BeginInitiate(q, p)
                     \/ \E p \in OrderIds, amount \in RefundAmounts : BeginRefund(q, p, amount)
                     \/ \E u \in Txs : BeginFail(q, u)
                     \/ \E u \in Txs, genuine \in BOOLEAN : BeginCapture(q, u, genuine)
              PROVE  req'[r] = req[r]
          <5>1. q # r
            BY <4>2, <2>5 DEF BeginInitiate, BeginRefund, BeginFail, BeginCapture, Free, At
          <5> QED
            BY <4>1, <4>2, <5>1 DEF BeginInitiate, BeginRefund, BeginFail, BeginCapture
        <4>3. ASSUME NEW q \in Requests,
                     \/ \E u \in Txs : CreateTransaction(q, u)
                     \/ RejectCallback(q) \/ MarkFailed(q) \/ MarkCaptured(q)
                     \/ GatewayRefuses(q) \/ LogAction(q) \/ SumRefunds(q)
                     \/ GatewayRefund(q) \/ MarkRefundCompleted(q) \/ SetTxRefunded(q)
                     \/ SetOrderRefunded(q) \/ SetFails(q)
              PROVE  req'[r] = req[r]
          <5>1. q # r
            BY <4>3, <2>5 DEF CreateTransaction, RejectCallback, MarkFailed, MarkCaptured,
               GatewayRefuses, LogAction, SumRefunds, GatewayRefund, MarkRefundCompleted,
               SetTxRefunded, SetOrderRefunded, SetFails, At
          <5> QED
            BY <4>1, <4>3, <5>1 DEF CreateTransaction, RejectCallback, MarkFailed, MarkCaptured,
               GatewayRefuses, LogAction, SumRefunds, GatewayRefund, MarkRefundCompleted,
               SetTxRefunded, SetOrderRefunded, SetFails
        <4>4. ASSUME NEW q \in Requests, SetPaid(q) \/ Abort(q) PROVE req'[r] = req[r]
          BY <4>1, <4>4, <3>4 DEF SetPaid, Abort
        <4> QED
          BY <4>2, <4>3, <4>4 DEF Next, CancelOrder, Pay, vars
      <3> QED
        BY <3>1, <3>2, <3>3, <3>4
    <2> QED
      BY <2>1, <2>2, <2>3, <2>4, <2>5 DEF CaptureReachesOrder
  <1> QED
    BY <1>1, <1>2

\* A captured transaction is on an order that is not pending, unless the
\* update of the order is still to come or was lost to a failure
\* (CaptureReachesOrder).
THEOREM CaptureReachesCorrect == Spec => []CaptureReachesOrder
  <1>1. Init => CaptureReachesOrder
    BY DEF Init, CaptureReachesOrder
  <1> QED
    BY <1>1, NextCaptureReaches, SpecPaymentsInv, PTL DEF Spec

-----------------------------------------------------------------------------
\* A request that may move a transaction after a step could do so before it,
\* or has just found the transaction in a status other than failed.
LEMMA MovingGrows ==
  ASSUME PaymentsInv, [Next]_vars, NEW t \in Txs, NEW q \in Moving(t)'
  PROVE  q \in Moving(t) \/ txStatus[t] # "failed"
  <1> DEFINE Old == q \in Moving(t) \/ txStatus[t] # "failed"
  <1>t. TypeOK /\ TypeOK'
    BY NextTypeOK DEF PaymentsInv
  <1>q. /\ q \in Requests /\ req'[q] # NoJob /\ req'[q].kind # "initiate" /\ req'[q].tx = t
        /\ \/ req'[q].kind = "capture" /\ req'[q].step = "mark"
           \/ req'[q].kind = "refund"
                /\ req'[q].step \in {"sum", "gateway", "complete", "setTx"}
    BY DEF Moving, At
  <1>s. CASE req'[q] = req[q]
    BY <1>q, <1>s DEF Moving, At
  <1>d. ASSUME NEW r \in Requests, Done(r) PROVE req'[q] = req[q]
    BY <1>d, <1>q, <1>t DEF Done, TypeOK
  <1>b. ASSUME NEW r \in Requests, NEW j, req' = [req EXCEPT ![r] = j],
               (j.kind \in {"capture", "refund"} => txStatus[j.tx] # "failed")
        PROVE  Old
    <2>1. CASE q = r
      BY <1>b, <1>q, <1>t, <2>1 DEF TypeOK
    <2>2. CASE q # r
      BY <1>b, <1>s, <1>t, <2>2 DEF TypeOK
    <2> QED
      BY <2>1, <2>2
  <1>1. ASSUME NEW r \in Requests,
               \/ \E o \in OrderIds : BeginInitiate(r, o)
               \/ \E o \in OrderIds, amount \in RefundAmounts : BeginRefund(r, o, amount)
               \/ \E u \in Txs : BeginFail(r, u)
               \/ \E u \in Txs, genuine \in BOOLEAN : BeginCapture(r, u, genuine)
        PROVE  Old
    BY <1>1, <1>b DEF BeginInitiate, BeginRefund, BeginFail, BeginCapture
  <1>2. ASSUME NEW r \in Requests,
               \/ \E u \in Txs : CreateTransaction(r, u)
               \/ RejectCallback(r) \/ SetPaid(r) \/ MarkFailed(r)
               \/ GatewayRefuses(r) \/ LogAction(r) \/ Abort(r)
        PROVE  Old
    BY <1>2, <1>d, <1>s DEF CreateTransaction, RejectCallback, SetPaid, MarkFailed,
                            GatewayRefuses, LogAction, Abort
  <1>g. ASSUME NEW r \in Requests, NEW step, req[r] # NoJob, Goto(r, step),
               \/ req[r].kind = "capture" /\ step # "mark"
               \/ /\ req[r].kind = "refund"
                  /\ \/ req[r].step \in {"sum", "gateway", "complete", "setTx"}
                     \/ step \notin {"sum", "gateway", "complete", "setTx"}
        PROVE  Old
    <2>1. CASE q = r
      <3>1. /\ req'[r].kind = req[r].kind /\ req'[r].step = step
            /\ req[r].kind # "initiate" => req'[r].tx = req[r].tx
        BY <1>g, <1>t, GotoJob
      <3>2. /\ req[r].kind = "refund" /\ req[r].tx = t
            /\ req[r].step \in {"sum", "gateway", "complete", "setTx"}
        BY <1>g, <1>q, <2>1, <3>1
      <3> QED
        BY <1>g, <2>1, <3>2 DEF Moving
    <2>2. CASE q # r
      BY <1>g, <1>q, <1>s, <1>t, <2>2, GotoJob
    <2> QED
      BY <2>1, <2>2
  <1>3. ASSUME NEW r \in Requests,
               \/ MarkCaptured(r) \/ GatewayRefund(r) \/ MarkRefundCompleted(r)
               \/ SetTxRefunded(r) \/ SetOrderRefunded(r) \/ SetFails(r)
        PROVE  Old
    BY <1>3, <1>g DEF MarkCaptured, GatewayRefund, MarkRefundCompleted, SetTxRefunded,
                      SetOrderRefunded, SetFails, At
  <1>4. ASSUME NEW r \in Requests, SumRefunds(r) PROVE Old
    <2>1. /\ req[r] # NoJob /\ req[r].kind = "refund" /\ req[r].step = "sum"
          /\ req[r] \in Refunding
      BY <1>4, <1>t, JobFields DEF SumRefunds, At
    <2>2. CASE Done(r)
      BY <2>2, <1>d, <1>s
    <2>3. CASE req' = [req EXCEPT ![r] = [@ EXCEPT !.step = "gateway",
                                                   !.already = refunded[req[r].order]]]
      <3>1. CASE q = r
        <4>1. req'[r].tx = req[r].tx
          BY <2>1, <2>3, <1>t DEF TypeOK, Refunding
        <4> QED
          BY <1>q, <2>1, <3>1, <4>1 DEF Moving
      <3>2. CASE q # r
        BY <2>3, <3>2, <1>s, <1>t DEF TypeOK
      <3> QED
        BY <3>1, <3>2
    <2> QED
      BY <1>4, <2>2, <2>3 DEF SumRefunds
  <1>5. CASE UNCHANGED req
    BY <1>5, <1>s
  <1> QED
    BY <1>1, <1>2, <1>3, <1>4, <1>5 DEF Next, CancelOrder, Pay, vars

\* A failed transaction on which nothing is under way stays failed and is
\* never captured or refunded (FailedStaysFailed), whatever callbacks and
\* refund requests still come.
THEOREM FailedCorrect == Spec => FailedStaysFailed
  <1> DEFINE Over(t) == txStatus[t] = "failed" /\ Moving(t) = {}
  <1>1. PaymentsInv /\ [Next]_vars =>
          \A t \in Txs : Over(t) => txStatus'[t] = "failed" /\ Moving(t)' = {}
    <2> SUFFICES ASSUME PaymentsInv, [Next]_vars, NEW t \in Txs, Over(t)
                 PROVE  txStatus'[t] = "failed" /\ Moving(t)' = {}
      OBVIOUS
    <2>t. TypeOK
      BY DEF PaymentsInv
    <2>1. Moving(t)' = {}
      BY MovingGrows
    <2>2. ASSUME NEW r \in Requests, MarkCaptured(r) \/ SetTxRefunded(r)
          PROVE  txStatus'[t] = txStatus[t]
      <3>1. req[r].tx # t
        BY <2>2 DEF MarkCaptured, SetTxRefunded, At, Moving
      <3> QED
        BY <2>2, <2>t, <3>1 DEF MarkCaptured, SetTxRefunded, SetTx, TypeOK
    <2>3. ASSUME NEW r \in Requests, RejectCallback(r) \/ MarkFailed(r)
          PROVE  txStatus'[t] = "failed"
      BY <2>3, <2>t DEF RejectCallback, MarkFailed, SetTx, TypeOK
    <2> QED
      BY <2>1, <2>2, <2>3, Writers
  <1> QED
    BY <1>1, SpecPaymentsInv, PTL DEF Spec, FailedStaysFailed

-----------------------------------------------------------------------------
\* The customer's charges for an order change by Pay alone: a transaction is
\* not charged when it gets its order.
LEMMA ChargesFrame ==
  ASSUME PaymentsInv, [Next]_vars, charged' = charged, NEW o \in OrderIds
  PROVE  ChargesFor(o)' = ChargesFor(o)
  <1>1. \A t \in charged : txOrder'[t] = txOrder[t]
    BY Grows DEF PaymentsInv, RowsInv, TypeOK
  <1> QED
    BY <1>1 DEF ChargesFor

\* The books' variables that Payments does not have, as Book substitutes them.
bookTaken == {o \in OrderIds : ChargesFor(o) # {}}
bookLoose == overlapped \cup unbooked

\* Every step of Payments is a step of the books, or changes none of them.
LEMMA BookStep ==
  PaymentsInv /\ FundsInv /\ BalanceInv /\ [Next]_vars => [Book!Next]_(Book!bookVars)
  <1> SUFFICES ASSUME PaymentsInv, FundsInv, BalanceInv, [Next]_vars
               PROVE  Book!Next \/ UNCHANGED <<bookTaken, payStatus, paidBack, refunded,
                                              audited, bookLoose>>
    BY DEF Book!bookVars, bookTaken, bookLoose
  <1> USE DEF orderVars, txVars, gatewayVars, moneyVars, ghostVars
  <1>t. TypeOK
    BY DEF PaymentsInv
  <1>c. ASSUME charged' = charged PROVE bookTaken' = bookTaken
    BY <1>c, ChargesFrame DEF bookTaken
  <1>j. ASSUME NEW r \in Requests, req[r] # NoJob, req[r].kind \in {"capture", "refund"},
               req[r].kind = "capture" => req[r].genuine
        PROVE  req[r].order \in bookTaken
    <2>1. /\ req[r].order \in OrderIds /\ req[r].tx \in charged
          /\ txOrder[req[r].tx] = req[r].order
      BY <1>j, <1>t, JobFields DEF PaymentsInv, JobInv
    <2> QED
      BY <2>1 DEF bookTaken, ChargesFor
  <1>a. ASSUME NEW o \in OrderIds, NEW amount \in RefundAmounts,
               Book!PayBack(o, amount) \/ Book!Complete(o, amount) \/ Book!Audit(o, amount)
        PROVE  Book!Next
    BY <1>a DEF Book!Next
  <1>o. ASSUME NEW o \in OrderIds,
               Book!Charge(o) \/ Book!Settle(o) \/ Book!Close(o) \/ Book!Loosen(o)
        PROVE  Book!Next
    BY <1>o DEF Book!Next
  <1>1. ASSUME NEW t \in Txs, Pay(t) PROVE Book!Next
    <2>1. txOrder[t] \in OrderIds /\ txOrder' = txOrder
      BY <1>1, <1>t DEF Pay, TypeOK
    <2>2. bookTaken' = bookTaken \cup {txOrder[t]}
      BY <1>1, <2>1 DEF Pay, bookTaken, ChargesFor
    <2>3. Book!Charge(txOrder[t])
      BY <1>1, <2>2 DEF Pay, Book!Charge, bookTaken
    <2> QED
      BY <2>1, <2>3, <1>o
  <1>2. ASSUME NEW r \in Requests, SetPaid(r) PROVE Book!Next
    <2>1. req[r].order \in bookTaken
      BY <1>2, <1>j DEF SetPaid, At, PaymentsInv, JobInv
    <2>2. Book!Settle(req[r].order)
      BY <1>2, <1>c, <2>1 DEF SetPaid, Book!Settle, bookTaken
    <2> QED
      BY <2>1, <2>2, <1>o DEF bookTaken
  <1>3. ASSUME NEW r \in Requests, SetOrderRefunded(r) PROVE Book!Next
    <2>1. /\ req[r] # NoJob /\ req[r].kind = "refund" /\ req[r].step = "setOrder"
          /\ req[r].order \in bookTaken /\ bookTaken' = bookTaken
      BY <1>3, <1>c, <1>j DEF SetOrderRefunded, At
    <2>2. CASE InFull(req[r])
      <3>1. Book!Close(req[r].order)
        BY <1>3, <2>1, <2>2, InFullIsCovered
        DEF SetOrderRefunded, Book!Close, bookTaken
      <3> QED
        BY <2>1, <3>1, <1>o DEF bookTaken
    <2>3. CASE ~InFull(req[r])
      <3>1. Book!Settle(req[r].order)
        BY <1>3, <2>1, <2>3 DEF SetOrderRefunded, Book!Settle, bookTaken
      <3> QED
        BY <2>1, <3>1, <1>o DEF bookTaken
    <2> QED
      BY <2>2, <2>3
  <1>r. ASSUME NEW r \in Requests, NEW step, At(r, "refund", step)
        PROVE  /\ req[r].order \in OrderIds /\ req[r].amount \in RefundAmounts
               /\ req[r].amount \in Nat
               /\ refunded[req[r].order] \in Nat /\ paidBack[req[r].order] \in Nat
               /\ audited[req[r].order] \in Nat
               /\ IsFiniteSet(Units(req, req[r].order, PaidSteps))
               /\ IsFiniteSet(Units(req, req[r].order, BookedSteps))
               /\ Unbooked(req[r].order) \in Nat /\ Unaudited(req[r].order) \in Nat
    <2>1. req[r] \in Refunding
      BY <1>r, <1>t, JobFields DEF At
    <2>2. req[r].order \in OrderIds /\ req[r].amount \in RefundAmounts
      BY <2>1 DEF Refunding
    <2> QED
      BY <1>t, <2>2, FS_CardinalityType, AmountsAssumption
      DEF TypeOK, FundsInv, Unbooked, Unaudited
  <1>4. ASSUME NEW r \in Requests, GatewayRefund(r) PROVE Book!Next
    <2> DEFINE o == req[r].order
    <2>1. /\ At(r, "refund", "gateway") /\ o \in OrderIds /\ o \in bookTaken
          /\ bookTaken' = bookTaken /\ bookLoose' = bookLoose
      BY <1>4, <1>c, <1>j, <1>r DEF GatewayRefund, At, bookLoose
    <2>2. o \notin bookLoose => paidBack[o] + req[r].amount <= Total + Epsilon
      BY <1>t, <2>1, PaidBackWithin DEF bookLoose, RefundInFlight, At
    <2>3. Book!PayBack(o, req[r].amount)
      BY <1>4, <2>1, <2>2 DEF GatewayRefund, Book!PayBack, bookTaken, bookLoose
    <2> QED
      BY <1>r, <1>a, <2>1, <2>3
  <1>5. ASSUME NEW r \in Requests, MarkRefundCompleted(r) PROVE Book!Next
    <2> DEFINE o == req[r].order
    <2>1. /\ At(r, "refund", "complete") /\ o \in OrderIds
          /\ bookTaken' = bookTaken /\ bookLoose' = bookLoose
      BY <1>5, <1>c, <1>r DEF MarkRefundCompleted, bookLoose
    <2>2. Weight(req[r], o, PaidSteps) = req[r].amount
      BY <2>1 DEF Weight, Takes, PaidSteps, At
    <2>3. req[r].amount <= Unbooked(o)
      BY <1>t, <1>r, <2>1, <2>2, UnitsHold DEF Unbooked, TypeOK
    <2>4. refunded[o] + req[r].amount <= paidBack[o]
      BY <1>r, <2>1, <2>3 DEF FundsInv
    <2>5. Book!Complete(o, req[r].amount)
      BY <1>5, <2>1, <2>4 DEF MarkRefundCompleted, Book!Complete, bookTaken, bookLoose
    <2> QED
      BY <1>r, <1>a, <2>1, <2>5
  <1>6. ASSUME NEW r \in Requests, LogAction(r) PROVE Book!Next
    <2> DEFINE o == req[r].order
    <2>1. /\ At(r, "refund", "audit") /\ o \in OrderIds
          /\ bookTaken' = bookTaken /\ bookLoose' = bookLoose
      BY <1>6, <1>c, <1>r DEF LogAction, bookLoose
    <2>2. Weight(req[r], o, BookedSteps) = req[r].amount
      BY <2>1 DEF Weight, Takes, BookedSteps, At
    <2>3. req[r].amount <= Unaudited(o)
      BY <1>t, <1>r, <2>1, <2>2, UnitsHold DEF Unaudited, TypeOK
    <2>4. audited[o] + req[r].amount <= refunded[o]
      BY <1>r, <2>1, <2>3 DEF FundsInv
    <2>5. Book!Audit(o, req[r].amount)
      BY <1>6, <2>1, <2>4 DEF LogAction, Book!Audit, bookTaken, bookLoose
    <2> QED
      BY <1>r, <1>a, <2>1, <2>5
  \* A step that does nothing to the books but, perhaps, loosen one order's.
  <1>l. ASSUME NEW o \in OrderIds, charged' = charged,
               UNCHANGED <<payStatus, paidBack, refunded, audited>>,
               bookLoose' \in {bookLoose, bookLoose \cup {o}}
        PROVE  Book!Next \/ UNCHANGED <<bookTaken, payStatus, paidBack, refunded,
                                       audited, bookLoose>>
    <2>1. CASE bookLoose' = bookLoose
      BY <1>l, <1>c, <2>1
    <2>2. CASE bookLoose' = bookLoose \cup {o}
      <3>1. Book!Loosen(o)
        BY <1>l, <1>c, <2>2 DEF Book!Loosen, bookTaken, bookLoose
      <3> QED
        BY <3>1, <1>o
    <2> QED
      BY <1>l, <2>1, <2>2
  <1>7. ASSUME NEW r \in Requests, SumRefunds(r)
        PROVE  Book!Next \/ UNCHANGED <<bookTaken, payStatus, paidBack, refunded,
                                       audited, bookLoose>>
    <2>1. /\ At(r, "refund", "sum") /\ charged' = charged
          /\ UNCHANGED <<payStatus, paidBack, refunded, audited, unbooked>>
          /\ \E S \in SUBSET {req[r].order} : overlapped' = overlapped \cup S
      <3>1. \/ overlapped' = overlapped \cup {}
            \/ overlapped' = overlapped \cup
                 {p \in {req[r].order} : \E other \in Requests \ {r} : RefundInFlight(other, req[r].order)}
        BY <1>7 DEF SumRefunds
      <3> QED
        BY <1>7, <3>1 DEF SumRefunds
    <2>2. bookLoose' \in {bookLoose, bookLoose \cup {req[r].order}}
      BY <2>1 DEF bookLoose
    <2> QED
      BY <1>l, <1>r, <2>1, <2>2
  <1>8. ASSUME NEW r \in Requests, Abort(r)
        PROVE  Book!Next \/ UNCHANGED <<bookTaken, payStatus, paidBack, refunded,
                                       audited, bookLoose>>
    <2>1. /\ req[r].order \in OrderIds /\ charged' = charged
          /\ UNCHANGED <<payStatus, paidBack, refunded, audited, overlapped>>
          /\ unbooked' = unbooked \cup {o \in {req[r].order} : At(r, "refund", "complete")}
      BY <1>8, <1>t, JobFields DEF Abort, Free
    <2>2. bookLoose' \in {bookLoose, bookLoose \cup {req[r].order}}
      BY <2>1 DEF bookLoose
    <2> QED
      BY <1>l, <2>1, <2>2
  <1>9. CASE UNCHANGED <<payStatus, charged, paidBack, refunded, audited, overlapped, unbooked>>
    BY <1>9, <1>c DEF bookLoose
  <1>10. ASSUME NEW r \in Requests,
                \/ \E o \in OrderIds : BeginInitiate(r, o)
                \/ \E o \in OrderIds, amount \in RefundAmounts : BeginRefund(r, o, amount)
                \/ \E t \in Txs : BeginFail(r, t)
                \/ \E t \in Txs, genuine \in BOOLEAN : BeginCapture(r, t, genuine)
                \/ \E t \in Txs : CreateTransaction(r, t)
                \/ MarkCaptured(r) \/ RejectCallback(r) \/ MarkFailed(r)
                \/ GatewayRefuses(r) \/ SetTxRefunded(r) \/ SetFails(r)
         PROVE  UNCHANGED <<payStatus, charged, paidBack, refunded, audited, overlapped, unbooked>>
    BY <1>10 DEF BeginInitiate, BeginRefund, BeginFail, BeginCapture, CreateTransaction,
                 MarkCaptured, RejectCallback, MarkFailed, GatewayRefuses, SetTxRefunded,
                 SetFails
  <1> QED
    BY <1>1, <1>2, <1>3, <1>4, <1>5, <1>6, <1>7, <1>8, <1>9, <1>10
    DEF Next, CancelOrder, vars

\* Payments implements the books (ImplementsBook): every write of a callback
\* or a refund is justified by the books at the moment it is made, although
\* the request decided on what it had read before.
THEOREM PaymentsImplementBook == Spec => ImplementsBook
  <1>1. Init => Book!Init
    BY DEF Init, Book!Init, ChargesFor
  <1> QED
    BY <1>1, BookStep, SpecMoneyInv, PTL DEF Spec, ImplementsBook, Book!Spec
=============================================================================
