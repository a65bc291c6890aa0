----------------------------- MODULE PaymentBook -----------------------------
(***************************************************************************)
(* What Payments promises about money, without requests: the books of the  *)
(* platform and of the gateway, each change of which is one step that is   *)
(* justified by the books as they are at that moment.                      *)
(*                                                                         *)
(* payment_service.go decides on what it has read some statements before   *)
(* it writes.  That its writes are nevertheless justified when they are    *)
(* made is what Payments!ImplementsBook says.                              *)
(***************************************************************************)
EXTENDS Naturals

CONSTANTS
    OrderIds,
    Total,               \* the amount of an order
    Epsilon,             \* the rounding that is allowed for
    RefundAmounts

VARIABLES
    taken,               \* the orders the customer was charged for
    payStatus,           \* payStatus[o]: "pending", "paid" or "refunded"
    paidBack,            \* paidBack[o]: what the gateway has paid back
    refunded,            \* refunded[o]: what is booked as refunded
    audited,             \* audited[o]: what the audit log has of it
    loose                \* the orders whose balance is not guarded any more

bookVars == <<taken, payStatus, paidBack, refunded, audited, loose>>

Init ==
    /\ taken = {}
    /\ payStatus = [o \in OrderIds |-> "pending"]
    /\ paidBack = [o \in OrderIds |-> 0]
    /\ refunded = [o \in OrderIds |-> 0]
    /\ audited = [o \in OrderIds |-> 0]
    /\ loose = {}

Charge(o) ==
    /\ taken' = taken \cup {o}
    /\ UNCHANGED <<payStatus, paidBack, refunded, audited, loose>>

\* Only a charged order is paid, for the first time or again.
Settle(o) ==
    /\ o \in taken
    /\ payStatus' = [payStatus EXCEPT ![o] = "paid"]
    /\ UNCHANGED <<taken, paidBack, refunded, audited, loose>>

\* Only booked refunds make an order refunded.
Close(o) ==
    /\ o \in taken
    /\ refunded[o] + Epsilon >= Total
    /\ payStatus' = [payStatus EXCEPT ![o] = "refunded"]
    /\ UNCHANGED <<taken, paidBack, refunded, audited, loose>>

\* Only a charged order's money is paid back, and no more than was captured.
PayBack(o, amount) ==
    /\ o \in taken
    /\ o \in loose \/ paidBack[o] + amount <= Total + Epsilon
    /\ paidBack' = [paidBack EXCEPT ![o] = @ + amount]
    /\ UNCHANGED <<taken, payStatus, refunded, audited, loose>>

\* Only what was paid back is booked, ...
Complete(o, amount) ==
    /\ refunded[o] + amount <= paidBack[o]
    /\ refunded' = [refunded EXCEPT ![o] = @ + amount]
    /\ UNCHANGED <<taken, payStatus, paidBack, audited, loose>>

\* ... and only what was booked is audited.
Audit(o, amount) ==
    /\ audited[o] + amount <= refunded[o]
    /\ audited' = [audited EXCEPT ![o] = @ + amount]
    /\ UNCHANGED <<taken, payStatus, paidBack, refunded, loose>>

\* Two refunds overlap, or one is paid and never booked.
Loosen(o) ==
    /\ loose' = loose \cup {o}
    /\ UNCHANGED <<taken, payStatus, paidBack, refunded, audited>>

Next ==
    \E o \in OrderIds :
       \/ Charge(o) \/ Settle(o) \/ Close(o) \/ Loosen(o)
       \/ \E amount \in RefundAmounts :
             PayBack(o, amount) \/ Complete(o, amount) \/ Audit(o, amount)

Spec == Init /\ [][Next]_bookVars
=============================================================================
