SPECIFICATION Spec
CONSTANTS
    OrderIds = {o1}
    Txs = {t1, t2}
    Requests = {r1, r2}
    NoJob = NoJob
    None = None
    Total = 4
    Epsilon = 1
    RefundAmounts <- Amounts
    MaxFaults = 1
SYMMETRY Symmetry
CHECK_DEADLOCK FALSE
INVARIANTS
    PaidIsCharged
    RefundsAreReal
    RefundedInFull
    BalanceKeptWithoutOverlap
    CaptureReachesOrder
PROPERTIES
    FailedStaysFailed
    ImplementsBook
