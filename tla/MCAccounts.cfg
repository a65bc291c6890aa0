CONSTANTS
    MaxPerDay = 1
    MaxAttempts = 1
    Tokens = {t1, t2, t3}
    Requests = {r1, r2}
    None = None
    NoJob = NoJob
SYMMETRY Symmetry
SPECIFICATION Spec
INVARIANT LimitsNearlyKept OneSessionPerCode OneLiveToken
PROPERTY DeletedStaysOut EndedStaysEnded
