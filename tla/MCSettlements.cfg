SPECIFICATION Spec
CONSTANTS
    Restaurants = {x1}
    Partners = {d1}
    Sales = {s1}
    Deliveries = {v1, v2}
    Cycles = {c1, c2}
    Requests = {r1, r2}
    NoJob = NoJob
    None = None
    LastDay = 3
    MaxFaults = 1
SYMMETRY Symmetry
CONSTRAINT Bounded
INVARIANTS
    RowsStayInWindow
    NothingMissed
    PayoutsMatchRows
    WorkPaidOnce
PROPERTIES
    FrozenOncePaid
    ImplementsBook
