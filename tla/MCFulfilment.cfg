SPECIFICATION FulfilmentSpec
CONSTANTS
    OrderIds = {o1}
    Partners = {p1}
    Assignments = {a1, a2}
    Requests = {r1}
    Staff = {s1, s2}
    NoJob = NoJob
    None = None
    MaxActive = 1
    MaxFaults = 1
SYMMETRY Symmetry
INVARIANTS
    DriftExplained
