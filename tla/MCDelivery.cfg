SPECIFICATION Spec
CONSTANTS
    OrderIds = {o1, o2}
    Partners = {p1}
    Assignments = {a1, a2, a3}
    Requests = {r1, r2}
    NoJob = NoJob
    None = None
    MaxActive = 1
    MaxFaults = 1
SYMMETRY Symmetry
INVARIANTS
    LoadAccountedFor
    CapKept
