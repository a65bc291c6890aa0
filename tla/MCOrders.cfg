SPECIFICATION Spec
CONSTANTS
    OrderIds = {o1}
    Requests = {r1, r2}
    NoJob = NoJob
    MaxFaults = 2
SYMMETRY Symmetry
INVARIANTS
    TypeOK
    MilestonesInOrder
    WitnessesHeld
    TrailAccountsForAll
PROPERTY
    TerminalOnceQuiet
