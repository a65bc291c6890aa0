CONSTANTS
    Required = {q1, q2}
    Optional = {o1}
    Days = {d1}
    Users = {u1}
    Requests = {r1, r2}
    None = None
    NoJob = NoJob
SYMMETRY Symmetry
SPECIFICATION Spec
INVARIANT SubmittedIsComplete HoursReplaced VerifiedMeansVerified
    OpenMeansApproved
