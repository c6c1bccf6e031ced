SPECIFICATION Spec
CONSTANTS
    c1 = c1
    c2 = c2
    c3 = c3
    Callers = {c1, c2, c3}
    MaxAttempts = 2
    Deployments <- TheDeployments
    n1 = n1
    Names <- TheNames
    NoName = NoName
    r1 = r1
    r2 = r2
    Reviews = {r1, r2}
    MaxFaults = 2
    NoReview = NoReview
    Nobody = Nobody
SYMMETRY ReviewSymmetry
INVARIANTS
    SessionIsOwn
    FinalizesOwnEvidence
    FinalizedAlone
    StoreIsLRU
CHECK_DEADLOCK FALSE
