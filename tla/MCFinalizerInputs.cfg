SPECIFICATION Spec
CONSTANTS
    f1 = f1
    f2 = f2
    Review = review
    Nobody = Nobody
    Finalizations = {f1}
    Inputs <- AllInputs
    LockEnabled = FALSE
    MaxAttempts = 3
    MaxFaults = 1
INVARIANTS
    OnlyPermittedGrants
CHECK_DEADLOCK FALSE
