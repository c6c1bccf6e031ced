SPECIFICATION Spec
CONSTANTS
    f1 = f1
    f2 = f2
    Review = review
    Nobody = Nobody
    Finalizations = {f1}
    Inputs <- TwoInputs
    LockEnabled = TRUE
    MaxAttempts = 3
    MaxFaults = 0
INVARIANTS
    TimedOutGrantIsResolved
CHECK_DEADLOCK FALSE
