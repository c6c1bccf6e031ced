SPECIFICATION FairSpec
CONSTANTS
    f1 = f1
    f2 = f2
    Review = review
    Nobody = Nobody
    Finalizations = {f1, f2}
    Inputs <- TwoInputs
    LockEnabled = TRUE
    MaxAttempts = 2
    MaxFaults = 2
INVARIANTS
    AtMostOneCoupon
    StoredGrantIsReal
    KnownGrantIsStored
    LockExclusion
PROPERTIES
    EveryCallReturns
    EventuallyUnlocked
CHECK_DEADLOCK FALSE
