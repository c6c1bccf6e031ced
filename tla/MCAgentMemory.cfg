SPECIFICATION Spec
CONSTANTS
    r1 = r1
    r2 = r2
    Reviews = {r1, r2}
    Appealed = {r2}
    Eligible = {r1}
    Settings <- TwoSteps
    MaxFaults = 1
    NoReview = NoReview
INVARIANTS
    NoSuccessWithoutMemory
CHECK_DEADLOCK FALSE
