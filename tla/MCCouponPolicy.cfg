SPECIFICATION FairSpec
CONSTANTS
    Callers = {c1, c2}
    MaxWrites = 3
INVARIANTS
    NeverTooSure
PROPERTIES
    EventuallyCurrent
