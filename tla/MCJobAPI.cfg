SPECIFICATION FairSpec
CONSTANTS
    c1 = c1
    c2 = c2
    e1 = e1
    e2 = e2
    Clients = {c1, c2}
    Events = {e1, e2}
    NoEvent = NoEvent
    NoJob = NoJob
    Items <- TheItems
    Requests <- TheRequests
    MaxBatchSize = 2
    MaxFaults = 3
INVARIANTS
    OneJobPerEvent
    AnswersMatch
PROPERTIES
    EventuallyAccepted
CHECK_DEADLOCK FALSE
