SPECIFICATION FairSpec
CONSTANTS
    Callers = {c1, c2}
    Guards <- DefaultOrOneOff
    Unit = 2
    Rate = 1
    Burst = 2
    WaitTimeout = 3
    CircuitMaxRequests = 2
    CircuitInterval = 2
    CircuitTimeout = 2
    FailureThreshold = 2
    Window = 3
INVARIANTS
    RateBound
    ProbesAccounted
PROPERTIES
    QuietWhileOpen
    EveryChatReturns
    ProbesSettle
