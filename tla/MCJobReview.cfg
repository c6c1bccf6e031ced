CONSTANTS
    j1 = j1
    j2 = j2
    w1 = w1
    c1 = c1
    c2 = c2
    r1 = r1
    r2 = r2
    e1 = e1
    s1 = s1
    NoScope = NoScope
    NoSource = NoSource
    NoJob = NoJob
    NoRecord = NoRecord
    NoToken = NoToken
    Tokens = {t1, t2, t3, t4, t5}
    Scopes = {s1}
    GlobalConcurrency = 2
    ScopeConcurrency = 2
    Jobs = {j1, j2}
    Workers = {w1}
    Recoverers = {c1}
    Processes <- OwnProcesses
    Reviews = {r1}
    ReviewOf <- SameReview
    Sources = {e1}
    SourceOf <- NoSources
    ScopeOf <- OneScope
    MaxRetriesOf <- NoRetries
    MaxFaults = 1
SPECIFICATION Spec
CHECK_DEADLOCK FALSE
INVARIANTS ReviewExclusion
