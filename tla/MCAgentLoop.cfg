SPECIFICATION FairSpec
CONSTANTS
    r1 = r1
    r2 = r2
    Reviews = {r1, r2}
    Appealed = {r2}
    Eligible = {r1, r2}
    Settings <- WideAndNarrow
    MaxFaults = 1
    NoReview = NoReview
INVARIANTS
    AppealRespected
    NoGrantOnFallback
    CampaignOfReview
    PromptIsLongestTail
PROPERTIES
    GrantEndsLoop
    Terminates
CHECK_DEADLOCK FALSE
