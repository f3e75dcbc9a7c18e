SPECIFICATION Spec
CONSTANTS
    Requests = {1, 2, 3}
    Plans <- SixPlans
    MaxKeys = 1
    TTL = 2
    FetchTime = 1
    MaxTime = 5
    MaxFaults = 2
    Emails = {1, 2}
INVARIANTS RetiredKeyEnds KeyLimit NoOrphanCompany LinkWorksOnce
CHECK_DEADLOCK FALSE
