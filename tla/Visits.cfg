SPECIFICATION FairSpec
CONSTANTS
    Requests = {1, 2, 3}
    MaxHits = 1
    MaxFaults = 1
    Sessions = {s1, s2}
    Settle = 1
    Plans <- FivePlans
    None = None
INVARIANTS LadderKept VisitRemembered PageFollowsCaller
PROPERTY LimitEnds
CHECK_DEADLOCK FALSE
