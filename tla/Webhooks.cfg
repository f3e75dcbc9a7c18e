SPECIFICATION FairSpec
CONSTANTS
    Events = {e1}
    Endpoints = {p1}
    Workers = {w1, w2}
    MaxRetries = 2
    MaxFaults = 1
    MaxExpiries = 1
    Free = Free
INVARIANT PostsAccountedFor
PROPERTIES DeliveredIsFinal RetriedToTheEnd
CHECK_DEADLOCK FALSE
