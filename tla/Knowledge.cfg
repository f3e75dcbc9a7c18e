SPECIFICATION FairSpec
CONSTANTS
    Files = {f1}
    Texts = {}
    Voices = {v1}
    Emails = {m1}
    Listings = {p1}
    MaxVersion = 2
    MaxBackfills = 2
    MaxRequests = 3
INVARIANTS StatusTellsTruth OrphanExplained NewestKnown BackfillReplaces
PROPERTY EveryDocumentSettles
CHECK_DEADLOCK FALSE
