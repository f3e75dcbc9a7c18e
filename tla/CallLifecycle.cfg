SPECIFICATION FairSpec
CONSTANTS
    Calls = {c1}
    Hooks = {h1, h2}
    MaxTurns = 2
    Absent = Absent
INVARIANTS NothingLost DuplicateLeadExplained CompleteOnceClosed
PROPERTIES KeepsLedger TranscriptNeverShrinks SessionGone
CHECK_DEADLOCK FALSE
