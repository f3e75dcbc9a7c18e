SPECIFICATION Spec
CONSTANTS
    Calls = {c1}
    Hooks = {h1}
    MaxTurns = 1
    Absent = Absent
INVARIANT TranscriptComplete
CHECK_DEADLOCK FALSE
