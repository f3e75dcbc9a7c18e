SPECIFICATION SpeechSpec
CONSTANTS
    Texts <- ThreeTexts
    Stops = {2, 4}
    Fillers <- OneFiller
    MinChunk = 2
    MaxChunk = 5
    MaxToken = 3
    Pieces = 3
    MaxFaults = 1
INVARIANT GreetingWhole
CHECK_DEADLOCK FALSE
