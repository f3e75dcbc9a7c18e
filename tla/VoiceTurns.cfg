SPECIFICATION FairSpec
CONSTANTS
    MaxHeard = 3
    Calls <- ThreeCalls
    Window = 2
    MaxHold = 3
    Idle = 2
    EchoTail = 1
    Retention = 2
INVARIANTS NeverInterleaved EachWordInOneTurn HeldNoLongerThanMax NeverAnswersItself
PROPERTY EveryUtteranceTaken
CHECK_DEADLOCK FALSE
