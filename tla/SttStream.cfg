SPECIFICATION StreamFairSpec
CONSTANTS
    Slots = 4
    MaxSlots = 4
    Content <- Distinct
INVARIANTS NoWordLost AnsweredInOrder
PROPERTIES SettlesOnlyWhatIsComplete EveryWordAnswered
CHECK_DEADLOCK FALSE
