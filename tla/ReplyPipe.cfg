SPECIFICATION FairSpec
CONSTANTS
    Size = 3
    Capacity = 6
    Lengths <- ReplyLengths
    MaxWrote = 10
INVARIANTS InOrder BehindRead WholeInOne
PROPERTIES RepeatsAfterScript Delivered
CHECK_DEADLOCK FALSE
