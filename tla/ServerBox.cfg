SPECIFICATION Spec
CONSTANTS
    OpenMax = 8
    MaxInbox = 1
    MaxPipe = 1
    LinkStates <- OnlyUp
    Vendor <- NoNews
    Sent <- BoxConfig
INVARIANT
    BoxResponseSent
CHECK_DEADLOCK FALSE
