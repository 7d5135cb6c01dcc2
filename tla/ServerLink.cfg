SPECIFICATION Spec
CONSTANTS
    OpenMax = 6
    MaxInbox = 1
    MaxPipe = 1
    LinkStates <- UpOrDown
    Vendor <- NoNews
    Sent <- Harmless
INVARIANT
    WaitsForNetwork
CHECK_DEADLOCK FALSE
