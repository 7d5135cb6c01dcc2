SPECIFICATION Spec
CONSTANTS
    OpenMax = 8
    MaxInbox = 1
    MaxPipe = 1
    LinkStates <- OnlyUp
    Vendor <- NoNews
    Sent <- Scripting
INVARIANTS
    IndInv
    OnlyKnownLeaks
    PipeNeverReturns
CHECK_DEADLOCK FALSE
