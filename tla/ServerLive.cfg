SPECIFICATION FairSpec
CONSTANTS
    OpenMax = 8
    MaxInbox = 1
    MaxPipe = 1
    LinkStates <- OnlyUp
    Vendor <- NewsOrNone
    Sent <- Turns
PROPERTIES
    ServerListens
    OnlineBroadcasts
CHECK_DEADLOCK FALSE
