SPECIFICATION Spec
CONSTANTS
    OpenMax = 8
    MaxInbox = 1
    MaxPipe = 2
    LinkStates <- AnyLink
    Vendor <- AnyVendor
    Sent <- Harmless
INVARIANTS
    PipeIntact
    Ownership
    ReadNeverBlocks
    NoServiceAfterExhaustion
PROPERTY
    OnlySecondCloseClobbers
CHECK_DEADLOCK FALSE
