SPECIFICATION FairSpec
CONSTANTS
    MaxQueue = 2
    MaxPipe = 2
    MaxAsked = 2
    Sent <- Configs
INVARIANTS EchoConfined
PROPERTIES AtMostOnce RepliesNeverBlock
