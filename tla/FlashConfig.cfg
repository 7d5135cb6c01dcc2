SPECIFICATION FairSpec
CONSTANTS
    Tags = {"home", "open"}
    Open = {"open"}
    Bases <- SomeBases
    Junk <- SomeJunk
    Factory <- FactorySet
    Sent <- Some
    MaxEvents = 3
INVARIANTS AsCommanded NamedBandsStand   InterfacesDiffer
PROPERTIES ScriptsForConfigs 
CHECK_DEADLOCK FALSE
