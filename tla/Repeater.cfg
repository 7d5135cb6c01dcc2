SPECIFICATION FairSpec
CONSTANTS
    Networks <- Air
    Spaced <- WithBlank
    MaxWait = 1
INVARIANTS NoTwoServers ShownIsUsed WholeOrUndone
PROPERTIES KeepsPromise CommandsEnd
