SPECIFICATION FairSpec
CONSTANTS
    N = 8
    F = 3
    THRESHOLD = 1
    Byte = 4
    K = 2
    Space = 1
    Text <- Short
INVARIANTS TreesSound MatchReal MatchLongest
PROPERTIES Reverses Ends
