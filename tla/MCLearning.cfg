SPECIFICATION FairSpec
CONSTANTS
    x1 = x1
    x2 = x2
    y1 = y1
    None = None
    Keys = {k1, k2}
    Archives = {x1, x2, y1}
    ContentOf <- MCContentOf
    MaxVersions = 2
    MaxKeys = 1
    MaxSaves = 3
    MaxRepacks = 1
    Owners = {o1}
    MaxSpaces = 1
    MaxRuns = 1
    MaxRequests = 3
    MaxTroubles = 1
    MaxCrashes = 1
INVARIANTS
    SavesAreKeptOrErased
    NothingRunsUnwanted
PROPERTIES
    EverySpaceEnds
CHECK_DEADLOCK FALSE
