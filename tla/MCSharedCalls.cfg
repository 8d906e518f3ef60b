SPECIFICATION Spec
CONSTANTS
    Students = {st1}
    Sessions = {1, 2}
    Devices = {d1}
    MaxRotations = 2
    MaxDaily = 2
    MaxRetained = 3
    AccessLife = 1
    RefreshLife = 2
    Retention = 1
    DayLength = 1
    MaxTime = 0
    Nobody = Nobody
    Calls = {1, 2, 3}
    MaxMishaps = 2
    l1 = l1
    l2 = l2
    k1 = k1
    k2 = k2
    k3 = k3
    None = None
    Processes = {1, 2}
    Labels = {l1, l2}
    Commits = {k1, k2}
    RepositoryOf <- OneEach
    Tree <- Trees
    MaxFiles = 2
    MaxSnapshotBytes = 2
    Size <- Sizes
    MaxBytes = 2
    MaxPushes = 1
    MaxCrashes = 1
    MaxCalls = 3
INVARIANTS
    ClientHoldsItsSession
    ExchangedOnce
    StoreIsKept
PROPERTIES
    EveryRefreshAnswered
    ImplementsLabels
    CallsEnd
CHECK_DEADLOCK FALSE
