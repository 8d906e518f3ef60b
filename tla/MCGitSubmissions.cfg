SPECIFICATION MCSpec
CONSTANTS
    a1 = a1
    a2 = a2
    r1 = r1
    r2 = r2
    k1 = k1
    i1 = i1
    q1 = q1
    None = None
    Labels = {1, 2}
    Repos = {r1, r2}
    Commits = {k1, k2}
    Assignments = {a1, a2}
    RepoOf <- MCRepoOf
    Policy <- MCPolicy
    Keys = {i1, i2}
    Requests = {q1, q2}
    MaxOutstanding = 1
    MaxDaily = 2
    QueueSize = 1
    MaxDay = 1
    MaxPushes = 1
    MaxPasses = 1
    MaxRequests = 2
    MaxMishaps = 2
INVARIANTS
    ReceiptsAreKept
    AdmissionIsHonest
PROPERTIES
    ImplementsGitLedger
    EverySourceSettles
CHECK_DEADLOCK FALSE
