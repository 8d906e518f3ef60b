SPECIFICATION JobsSpec
CONSTANTS
    None = None
    Labels = {j1}
    Repos = {r1}
    Commits = {k1}
    MaxPushes = 0
    MaxPasses = 1
    MaxCrashes = 1
INVARIANT
    SnapshotsAreKept
CHECK_DEADLOCK FALSE
