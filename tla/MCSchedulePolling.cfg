SPECIFICATION Spec
CONSTANTS
    r1 = r1
    r2 = r2
    None = None
    Runners = {p1, p2}
    Threads = {t1, t2}
    Repos = {r1, r2}
    Commits = {k1, k2}
    Keys <- Slots
    Callers <- Workers
    Policies = {"none", "latest", "all"}
    Interval = 2
    QueueSize = 1
    MaxTime = 4
    MaxAttempts = 1
    MaxConfig = 2
    MaxMishaps = 1
    MaxPushes = 1
    MaxEdits = 1
    MaxStarts = 2
SYMMETRY MCSymmetry
CONSTRAINT Focus
INVARIANTS
    PollingIsHonest
PROPERTIES
    DecisionsStay
    CursorIsHonest
CHECK_DEADLOCK FALSE
