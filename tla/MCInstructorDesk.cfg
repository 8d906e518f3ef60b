SPECIFICATION Spec
CONSTANTS
    Drafts = {d1, d2}
    MaxJobs = 2
    MaxRevision = 2
    MaxTries = 2
    MaxQueued = 1
    MaxDrafts = 2
    MaxCrashes = 1
    Nothing = Nothing
    Keys = {k1, k2}
    Uploads = {k2}
    k1 = k1
    k2 = k2
    Windows = {w1, w2}
    MaxCommands = 2
    MaxOpen = 2
    Lifetime = 2
    MaxTicks = 3
    MaxTroubles = 2
    MaxReceipts = 1
    Nobody = Nobody
    Assessors = {t1, t2}
    Check = Check
    MaxBoxes = 3
    MaxLives = 2
    MaxMishaps = 2
SYMMETRY Alike
CONSTRAINT Focus
INVARIANTS
    ReleasesAreSound
    ValidationIsHonest
    RequestsRunOnce
    NothingRunsUnattended
    GradesAreDeserved
PROPERTIES
    NothingStartsLate
CHECK_DEADLOCK FALSE
