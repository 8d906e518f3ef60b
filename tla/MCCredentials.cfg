SPECIFICATION Spec
CONSTANTS
    Students = {st1}
    Sessions = {s1, s2}
    Devices = {d1, d2}
    Activations = {c1, c2}
    Claims = {g1}
    Assignments = {a1}
    Passwords = {p1, p2}
    Nobody = Nobody
    NoPassword = NoPassword
    MaxRetained = 2
    MaxRotations = 1
    MaxDaily = 1
    AccessLife = 1
    RefreshLife = 2
    Retention = 1
    DayLength = 2
    MaxTime = 2
    MaxAttempts = 2
    MaxFailures = 2
    Forms = {f1, f2, f3}
    Lockout = 1
    CodeLife = 1
    DeviceRetention = 1
    MaxPending = 1
    MaxWait = 1
SYMMETRY MCSymmetry
VIEW MCView
CONSTRAINT Focus
INVARIANTS
    AccessIsSound
    RevocationIsComplete
    GuessesAreCounted
PROPERTY
    LockStands
CHECK_DEADLOCK FALSE
