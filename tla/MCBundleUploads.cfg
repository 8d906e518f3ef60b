SPECIFICATION MCSpec
CONSTANTS
    a1 = a1
    a2 = a2
    Students = {st1}
    Assignments = {a1, a2}
    Submissions = {1, 2, 3}
    Keys = {1, 2}
    Contents = {c1, c2}
    Policy <- MCPolicy
    Opens <- MCOpens
    FirstDue <- MCFirstDue
    MaxOutstanding = 1
    MaxDaily = 2
    DayLength = 2
    MaxTime = 2
    NoRow = NoRow
    MaxTries = 2
    MaxSends = 3
    Mishaps = {"hide", "extend", "expire"}
    NoKey = NoKey
SYMMETRY MCSymmetry
INVARIANTS
    ResultsMatchStates
    DisclosureIsFair
    OneSubmissionPerKey
    AdmissionLimits
    NoUploadIsLost
CHECK_DEADLOCK FALSE
