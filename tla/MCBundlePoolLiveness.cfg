SPECIFICATION FairSpec
CONSTANTS
    a1 = a1
    a2 = a2
    Students = {st1}
    Assignments = {a1, a2}
    Submissions = {s1, s2}
    Keys = {k1}
    Contents = {c1}
    Policy <- MCPolicy
    Opens <- MCOpens
    FirstDue <- MCFirstDue
    MaxOutstanding = 2
    MaxDaily = 2
    DayLength = 3
    MaxTime = 2
    NoRow = NoRow
    Threads = {t1}
    Main = Main
    NoJob = NoJob
    QueueSize = 1
    MaxUpsets = 1
PROPERTIES
    EverySubmissionSettles
    DueResultsArePublished
CHECK_DEADLOCK FALSE
