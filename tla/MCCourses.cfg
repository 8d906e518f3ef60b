SPECIFICATION Spec
CONSTANTS
    Classes = {m1, m2}
    Nowhere = Nowhere
    MaxPasswords = 3
    MaxCalls = 2
    MaxPapers = 2
    c1 = c1
    c2 = c2
    m = m
    k = k
    b = b
    None = None
    Courses = {c1, c2}
    Materials = {m}
    Checkpoints = {k}
    Bundles = {b}
    CourseOf <- AllOfOne
    a1 = a1
    a2 = a2
    Administrators = {a1, a2}
    Uploaders = {1}
    MaxJobs = 2
    MaxUploads = 2
    MaxCrashes = 1
    MaxWorkers = 2
SYMMETRY Alike
VIEW View
CONSTRAINT Focus
INVARIANTS
    MatchingIsExact
    OldPasswordsAreDead
    FilesFollowRows
PROPERTIES
    ClosedStaysClosed
CHECK_DEADLOCK FALSE
