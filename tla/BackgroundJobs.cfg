CONSTANTS
    j1 = j1
    p1 = p1
    p2 = p2
    p3 = p3
    Jobs = {j1}
    Procs = {p1, p2, p3}
    LastRun = 2
    NoJob = NoJob
    Nobody = Nobody
    NoSession = NoSession
    MayCrash = {p1, p2}
    DiskMayFail = TRUE
SPECIFICATION Spec
SYMMETRY Alike
CHECK_DEADLOCK FALSE
INVARIANTS TypeOK OneRunner CancelSticks SessionOfThisRun ExclusiveUpdate
PROPERTY ImplementsLifecycle
