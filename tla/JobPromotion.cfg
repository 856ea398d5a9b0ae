CONSTANTS
    j1 = j1
    p1 = p1
    p2 = p2
    p3 = p3
    Jobs = {j1}
    Procs = {p1, p2}
    LastRun = 2
    NoJob = NoJob
    Nobody = Nobody
    NoSession = NoSession
    MayCrash = {}
    DiskMayFail = FALSE
SPECIFICATION Spec
CHECK_DEADLOCK FALSE
INVARIANT PromptSubmittedOnce
