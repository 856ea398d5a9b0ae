CONSTANTS
    Main = main
    h1 = h1
    h2 = h2
    Helpers = {h1, h2}
    Limits <- TeamLimits
    TurnTimeout = 1
    Modes = {"negotiate"}
    Configured = {}
    Checks <- TeamChecks
    Sizes = {1}
    Batches <- TeamBatches
    MaxTime = 2
SPECIFICATION Spec
CHECK_DEADLOCK FALSE
INVARIANT WaitingIsNotWork
