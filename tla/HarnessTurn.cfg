CONSTANTS
    Main = main
    h1 = h1
    h2 = h2
    Helpers = {}
    Limits <- AloneLimits
    TurnTimeout = 2
    Modes = {"auto", "negotiate", "plan"}
    Configured = {"read"}
    Checks <- AloneChecks
    Sizes = {0, 1, 3}
    Batches <- AloneBatches
    MaxTime = 3
SPECIFICATION Spec
CHECK_DEADLOCK FALSE
INVARIANTS LimitsHold AnsweredEachCall JournalTells OwnWaitIsNotWork
