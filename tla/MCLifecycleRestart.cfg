SPECIFICATION MCSpec
CONSTANTS
    Clients = {c1}
    MaxRuns = 2
    ExitCodes = {0, 1}
    FailureCode = 1
    NoExit = NoExit
    Reaps = TRUE
    Faults = {}
INVARIANT
    StopWaitsForExit
