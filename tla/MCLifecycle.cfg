SPECIFICATION MCFairSpec
CONSTANTS
    Clients = {c1, c2}
    MaxRuns = 2
    ExitCodes = {0, 1}
    FailureCode = 1
    NoExit = NoExit
    Reaps = TRUE
    Faults = {"spawn", "post_spawn", "prepare", "write", "kill_supervisor", "client_dies", "reboot"}
INVARIANTS
    ReportedExitIsReal
    RunningStatusHasWriter
    FirstRunExitCode
    FirstRunStopped
    FirstRunRemovedOnlyWhenOver
PROPERTIES
    ExitIsFinal
    CommandsReturn
    ExitIsReported
