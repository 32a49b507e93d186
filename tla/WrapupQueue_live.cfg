SPECIFICATION FairSpec
CONSTANTS
    Jobs = {j1, j2}
    Workers = {w1, w2}
    NoJob = NoJob
    MaxAttempts = 2
    KeepTerminal = 1
    MaxStops = 1
    MaxFaults = 1
    MaxRetries = 1
INVARIANTS
    RunningIsHeld
    SpendBounded
    DoneIsComplete
PROPERTIES
    NoJobLost
    FinishedIsFinal
    DrainFreesFlag
    StartupDrains
CHECK_DEADLOCK FALSE
