SPECIFICATION Spec
CONSTANTS
    Skills = {s1}
    Rules = {"often", "rarely"}
    Due <- DueTwoRules
    Horizon = 4
    StartAt = 1
    Offset <- Plain
    NoRecord = NoRecord
    NoRule = NoRule
    Never = Never
    MaxEdits = 2
    MaxStops = 1
    MaxFaults = 1
    MaxAcks = 1
INVARIANTS
    FiredAgainOnlyIfLost
    FiresOnlySinceArmed
    LastRunWasLaunched
CHECK_DEADLOCK FALSE
