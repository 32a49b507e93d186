SPECIFICATION FairSpec
CONSTANTS
    Skills = {s1}
    Rules = {"often", "rarely"}
    Due <- DueTwoRules
    Horizon = 4
    StartAt = 1
    Offset <- Plain
    NoRecord = NoRecord
    NoRule = NoRule
    Never = Never
    MaxEdits = 1
    MaxStops = 1
    MaxFaults = 1
    MaxAcks = 0
PROPERTY DueIsFired
CHECK_DEADLOCK FALSE
