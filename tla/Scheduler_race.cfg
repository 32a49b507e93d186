SPECIFICATION Spec
CONSTANTS
    Skills = {s1}
    Rules = {"often"}
    Due <- DueTwoRules
    Horizon = 4
    StartAt = 1
    Offset <- Plain
    NoRecord = NoRecord
    NoRule = NoRule
    Never = Never
    MaxEdits = 0
    MaxStops = 0
    MaxFaults = 0
    MaxAcks = 1
INVARIANT AtMostOnce
CHECK_DEADLOCK FALSE
