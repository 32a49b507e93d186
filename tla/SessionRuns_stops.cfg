SPECIFICATION FairSpec
CONSTANTS
    Sessions = {s1}
    Launches = {l1, l2}
    Skills = {k1, k2}
    k1 = k1
    k2 = k2
    SkillOf <- OneScenario
    NoLaunch = NoLaunch
    NoSession = NoSession
    NoSkill = NoSkill
    MaxReports = 1
    MaxStops = 1
    MaxToggles = 0
    MaxErasures = 0
    MaxLost = 1
INVARIANTS FailedIsClosed OneChild RunningIsKept
PROPERTIES LeavesOnce DeadIsClosed
CHECK_DEADLOCK FALSE
