SPECIFICATION Spec
CONSTANTS
    Sessions = {s1, s2}
    Launches = {l1, l2}
    Skills = {k1, k2}
    k1 = k1
    k2 = k2
    SkillOf <- EachItsOwn
    NoLaunch = NoLaunch
    NoSession = NoSession
    NoSkill = NoSkill
    MaxReports = 0
    MaxStops = 0
    MaxToggles = 1
    MaxErasures = 1
    MaxLost = 0
INVARIANT TakenOnce
SYMMETRY Renamed
CHECK_DEADLOCK FALSE
