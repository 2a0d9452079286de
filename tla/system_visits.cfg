SPECIFICATION Spec
CONSTANTS
    Visits = {j1, j2}
    Calls = {s1, s2}
    Values = {v1, v2}
    Fixture = v1
    Engine = "claude"
    MaxPolls = 1
    MaxRedesigns = 1
    MaxVersions = 7
    MaxFaults = 1
    None = none
INVARIANTS TypeOK OneActiveUnlessLate RecoveredIsStored ToldIsTrue FailedNeedsFault
PROPERTIES EveryVisitEnds Heals
