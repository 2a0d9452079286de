SPECIFICATION Spec
CONSTANTS
    Visits = {j1}
    Calls = {s1}
    Values = {v1, v2}
    Fixture = v1
    Engine = "demo"
    MaxPolls = 2
    MaxRedesigns = 0
    MaxVersions = 3
    MaxFaults = 0
    None = none
INVARIANTS EveryClickRecovers
CHECK_DEADLOCK FALSE
