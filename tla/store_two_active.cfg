SPECIFICATION Spec
CONSTANTS
    Requests = {r1, r2}
    Values = {v1}
    None = none
    MaxVersions = 2
    MaxFaults = 0
INVARIANTS OneActiveRow
CHECK_DEADLOCK FALSE
