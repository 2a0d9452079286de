SPECIFICATION Spec
CONSTANTS
    Requests = {r1, r2, r3}
    Values = {v1, v2}
    None = none
    MaxVersions = 3
    MaxFaults = 2
SYMMETRY Symmetry
INVARIANTS TypeOK OneActiveWhenSerial VersionsCountSaves CacheIsCommitted
PROPERTIES HistoryIsKept ActiveNeverFalls
CHECK_DEADLOCK FALSE
