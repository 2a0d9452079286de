SPECIFICATION Spec
CONSTANTS
    Jobs = {j1}
    Consumers = {c1, c2}
    MaxFaults = 0
    ReclaimScheduled = TRUE
INVARIANTS OneHandler
CHECK_DEADLOCK FALSE
