SPECIFICATION Spec
CONSTANTS
    Jobs = {j1, j2}
    Consumers = {c1, c2}
    MaxFaults = 2
    ReclaimScheduled = FALSE
SYMMETRY Symmetry
INVARIANTS NoJobIsForgotten
PROPERTIES TerminalIsFinal RefinesLifecycle
CHECK_DEADLOCK FALSE
