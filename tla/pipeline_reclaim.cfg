SPECIFICATION Spec
CONSTANTS
    Jobs = {j1, j2}
    Consumers = {c1, c2}
    MaxFaults = 1
    ReclaimScheduled = TRUE
INVARIANTS TypeOK AckedIsResolved MessageFollowsRow RowIsConsistent AnswersHold
PROPERTIES AckedIsFinal OnlyFailuresDrop RefinesLifecycle MessagesAreAcknowledged
CHECK_DEADLOCK FALSE
