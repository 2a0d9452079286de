SPECIFICATION Spec
CONSTANTS
    Fields = {f1, f2}
    Selectors = {s1, s2}
    Empty = empty
    AttemptLimits <- MCAttemptLimits
    RecursionLimit = 6
INVARIANTS TypeOK AttemptsAreBounded HistoryIsExact OutOfStepsOnlyWhenTooFew
PROPERTIES RefinesOutcome StepsRunOut Terminates
CHECK_DEADLOCK FALSE
