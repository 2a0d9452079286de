SPECIFICATION Spec
CONSTANTS
    Fields = {f1, f2, f3}
    MaxRequired = 3
SYMMETRY Symmetry
INVARIANTS TypeOK StatusSaysWhatHappened ReasonIsThatOfTheFirst
CHECK_DEADLOCK FALSE
