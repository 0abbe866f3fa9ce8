CONSTANTS
    UnitBits = 2
    MaxSize = 7
SPECIFICATION Spec
INVARIANT TypeOK
INVARIANT IteratorVisitsCleared
CHECK_DEADLOCK FALSE
