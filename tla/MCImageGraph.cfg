CONSTANTS
    A = A
    B = B
    C = C
    Images <- MCImages
    MaxHandles = 2
    MaxDeps = 2

SPECIFICATION Spec

INVARIANTS
    TypeOK
    DepsOutliveDependants
    FiniOrder
    NoLeak

\* Every image ends freed or discarded: the program has nothing left to do.
CHECK_DEADLOCK FALSE
