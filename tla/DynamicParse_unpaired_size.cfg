CONSTANTS
    Base = 4096
    RelaSize = 24
    UsizeSize = 8
    Garbage = {0, 48}
    Tables <- MCTables
    None = None
    NoArray = NoArray

SPECIFICATION Spec

INVARIANT FinishReadsDeclaredSizes

\* The parser runs once: a table is parsed, then finished, and nothing more.
CHECK_DEADLOCK FALSE
