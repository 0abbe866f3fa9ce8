CONSTANTS
    Stacks <- MCStacks
    LoadBase <- MCLoadBase
    DynVaddr = 200
    SelfDyns <- MCSelfDyns
    SelfRelas <- MCSelfRelas
    PhdrAt <- MCPhdrAt
    Targets <- MCTargets
    InterpEntry = 9100
    PhentSize = 56
    Raw = Raw
    None = None

SPECIFICATION Spec

INVARIANTS
    TypeOK
    SelfRelocated
    HandOff

\* rust_main ends: it jumps to the loaded program or the process exits.
CHECK_DEADLOCK FALSE
