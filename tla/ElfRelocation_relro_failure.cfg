CONSTANTS
    UnitBits = 2
    NoSym = NoSym
    NoArray = NoArray
    None = None
    f = f
    g = g
    o = o
    m = m
    L1 = L1
    L2 = L2
    Names <- MCNames
    Libs <- MCLibs
    LibDefs <- MCLibDefs
    OwnDefs <- MCOwnDefs
    PltRelas <- MCPltRelas
    DynRelas <- MCDynRelas
    Closures <- MCClosures
    Ifuncs <- MCIfuncs
    LazyModes = {FALSE, TRUE}
    HasRelro = TRUE
    HasInit = TRUE
    InitArrayLen = 2
    HasFini = TRUE
    FiniArrayLen = 2
\* Every image lifecycle ends: after finish fails or the image is dropped
\* no operation applies to it.
SPECIFICATION Spec
CHECK_DEADLOCK FALSE
INVARIANT InitImpliesFiniOwner
