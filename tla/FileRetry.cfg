SPECIFICATION Spec
CONSTANTS
    MaxId = 8
    VersionMod = 100
    Taint = {}
    MaxMaps = 0
    NProc = 1
    Kind <- MCKind
    MemOK = {TRUE}
    Flags = {}
    NodeFilters = {}
    RelFilters = {}
    DenySets <- DenyWrite
    TargetOps = {}
    ProcOps = {}
    MaxEpoch = 1
    MaxCalls = 3
    MaxConfig = 1
    Files <- OnePipe
    Masks <- ReadWrite
    Prots <- MapReadWrite
    LoadTypes = {}
PROPERTIES RetryRefused
CHECK_DEADLOCK FALSE
