SPECIFICATION Spec
CONSTANTS
    MaxId = 14
    VersionMod = 100
    Taint = {}
    MaxMaps = 1
    NProc = 2
    Kind <- MCKind
    MemOK = {TRUE}
    Flags = {}
    NodeFilters = {}
    RelFilters = {}
    DenySets <- NoDeny
    TargetOps <- OpaqueTarget
    ProcOps = {}
    MaxEpoch = 1
    MaxCalls = 5
    MaxConfig = 1
    Files <- TwoFiles
    PgidProcs = {2}
    Writers = {2}
    FirstMaps <- MapsFile
INVARIANTS TaskTypeOK GraphSound ProcessLineage
PROPERTIES FlowOnNewVersion OpaqueExec
CHECK_DEADLOCK FALSE
