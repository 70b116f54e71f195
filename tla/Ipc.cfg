SPECIFICATION Spec
CONSTANTS
    MaxId = 12
    VersionMod = 100
    Taint = {}
    MaxMaps = 0
    NProc = 2
    Kind <- NoKind
    MemOK = {TRUE}
    Flags = {}
    NodeFilters = {}
    RelFilters = {}
    DenySets <- NoDeny
    TargetOps = {}
    ProcOps = {}
    MaxEpoch = 2
    MaxCalls = 7
    MaxConfig = 1
    ShmProcs = {1}
    MaxSegments = 1
CHECK_DEADLOCK FALSE
INVARIANTS IpcTypeOK EndsWritten
PROPERTIES FlowOnNewVersion ForwardedLineage
