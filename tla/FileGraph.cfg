SPECIFICATION Spec
CONSTANTS
    MaxId = 8
    VersionMod = 100
    Taint = {}
    MaxMaps = 1
    NProc = 2
    Kind <- MCKind
    MemOK = {TRUE}
    Flags = {}
    NodeFilters = {}
    RelFilters = {}
    DenySets <- NoDeny
    TargetOps = {}
    ProcOps = {}
    MaxEpoch = 1
    MaxCalls = 4
    MaxConfig = 0
    Files <- OneFile
    Masks <- ReadWrite
    Prots <- MapReadWrite
    LoadTypes = {"RL_LOAD_MODULE"}
INVARIANTS CaptureTypeOK NoCycle EndsWritten VersionChain
PROPERTIES FlowOnNewVersion
CHECK_DEADLOCK FALSE
