SPECIFICATION Spec
CONSTANTS
    MaxId = 8
    VersionMod = 100
    Taint = {"secret"}
    MaxMaps = 1
    NProc = 1
    Kind <- MCKind
    MemOK = {TRUE}
    Flags = {"all", "compress_edge", "duplicate"}
    NodeFilters = {"ENT_INODE_PIPE"}
    RelFilters = {"RL_PROC_READ"}
    DenySets <- DenySome
    TargetOps <- OpaqueTarget
    ProcOps <- ProcSettings
    MaxEpoch = 2
    MaxCalls = 2
    MaxConfig = 2
    Files <- PipesAndFile
    Masks <- SomeMasks
    Prots <- MapReadWrite
    LoadTypes = {"RL_LOAD_MODULE"}
INVARIANTS EndsWritten
PROPERTIES TaintReaches TaintFollowsEdges RefusalReturned
CHECK_DEADLOCK FALSE
