SPECIFICATION Spec
CONSTANTS
    MaxId = 10
    VersionMod = 100
    Taint = {"secret"}
    MaxMaps = 0
    NProc = 1
    Kind <- MCKind
    MemOK = {TRUE, FALSE}
    Flags = {"all"}
    NodeFilters = {}
    RelFilters = {}
    DenySets <- NoDeny
    TargetOps = {}
    ProcOps <- ProcSettings
    MaxEpoch = 2
    MaxCalls = 3
    MaxConfig = 2
    Files <- OneDirectory
    NewModes = {1}
    Masks <- SomeMasks
    Settings <- SomeSettings
INVARIANTS GraphSound
PROPERTIES XattrsHaveAuthor FlowOnNewVersion OpaqueNotRecorded TaintReaches
CHECK_DEADLOCK FALSE
