SPECIFICATION Spec
CONSTANTS
    MaxId = 14
    VersionMod = 100
    Taint = {}
    MaxMaps = 0
    NProc = 2
    Kind <- NoKind
    MemOK = {TRUE}
    Flags = {"compress_edge"}
    NodeFilters = {}
    RelFilters = {}
    DenySets <- NoDeny
    TargetOps = {}
    ProcOps = {}
    MaxEpoch = 1
    MaxCalls = 3
    MaxConfig = 1
    Socks <- AllFamilies
    Syscalls = {"bind", "msg", "packet", "close"}
    Families = {}
    FilterOps <- TrackPackets
    HeadersRepeat = FALSE
    MaxPackets = 2
INVARIANTS GraphSound
PROPERTIES StreamLineage
CHECK_DEADLOCK FALSE
