SPECIFICATION Spec
CONSTANTS
    MaxId = 10
    VersionMod = 100
    Taint = {}
    MaxMaps = 0
    NProc = 2
    Kind <- NoKind
    MemOK = {TRUE, FALSE}
    Flags = {}
    NodeFilters = {}
    RelFilters = {}
    DenySets <- NoDeny
    TargetOps <- OpaqueTarget
    ProcOps = {}
    MaxEpoch = 1
    MaxCalls = 4
    MaxConfig = 1
    Socks <- OneStream
    Syscalls = {"create", "pair", "connect", "accept", "close"}
    Families = {"stream"}
    FilterOps <- NoOps
    HeadersRepeat = FALSE
    MaxPackets = 0
INVARIANTS SocketTypeOK
PROPERTIES OpaqueNotRecorded
CHECK_DEADLOCK FALSE
