SPECIFICATION Spec
CONSTANTS
    Thread <- Threads
    Inode <- Inodes
    Plans <- PairPlans
    Mapped <- MappedBy
    Peer <- Peers
    Socket = "sock"
    MaxIrqs = 1
INVARIANT LockedSound
PROPERTY HooksReturn
CHECK_DEADLOCK FALSE
