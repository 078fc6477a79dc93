SPECIFICATION Spec
CONSTANTS
    Block <- MCBlock
    Hash <- MCHash
    Executes <- MCExecutes
    Msg <- MCMsg
    Genesis <- MCGenesis
    OwnBlock <- MCOwnBlock
    PeerBlock <- MCPeerBlock
    OwnMsg <- MCOwnMsg
    PeerMsg <- MCPeerMsg
    NoTip = NoTip
    NoStall = NoStall
    CountMax = 1
    NoSnapshot = NoSnapshot
    NoCheckpoint = NoCheckpoint
    NoAnchor = NoAnchor
    Absent = Absent
    Partial = Partial
    NoMsg = NoMsg
    NoBlock = NoBlock
    MaxChannel = 3
    MaxDisturbances = 1
INVARIANTS
    FinalIsSettled
    CrashLeavesLoadableStore
    CheckpointNotAhead
    DiskFollowsHead
