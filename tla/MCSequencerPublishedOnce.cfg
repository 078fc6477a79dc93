SPECIFICATION Spec
CONSTANTS
    Block <- MCBlock
    Hash <- MCHash
    Executes <- MCExecutes
    Msg <- MCMsg
    Genesis <- MCGenesis
    OwnBlock <- MCOwnRivals
    PeerBlock <- MCPeerJoins
    OwnMsg <- MCOwnMsg
    PeerMsg <- MCPeerMsg
    NoTip = NoTip
    NoStall = NoStall
    CountMax = 1
    NoSnapshot = NoSnapshot
    NoCheckpoint = NoCheckpoint
    NoAnchor = NoAnchor
    Absent = Absent
    Partial = Partial
    NoMsg = NoMsg
    NoBlock = NoBlock
    MaxChannel = 2
    MaxDisturbances = 0
INVARIANTS
    PublishedOnce
