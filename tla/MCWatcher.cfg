SPECIFICATION FairWatcherSpec
CONSTANTS
    PeerBlock <- MCPeerBlock
    NoTip = NoTip
    Pinned = TRUE
    MAX_PENDING = 2
    MAX_DEAD_LETTER = 4
    RETIRE_AFTER = 2
    SlotContents <- MCSlots
    ParentsFirst = TRUE
    Failing <- MCFailing
    Flaky <- MCFlaky
    Size <- MCHuge
    Before <- MCBefore
    MaxBlockSize = 2
    Rooms = {1, 2}
    MaxTxInBlock = 2
    MAX_DISPATCHES = 2
    MaxSlots = 2
    MaxBlocks = 2
    MaxOrphans = 1
    MaxFaults = 2
    SettleFails = TRUE
INVARIANTS
    FollowsThePeer
    NothingIsLost
    DeliveredOnce
PROPERTIES
    EveryMessageIsDecided
