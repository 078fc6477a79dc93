SPECIFICATION Spec
CONSTANTS
    PeerBlock <- MCPeerBlock
    NoTip = NoTip
    Pinned = TRUE
    MAX_PENDING = 4
    MAX_DEAD_LETTER = 4
    RETIRE_AFTER = 2
    SlotContents <- MCSlots
    ParentsFirst = TRUE
    Failing = {}
    Flaky = {}
    Size <- MCSize
    Before <- MCBefore
    MaxBlockSize = 2
    Rooms = {2}
    MaxTxInBlock = 2
    MAX_DISPATCHES = 2
    MaxSlots = 2
    MaxBlocks = 1
    MaxOrphans = 0
    MaxFaults = 1
    SettleFails = TRUE
    Claimed <- MCClaimed
INVARIANTS
    VerifierFollowsThePeer
    NeverHaltsOnHonest
    OnlyEmittedIsApplied
