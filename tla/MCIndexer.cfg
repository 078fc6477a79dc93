SPECIFICATION FairSpec
CONSTANTS
    Block <- MCBlock
    Hash <- MCHash
    Executes <- MCExecutes
    Dispatching <- MCDispatching
    Forged <- MCForged
    TxsOf <- MCTxsOf
    AffectedBy <- MCAffectedBy
    World <- MCWorld
    Account = {"alice", "clock"}
    BREAKPOINT_INTERVAL = 2
    APPLY_RETRY_LIMIT = 3
    CountMax = 1
    NoTip = NoTip
    NoHeader = NoHeader
    NoStall = NoStall
    NoAnchor = NoAnchor
    NoState = NoState
    ParentsFirst = TRUE
INVARIANTS
    CursorSkipsNothing
    HistoryIsReplay
    LookupsMatchScan
    ConsistentStoreIsOnChannel
PROPERTIES
    ImplementsFollower
    EverySlotIsPassed
