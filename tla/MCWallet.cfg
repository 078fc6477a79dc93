CONSTANTS
    AccountId <- MCAccountId
    ProgramId <- MCProgramId
    Signer = {}
    Seed <- MCSeed
    Pda <- MCPda
    Data = {"none", "elf"}
    NoData = "none"
    Elf <- MCElf
    MaxBalance = 1
    DEFAULT_PROGRAM_OWNER <- MCNobody
    PROGRAM_STORAGE_OWNER <- MCStorage
    MaxIndex = 7
    Identifier = {0, 1}
    World <- MCWorld
    SYNC_PERSIST_CHECKPOINT_BLOCKS = 2
    MaxBlocks = 2
    MaxNodes = 3
    MaxDepth = 3
    MaxEvents = 2
SPECIFICATION Spec
CHECK_DEADLOCK FALSE
INVARIANTS
    CacheFollowsTheChain
    KeyTreeIsDense
PROPERTIES
    WalletConverges
