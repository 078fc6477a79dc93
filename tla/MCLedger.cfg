SPECIFICATION Spec
CHECK_DEADLOCK FALSE
CONSTANTS
    AccountId = {"alice", "vault", "safe", "P", "Q", "bridge", "clock"}
    ProgramId = {"P", "Q"}
    Signer = {"alice"}
    Seed <- MCSeed
    Pda <- MCPda
    NoData = "empty"
    Data = {"empty", "elf"}
    Elf <- MCElf
    MaxBalance = 1
    DEFAULT_PROGRAM_OWNER = "nobody"
    PROGRAM_STORAGE_OWNER = "storage"
    Genesis <- MCGenesis
    Transaction <- MCTransaction
    CallLists <- MCCallLists
    Restricted = {"clock"}
    Bridge = "bridge"
    MAX_NUMBER_CHAINED_CALLS = 1
    NoTx = NoTx
    NoCaller = NoCaller
    MaxOutput = 2
    MaxApplied = 2
INVARIANTS
    AuthorizationIsRooted
    BalanceIsConserved
