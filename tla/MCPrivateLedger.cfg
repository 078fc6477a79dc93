SPECIFICATION Spec
CONSTANTS
    AccountId <- MCAccountId
    ProgramId <- MCProgramId
    Signer <- MCSigner
    Seed <- MCSeed
    Pda <- MCPda
    NoData = "empty"
    Data = {"empty", "elf"}
    Elf <- MCElf
    MaxBalance = 1
    DEFAULT_PROGRAM_OWNER <- MCNobody
    PROGRAM_STORAGE_OWNER <- MCStorage
    NoCaller = NoCaller
    NoBinding = NoBinding
    NoJob = NoJob
    PublicId <- MCPublicId
    PrivatePda <- MCPrivatePda
    GenesisAccounts <- MCGenesisAccounts
    GenesisNotes <- MCGenesisNotes
    InitialCapacity = 2
    Job <- MCJob
    Ending <- MCEnding
    MAX_NUMBER_CHAINED_CALLS = 2
    MaxOutput = 2
    MaxProven = 2
    MaxBlock = 2
CHECK_DEADLOCK FALSE
INVARIANTS
    ValueIsConserved
    NotesAreReadable
    ProofsStayGood
