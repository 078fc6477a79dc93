SPECIFICATION Spec
CONSTANTS
    AccountId <- MCAccountId
    ProgramId <- MCProgramId
    Signer <- MCSigner
    Seed <- MCSeed
    Pda <- MCPda
    Data <- MCData
    NoData <- MCNoData
    Elf <- MCElf
    MaxBalance = 255
    DEFAULT_PROGRAM_OWNER <- MCNobody
    PROGRAM_STORAGE_OWNER <- MCStorage
    NoCaller <- MCNoCaller
    PRIZE = 1
    MAX_MINT_AMOUNT = 100
    MAX_NUMBER_CHAINED_CALLS = 10
    PrivateId = {}
    TOKEN <- MCToken
    AMM <- MCAmm
    ATA <- MCAta
    AUTHENTICATED_TRANSFER <- MCAuthenticatedTransfer
    VAULT <- MCVault
    FAUCET <- MCFaucet
    BRIDGE <- MCBridge
    PINATA <- MCPinata
    PINATA_TOKEN <- MCPinataToken
    CLOCK <- MCClock
    BRIDGE_LOCK <- MCBridgeLock
    OUTBOX <- MCOutbox
    INBOX <- MCInbox
    WRAPPED_TOKEN <- MCWrappedToken
    PING_SENDER <- MCPingSender
    PING_RECEIVER <- MCPingReceiver
    STAKE <- MCSequencerStake
    UserAccounts <- MCUserAccounts
    DEFAULT_MINIMUM_SEQUENCER_STAKE = 2
    GENESIS_STAKE_FUNDING <- MCFunding
    Scenario <- MCScenario
    SequencerKey = {"k1", "k2"}
    MaxSupply = 8
    MaxEmitted = 3
    MaxInFlight = 2
CHECK_DEADLOCK FALSE
INVARIANTS
    BooksBalance
PROPERTIES
    ShareValueNeverDrops
    DepositIsMintedOnce
    CommitteeConverges
