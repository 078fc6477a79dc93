SPECIFICATION Spec
CONSTANTS
    AccountId <- MCAccountId
    ProgramId <- MCProgramId
    Signer <- MCSigner
    Seed <- MCSeed
    Pda <- MCPda
    Data <- MCData
    NoData <- MCNoData
    Elf <- MCElf
    MaxBalance = 255
    DEFAULT_PROGRAM_OWNER <- MCNobody
    PROGRAM_STORAGE_OWNER <- MCStorage
    NoCaller <- MCNoCaller
    PRIZE = 1
    MAX_MINT_AMOUNT = 100
    MAX_NUMBER_CHAINED_CALLS = 10
    PrivateId <- MCPrivateId
    TOKEN <- MCToken
    AMM <- MCAmm
    ATA <- MCAta
    AUTHENTICATED_TRANSFER <- MCAuthenticatedTransfer
    VAULT <- MCVault
    FAUCET <- MCFaucet
    BRIDGE <- MCBridge
    PINATA <- MCPinata
    PINATA_TOKEN <- MCPinataToken
    CLOCK <- MCClock
    BRIDGE_LOCK <- MCBridgeLock
    OUTBOX <- MCOutbox
    INBOX <- MCInbox
    WRAPPED_TOKEN <- MCWrappedToken
    PING_SENDER <- MCPingSender
    PING_RECEIVER <- MCPingReceiver
    STAKE <- MCSequencerStake
    PinataId <- MCPinataId
    World <- MCWorld
CHECK_DEADLOCK FALSE
PROPERTIES
    EffectIsAsked
    ResultsAreDecoded
