SPECIFICATION FairSpec
CONSTANTS
    Node = {"n1", "n2"}
    Deposit = {"d1", "d2"}
    World <- MCWorld
    Failure = Failure
    Size <- MCSize
    Stateless <- MCStateless
    SequencerOnly <- MCSequencerOnly
    Mintable <- MCMintable
    Signer <- MCSigner
    Nonce <- MCNonce
    MaxTxSize = 3
    MaxBlockSize = 2
    max_num_tx_in_block = 2
    SEEN_CACHE_CAPACITY = 1
    TX_PUBLISH_CHANNEL_CAPACITY = 1
    PENDING_PUBLISH_CAPACITY = 1
    MAX_CONFIRMATIONS = 2
    MAX_HISTORY_BLOCKS = 2
    GENESIS_BLOCK_ID = 1
    distribution_limit = 2
CHECK_DEADLOCK FALSE
INVARIANTS
    ClientKeepsScore
PROPERTIES
    AcknowledgedIsDecided
    EveryDepositIsMinted
    GossipReachesThePeers
    AnswersAreOneChain
