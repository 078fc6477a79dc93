SPECIFICATION Spec
CONSTANTS
    Block <- MCBlock
    Hash <- MCHash
    NoTip = NoTip
    Executes <- MCExecutes
    Msg <- MCMsg
    NoStall = NoStall
    CountMax = 1
    Inscription <- MCInscription
    MaxUpdate = 2
INVARIANTS
    HeadMatchesReplay
    OneValidChain
    RedeliveryIsIdempotent
PROPERTIES
    FinalIsIrreversible
