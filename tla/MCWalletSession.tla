-------------------------- MODULE MCWalletSession ---------------------------
(***************************************************************************)
(* Worlds for WalletSession, one per group of commands: the accounts on    *)
(* the ledger, what the wallet has of them, and what the user may mention. *)
(***************************************************************************)
EXTENDS WalletSession

Key(name) == <<"key", name>>

Note(name) == <<"private", name>>

MCPda(p, s) == <<"pda", p, s>>

MCToken == <<"program", "token">>
MCAmm == <<"program", "amm">>
MCAta == <<"program", "ata">>
MCAuthenticatedTransfer == <<"program", "authenticated_transfer">>
MCVault == <<"program", "vault">>
MCBridge == <<"program", "bridge">>
MCPinata == <<"program", "pinata">>
MCOther(name) == <<"program", name>>
MCFaucet == MCOther("faucet")
MCPinataToken == MCOther("pinata_token")
MCClock == MCOther("clock")
MCBridgeLock == MCOther("bridge_lock")
MCOutbox == MCOther("outbox")
MCInbox == MCOther("inbox")
MCWrappedToken == MCOther("wrapped_token")
MCPingSender == MCOther("ping_sender")
MCPingReceiver == MCOther("ping_receiver")
MCSequencerStake == MCOther("stake")

MCNoData == [type |-> "none"]
MCElf(p) == [type |-> "elf"]
MCNobody == <<"nobody">>
MCStorage == <<"storage">>
MCNoCaller == <<"user">>
MCPinataId == Key("pinata")

\* Accounts: keys of the wallet, a key of its card, somebody else's; private
\* accounts of its tree, one shared with a group, somebody else's.
Alice == Key("alice")
Bob == Key("bob")
Card == Key("card")
Stranger == Key("stranger")
Own == Note("own")
Fresh == Note("fresh")
Shared == Note("shared")
Foreign == Note("foreign")

MCPrivateId == {Own, Fresh, Shared, Foreign, Note("gold"), Note("g1"), Note("g2")}

Id(id) == [type |-> "Id", id |-> id]
KeyPath(id) == [type |-> "KeyPath", id |-> id]
Keys(id) == [type |-> "Keys", id |-> id]
BadKeys == [type |-> "BadKeys", id |-> Foreign]

AccountOf(owner, balance, data, n) ==
    [program_owner |-> owner, balance |-> balance, data |-> data, nonce |-> n]

Native(balance, n) == AccountOf(MCAuthenticatedTransfer, balance, MCNoData, n)

VaultId(owner) == MCPda(MCVault, OwnerVaultSeed(owner))

\* The wallet's view when it is up to date: keys it signs with, and the private
\* accounts by the way it has them.
UpToDate(accounts, counts, keys, sources) ==
    [keys |-> keys,
     private |-> [id \in DOMAIN sources |->
                    [source |-> sources[id], account |-> get(accounts, id),
                     version |-> IF id \in DOMAIN counts THEN counts[id] ELSE 0]]]

NoInputs ==
    [native |-> {}, token |-> {}, owners |-> {}, definitions |-> {}, holdings |-> {}, keys |-> {},
     amounts |-> {}, calls |-> {}, generic |-> {}, outside |-> {},
     submissions |-> 1]

MakeWorld(accounts, keys, sources, inputs) ==
    LET counts == [id \in DOMAIN accounts |-> accounts[id].nonce]
    IN  [ledger |-> accounts, nonces |-> counts, wallet |-> UpToDate(accounts, counts, keys, sources),
         inputs |-> inputs]

-----------------------------------------------------------------------------

NativeLedger ==
    (Alice :> Native(2, 1)) @@ (Card :> Native(1, 0)) @@ (Stranger :> Native(2, 0))
    @@ (Own :> Native(2, 1)) @@ (Shared :> Native(1, 1))
    @@ (VaultId(Alice) :> Native(1, 0)) @@ (VaultId(Own) :> Native(1, 0))
    @@ (MCPda(MCBridge, BridgeSeed) :> Native(1, 0))
    @@ (MCPinataId :> AccountOf(MCPinata, 2, Challenge(0), 0))

NativeKeys == {Alice, Bob}

NativeSources == (Own :> "PrivateOwned") @@ (Fresh :> "PrivateOwned") @@ (Shared :> "PrivateShared")

\* Somebody pays an account of the wallet, in public or by its keys.
Payments ==
    {PubTx(<<Identity("PublicKeycard", Stranger), Identity("PublicNoSign", Alice)>>,
           [op |-> "Transfer", amount |-> 1], MCAuthenticatedTransfer),
     PrivTx(<<Identity("PublicKeycard", Stranger), Identity("PrivateForeign", Fresh)>>,
            [op |-> "Transfer", amount |-> 1], MCAuthenticatedTransfer)}

NativeWorld ==
    MakeWorld(NativeLedger, NativeKeys, NativeSources,
        [NoInputs EXCEPT !.native = {Id(Alice), Id(Bob), KeyPath(Card), Id(Own), Id(Fresh), Id(Shared)},
                         !.keys = {Keys(Foreign), Keys(Fresh)}, !.amounts = {1, 2}, !.outside = Payments])

\* Commands on top of one another.
TwoWorld ==
    MakeWorld(NativeLedger, NativeKeys, NativeSources,
        [NoInputs EXCEPT !.native = {Id(Alice), Id(Own), Id(Fresh), KeyPath(Card)}, !.calls = {Id(Own), Id(Alice)},
                         !.keys = {Keys(Fresh)}, !.amounts = {1}, !.outside = Payments, !.submissions = 2])

CallWorld ==
    MakeWorld(NativeLedger, NativeKeys, NativeSources,
        [NoInputs EXCEPT !.calls = {Id(Alice), Id(Bob), Id(Card), Id(Own), Id(Fresh)},
                         !.native = {Id(Alice), Id(Own)},
                         !.keys = {Keys(Foreign), BadKeys}, !.amounts = {1}, !.outside = Payments,
                         !.generic =
            {[identities |-> <<Identity("PrivateShared", Shared), Identity("Public", Bob)>>,
              instruction |-> [op |-> "Transfer", amount |-> 1], program |-> MCAuthenticatedTransfer,
              asked |-> Asked(Move("native", Shared, Bob, 1))],
             [identities |-> <<Identity("Public", Alice), Identity("Public", Bob)>>,
              instruction |-> [op |-> "Transfer", amount |-> 1], program |-> MCAuthenticatedTransfer,
              asked |-> Asked(Move("native", Alice, Bob, 1))]}])

-----------------------------------------------------------------------------

Gold == Key("gold")
Silver == Key("silver")
G1 == Key("g1")
G2 == Key("g2")
G3 == Key("g3")
S1 == Key("s1")
S2 == Key("s2")
Lp == Key("lp")
PGold == Note("gold")
P1 == Note("g1")
P2 == Note("g2")

TokenAccount(data, n) == AccountOf(MCToken, 0, data, n)

\* A token with a public definition.
TokenLedger ==
    (Gold :> TokenAccount(FungibleDefinition(4, NoMetadata), 1)) @@ (G1 :> TokenAccount(Fungible(Gold, 2), 0))
    @@ (G3 :> TokenAccount(Fungible(Gold, 1), 0)) @@ (P1 :> TokenAccount(Fungible(Gold, 1), 1))

TokenWorld ==
    MakeWorld(TokenLedger, {Gold, G1, G2}, (P1 :> "PrivateOwned") @@ (P2 :> "PrivateOwned"),
        [NoInputs EXCEPT !.token = {Id(Gold), Id(G1), Id(G2), KeyPath(G3), Id(P1), Id(P2)},
                         !.keys = {Keys(Foreign)}, !.amounts = {1}])

TwoTokenWorld ==
    [TokenWorld EXCEPT !.inputs.token = {Id(Gold), Id(G1), Id(P1), Id(P2)}, !.inputs.submissions = 2]

\* And one with a private definition.
PrivateTokenLedger ==
    (PGold :> TokenAccount(FungibleDefinition(3, NoMetadata), 1)) @@ (P1 :> TokenAccount(Fungible(PGold, 2), 1))
    @@ (G1 :> TokenAccount(Fungible(PGold, 1), 0))

PrivateTokenWorld ==
    MakeWorld(PrivateTokenLedger, {G1, G2},
        (PGold :> "PrivateOwned") @@ (P1 :> "PrivateShared") @@ (P2 :> "PrivatePdaShared"),
        [NoInputs EXCEPT !.token = {Id(PGold), Id(P1), Id(P2), Id(G1), Id(G2)},
                         !.keys = {Keys(Foreign)}, !.amounts = {1}])

NewTokenWorld ==
    MakeWorld(<<>>, {G1, G2}, (P1 :> "PrivateOwned") @@ (P2 :> "PrivateOwned"),
        [NoInputs EXCEPT !.token = {Id(G1), Id(G2), KeyPath(G3), Id(P1), Id(P2)}, !.amounts = {2}])

AtaId(owner) == MCPda(MCAta, AtaSeed(owner, Gold))

AtaWorld ==
    MakeWorld(TokenLedger @@ NativeLedger @@ (AtaId(Alice) :> TokenAccount(Fungible(Gold, 2), 0))
              @@ (AtaId(Own) :> TokenAccount(Fungible(Gold, 1), 0)),
        {Alice, Bob, G1}, (Own :> "PrivateOwned") @@ (Fresh :> "PrivateOwned"),
        [NoInputs EXCEPT !.owners = {Id(Alice), Id(Own), Id(Fresh), KeyPath(Card)}, !.definitions = {Gold},
                         !.holdings = {Id(G1), Id(AtaId(Alice))}, !.amounts = {1, 2}])

-----------------------------------------------------------------------------

Holdings == (G1 :> TokenAccount(Fungible(Gold, 4), 0)) @@ (S1 :> TokenAccount(Fungible(Silver, 5), 0))
    @@ (S2 :> TokenAccount(Fungible(Silver, 4), 0))

NoPool ==
    Holdings @@ (Gold :> TokenAccount(FungibleDefinition(4, NoMetadata), 1))
    @@ (Silver :> TokenAccount(FungibleDefinition(9, NoMetadata), 1))

PoolId == MCPda(MCAmm, PoolSeed(Gold, Silver))

NewPool ==
    Message(MCAmm, <<PoolId, MCPda(MCAmm, VaultSeed(PoolId, Gold)), MCPda(MCAmm, VaultSeed(PoolId, Silver)),
                     MCPda(MCAmm, LiquiditySeed(PoolId)), G1, S2, Lp>>, {G1, S2, Lp},
            [op |-> "NewDefinition", token_a_amount |-> 2, token_b_amount |-> 4, amm_program_id |-> MCAmm])

AmmInputs ==
    [NoInputs EXCEPT !.holdings = {Id(G1), Id(S1), Id(Lp)}, !.definitions = {Gold, Silver}, !.amounts = {1, 2, 4}]

NoPoolWorld == MakeWorld(NoPool, {G1, S1, Lp}, <<>>, AmmInputs)

\* The user's silver is on the card, and has not signed yet.
PoolWorld ==
    MakeWorld(transition(NoPool, NewPool), {G1, Lp}, <<>>,
              [AmmInputs EXCEPT !.holdings = {Id(G1), KeyPath(S1), Id(Lp)}])

MCProgramId ==
    {MCToken, MCAmm, MCAta, MCAuthenticatedTransfer, MCVault, MCFaucet, MCBridge, MCPinata, MCPinataToken,
     MCClock, MCBridgeLock, MCOutbox, MCInbox, MCWrappedToken, MCPingSender, MCPingReceiver, MCSequencerStake}

MCSigner == {Alice, Bob, Card, Stranger, Gold, Silver, G1, G2, G3, S1, S2, Lp}

MCSeed ==
    {BridgeSeed, PoolSeed(Gold, Silver), VaultSeed(PoolId, Gold), VaultSeed(PoolId, Silver), LiquiditySeed(PoolId)}
    \cup {OwnerVaultSeed(id) : id \in MCSigner \cup MCPrivateId}
    \cup {AtaSeed(id, Gold) : id \in MCSigner \cup MCPrivateId}

MCAccountId ==
    MCProgramId \cup MCSigner \cup MCPrivateId \cup {MCPinataId} \cup {MCPda(p, s) : p \in MCProgramId, s \in MCSeed}

MCData == {MCNoData, [type |-> "elf"]}

MCWorld ==
    ("native" :> NativeWorld) @@ ("two" :> TwoWorld) @@ ("calls" :> CallWorld) @@ ("token" :> TokenWorld) @@ ("two tokens" :> TwoTokenWorld)
    @@ ("private token" :> PrivateTokenWorld) @@ ("new token" :> NewTokenWorld) @@ ("ata" :> AtaWorld)
    @@ ("no pool" :> NoPoolWorld) @@ ("pool" :> PoolWorld)
=============================================================================
