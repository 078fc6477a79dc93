------------------------------ MODULE MCZones -------------------------------
(***************************************************************************)
(* Scenarios for Zones, one per group of programs: the zones' genesis, the *)
(* transactions applied since, and the inputs that may come.               *)
(***************************************************************************)
EXTENDS Zones

Key(name) == <<"key", name>>

MCPda(p, s) == <<"pda", p, s>>

MCToken == <<"program", "token">>
MCAmm == <<"program", "amm">>
MCAta == <<"program", "ata">>
MCAuthenticatedTransfer == <<"program", "authenticated_transfer">>
MCVault == <<"program", "vault">>
MCFaucet == <<"program", "faucet">>
MCBridge == <<"program", "bridge">>
MCPinata == <<"program", "pinata">>
MCPinataToken == <<"program", "pinata_token">>
MCClock == <<"program", "clock">>
MCBridgeLock == <<"program", "bridge_lock">>
MCOutbox == <<"program", "outbox">>
MCInbox == <<"program", "inbox">>
MCWrappedToken == <<"program", "wrapped_token">>
MCPingSender == <<"program", "ping_sender">>
MCPingReceiver == <<"program", "ping_receiver">>
MCSequencerStake == <<"program", "stake">>

MCProgramId ==
    {MCToken, MCAmm, MCAta, MCAuthenticatedTransfer, MCVault, MCFaucet, MCBridge, MCPinata, MCPinataToken,
     MCClock, MCBridgeLock, MCOutbox, MCInbox, MCWrappedToken, MCPingSender, MCPingReceiver, MCSequencerStake}

MCSigner ==
    {Key(n) : n \in {"alice", "bob", "holder", "funding", "owner1", "owner2", "gold", "silver", "art",
                     "g1", "g2", "s1", "lp", "meta", "m1", "m2", "c1", "c2"}}

MCNoData == [type |-> "none"]
MCElf(p) == [type |-> "elf"]
MCData == {MCNoData, [type |-> "elf"]}
MCNobody == <<"nobody">>
MCStorage == <<"storage">>
MCNoCaller == <<"user">>
MCFunding == Key("funding")

Alice == Key("alice")
Bob == Key("bob")

MCUserAccounts == (Alice :> 3) @@ (Bob :> 0)

Z == {"z1"}

Config(zone, genesis, peers) ==
    [zone |-> zone, genesis |-> genesis, peers |-> peers,
     bootstrap |-> StakeSequencer("k1", Key("owner1"))]

\* One zone without peers.
OneZone(genesis, extra, prelude, users, deposits, blocks) ==
    [config |-> [z \in Z |-> Config(z, genesis, {})], extra |-> [z \in Z |-> extra],
     prelude |-> [z \in Z |-> prelude], users |-> [z \in Z |-> users],
     deposits |-> [z \in Z |-> deposits], blocks |-> blocks]

-----------------------------------------------------------------------------

Transfer(amount) == [op |-> "Transfer", amount |-> amount]

Pay(from, to, amount) == Message(AUTHENTICATED_TRANSFER, <<from, to>>, {from}, Transfer(amount))

\* Native balance: supply through the faucet, deposits, vaults and transfers.
NativeWorld ==
    OneZone(<<SupplyAccount(Bob, 1), SupplyBridgeAccount(4)>>, <<>>, <<>>,
            {Pay(Alice, Bob, 1), Pay(Alice, BridgeId, 1),
             Message(AUTHENTICATED_TRANSFER, <<Key("holder")>>, {Key("holder")}, [op |-> "Initialize"]),
             Message(VAULT, <<Bob, VaultOf(Bob)>>, {Bob}, [op |-> "Claim", amount |-> 1]),
             Message(VAULT, <<Alice, VaultOf(Bob)>>, {Alice},
                     [op |-> "VaultTransfer", recipient_id |-> Bob, amount |-> 1])},
            {[op_id |-> "d1", recipient |-> Bob, amount |-> 1],
             [op_id |-> "d2", recipient |-> Alice, amount |-> 2]}, 2)

\* The clock alone, past the first reading of its slowest account.
ClockWorld == OneZone(<<>>, <<>>, <<>>, {}, {}, 51)

-----------------------------------------------------------------------------

Call2(x, y, signers, ins) == Message(TOKEN, <<x, y>>, signers, ins)

Gold == Key("gold")
Silver == Key("silver")
G1 == Key("g1")
G2 == Key("g2")

NewToken(def, holding, supply) ==
    Call2(def, holding, {def, holding}, [op |-> "NewFungibleDefinition", total_supply |-> supply])

AliceAta == MCPda(MCAta, AtaSeed(Alice, Gold))

Ata(third, signers, op, amount) ==
    Message(ATA, IF op = "Create" THEN <<Alice, third, AliceAta>> ELSE <<Alice, AliceAta, third>>, signers,
            [op |-> op, ata_program_id |-> MCAta, amount |-> amount])

\* A fungible token in key-held and associated accounts.
TokenWorld ==
    OneZone(<<>>, <<>>,
            <<NewToken(Gold, G1, 2), Call2(Gold, G2, {G2}, [op |-> "InitializeAccount"]), Pay(Alice, Bob, 1)>>,
            {Call2(Gold, G2, {Gold}, [op |-> "Mint", amount |-> 1]),
             Call2(G1, G2, {G1}, Transfer(1)), Call2(G2, G1, {G2}, Transfer(2)),
             Call2(G1, AliceAta, {G1}, Transfer(1)),
             Call2(Gold, G1, {G1}, [op |-> "Burn", amount |-> 1]),
             Ata(Gold, {}, "Create", 0), Ata(G2, {Alice}, "AtaTransfer", 1), Ata(Gold, {Alice}, "AtaBurn", 1)},
            {}, 0)

Art == Key("art")
M1 == Key("m1")
M2 == Key("m2")
C1 == Key("c1")
C2 == Key("c2")

\* A non-fungible token: its master, printed copies, and a second definition
\* with metadata.
NftWorld ==
    OneZone(<<>>, <<>>,
            <<Message(TOKEN, <<Art, M1, Key("meta")>>, {Art, M1, Key("meta")},
                      [op |-> "NewDefinitionWithMetadata", kind |-> "NonFungible", supply |-> 3]),
              Message(TOKEN, <<Gold, G1, G2>>, {Gold, G1, G2},
                      [op |-> "NewDefinitionWithMetadata", kind |-> "Fungible", supply |-> 1])>>,
            {Call2(M1, C1, {M1, C1}, [op |-> "PrintNft"]), Call2(M2, C2, {M2, C2}, [op |-> "PrintNft"]),
             Call2(C1, C2, {C1, C2}, Transfer(1)), Call2(C2, C1, {C2}, Transfer(1)),
             Call2(Art, C2, {C2}, [op |-> "InitializeAccount"]),
             Call2(Art, M1, {M1}, [op |-> "Burn", amount |-> 1]),
             Call2(Art, C1, {C1}, [op |-> "Burn", amount |-> 1])}
            \cup {Call2(M1, M2, {M1, M2}, Transfer(n)) : n \in 1..3}
            \cup {Call2(M2, M1, {M2}, Transfer(n)) : n \in 1..3},
            {}, 0)

PinataId == Key("pinata")
PinataTokenId == Key("pinata token")

\* The pinata of the development profile and its counterpart for tokens.
PinataWorld ==
    OneZone(<<>>,
            (PinataId :> Owned(MCPinata, 2, Challenge(0))) @@ (PinataTokenId :> Owned(MCPinataToken, 0, Challenge(0)))
            @@ (MCPda(MCPinataToken, PinataTokenSeed) :> Owned(MCToken, 0, Fungible(Gold, 2)))
            @@ (Gold :> Owned(MCToken, 0, FungibleDefinition(2, NoMetadata)))
            @@ (G1 :> Owned(MCToken, 0, Fungible(Gold, 0))),
            <<>>,
            UNION {{Message(PINATA, <<PinataId, Alice>>, {}, [op |-> "Solve", solution |-> n]),
                    Message(PINATA_TOKEN, <<PinataTokenId, MCPda(MCPinataToken, PinataTokenSeed), G1>>, {},
                            [op |-> "Solve", solution |-> n])} : n \in 0..2},
            {}, 0)

-----------------------------------------------------------------------------

S1 == Key("s1")
Lp == Key("lp")
PoolId == MCPda(MCAmm, PoolSeed(Gold, Silver))
VaultA == MCPda(MCAmm, VaultSeed(PoolId, Gold))
VaultB == MCPda(MCAmm, VaultSeed(PoolId, Silver))
LpDef == MCPda(MCAmm, LiquiditySeed(PoolId))

Liquidity(ins) == Message(AMM, <<PoolId, VaultA, VaultB, LpDef, G1, S1, Lp>>, {G1, S1, Lp}, ins)

SwapMsg(ins) == Message(AMM, <<PoolId, VaultA, VaultB, G1, S1>>, {G1, S1}, ins)

Add(a, b) == Liquidity([op |-> "AddLiquidity", min_amount_liquidity |-> 1, max_a |-> a, max_b |-> b])
Remove(n) == Liquidity([op |-> "RemoveLiquidity", amount |-> n, min_a |-> 1, min_b |-> 1])
SwapIn(t, n) == SwapMsg([op |-> "SwapExactInput", amount |-> n, min_out |-> 1, token_in |-> t])
SwapOut(t, n) == SwapMsg([op |-> "SwapExactOutput", amount |-> n, max_in |-> 4, token_in |-> t])

\* A pool: created, used, drained and created again; with tokens sent straight to
\* a vault and liquidity tokens burned outside the pool.
AmmWorld ==
    OneZone(<<>>, <<>>, <<NewToken(Gold, G1, 8), NewToken(Silver, S1, 8)>>,
            {Liquidity([op |-> "NewDefinition", token_a_amount |-> 2, token_b_amount |-> 4,
                        amm_program_id |-> MCAmm]),
             Add(2, 3), Remove(1), Remove(2), SwapIn(Gold, 1), SwapIn(Silver, 3), SwapOut(Gold, 1),
             SwapOut(Silver, 1), Call2(G1, VaultA, {G1}, Transfer(1)),
             Call2(LpDef, Lp, {Lp}, [op |-> "Burn", amount |-> 1])},
            {}, 0)

-----------------------------------------------------------------------------

Route(src, target) == [zone |-> "z1", src |-> src, target |-> target]

Lock(amount, minted, ordinal) ==
    Message(BRIDGE_LOCK,
            <<MCPda(MCBridgeLock, ConfigSeed), Key("holder"), MCPda(MCBridgeLock, EscrowSeed),
              MCPda(MCOutbox, outbox_pda_seed(MCBridgeLock, "z2", ordinal))>>, {Key("holder")},
            [op |-> "Lock", amount |-> amount, target_zone |-> "z2", target_program_id |-> MCWrappedToken,
             target_accounts |-> <<MCPda(MCWrappedToken, ConfigSeed), MCPda(MCWrappedToken, HoldingSeed(Bob))>>,
             payload |-> [op |-> "WrappedMint", recipient |-> Bob, amount |-> minted], ordinal |-> ordinal])

Send(payload, ordinal) ==
    Message(PING_SENDER,
            <<MCPda(MCPingSender, ConfigSeed), MCPda(MCOutbox, outbox_pda_seed(MCPingSender, "z2", ordinal))>>, {},
            [op |-> "Send", target_zone |-> "z2", target_program_id |-> MCPingReceiver,
             target_accounts |-> <<MCPda(MCPingReceiver, ConfigSeed), MCPda(MCPingReceiver, PingRecordSeed)>>,
             payload |-> [op |-> "Record", payload |-> payload], ordinal |-> ordinal])

\* Two zones, messages from the first to the second.
CrossZoneWorld ==
    [config |-> [z \in {"z1", "z2"} |->
        IF z = "z1" THEN Config(z, <<SupplyBridgeLockHolding(Key("holder"), 3)>>, {})
        ELSE Config(z, <<>>, {Route(MCBridgeLock, MCWrappedToken), Route(MCPingSender, MCPingReceiver)})],
     extra |-> [z \in {"z1", "z2"} |-> <<>>], prelude |-> [z \in {"z1", "z2"} |-> <<>>],
     users |-> [z \in {"z1", "z2"} |->
        IF z = "z1" THEN {Lock(1, 1, 0), Lock(2, 2, 1), Lock(1, 2, 1), Send("ping", 0), Send("pong", 1)} ELSE {}],
     deposits |-> [z \in {"z1", "z2"} |-> {}], blocks |-> 0]

-----------------------------------------------------------------------------

Stake(key, owner, amount, moved) ==
    Message(STAKE, <<Alice, owner, StakeConfigId>>, {Alice, owner},
            [op |-> "Stake", sequencer_key |-> key, amount |-> amount,
             mover_program_id |-> MCAuthenticatedTransfer, mover_instruction |-> Transfer(moved)])

Unstake(owner, amount) ==
    Message(STAKE, <<owner, StakeConfigId>>, {owner},
            [op |-> "UnstakeRequest", amount |-> amount, destination |-> Alice])

Finalize(owner) == Message(STAKE, <<owner, Alice, StakeConfigId>>, {}, [op |-> "FinalizeUnstake"])

Owner1 == Key("owner1")
Owner2 == Key("owner2")

\* The creator's stake and a second key's; the stakes meet the minimum or not.
StakeWorld ==
    OneZone(<<>>, <<>>, <<>>,
            {Stake("k2", Owner2, 2, 2), Stake("k2", Owner2, 1, 1), Stake("k1", Owner1, 1, 1),
             Stake("k2", Owner2, 2, 1), Stake("k2", Owner1, 2, 2), Stake("k1", Owner2, 2, 2),
             Pay(Alice, Owner1, 1), Finalize(Owner1), Finalize(Owner2)}
            \cup {Unstake(o, n) : o \in {Owner1, Owner2}, n \in 1..2},
            {}, 0)

-----------------------------------------------------------------------------

MCScenario ==
    ("native" :> NativeWorld) @@ ("clock" :> ClockWorld) @@ ("token" :> TokenWorld) @@ ("nft" :> NftWorld)
    @@ ("pinata" :> PinataWorld) @@ ("amm" :> AmmWorld) @@ ("crosszone" :> CrossZoneWorld)
    @@ ("stake" :> StakeWorld)

MCSeed ==
    {FaucetSeed, BridgeSeed, StakeConfigSeed, ConfigSeed, EscrowSeed, PingRecordSeed, PinataTokenSeed,
     AtaSeed(Alice, Gold), PoolSeed(Gold, Silver), VaultSeed(PoolId, Gold), VaultSeed(PoolId, Silver),
     LiquiditySeed(PoolId), HoldingSeed(Bob)}
    \cup {OwnerVaultSeed(id) : id \in {Alice, Bob}}
    \cup {ReceiptSeed(d) : d \in {"d1", "d2"}}
    \cup {outbox_pda_seed(p, "z2", n) : p \in {MCBridgeLock, MCPingSender}, n \in 0..1}
    \cup {SeenShardSeed("z1", n) : n \in 1..2}
    \cup {SourceMarkerSeed("z1", p) : p \in {MCBridgeLock, MCPingSender}}

MCAccountId ==
    MCProgramId \cup MCSigner \cup {MCPda(p, s) : p \in MCProgramId, s \in MCSeed}

\* build_genesis_state expects every genesis transaction to be accepted, and the
\* transactions applied since were.
ASSUME EveryTransactionApplies ==
    \A w \in DOMAIN MCScenario : \A z \in DOMAIN MCScenario[w].config :
        LET config == MCScenario[w].config[z]
            start  == Overwrite(MCScenario[w].extra[z], build_initial_state(config))
            txs    == GenesisTransactions(config) \o MCScenario[w].prelude[z]
        IN  \A n \in 1..Len(txs) : from_public_transaction(Replayed(start, SubSeq(txs, 1, n - 1)), txs[n]).ok
=============================================================================
