-------------------------------- MODULE Zones --------------------------------
(***************************************************************************)
(* Zones at work: users call the built-in programs, each sequencer mints   *)
(* L1 deposits, delivers messages of peer zones, finalizes unstake         *)
(* requests and ticks the clock (apply_mempool_transaction and             *)
(* build_block_from_mempool in lez/sequencer/core), and keeps the L1       *)
(* committee in step with the stakes (committee_discovery.rs).             *)
(*                                                                         *)
(* A scenario is a set of zones with their configuration, the transactions *)
(* already applied, and the inputs that may come; an execution stays in    *)
(* the scenario it starts in.  A transaction that is refused changes       *)
(* nothing, so only the accepted ones are steps.                           *)
(***************************************************************************)
EXTENDS Programs

-----------------------------------------------------------------------------
(***************************************************************************)
(* The state a zone starts in (lez/testnet_initial_state,                  *)
(* lez/system_accounts), the genesis transactions that follow              *)
(* (build_genesis_state in lez/sequencer/core), and the transactions that  *)
(* a sequencer builds itself.                                              *)
(*                                                                         *)
(* config: [zone, genesis, bootstrap, peers], with genesis a sequence of   *)
(* actions, bootstrap the creator's own stake and peers a set of           *)
(* [zone, src, target] routes.                                             *)
(***************************************************************************)

CONSTANTS
    UserAccounts,                       \* initial_public_user_accounts: id -> balance
    DEFAULT_MINIMUM_SEQUENCER_STAKE,
    GENESIS_STAKE_FUNDING               \* the account of GENESIS_STAKE_FUNDING_KEY

FaucetId == Pda(FAUCET, FaucetSeed)
BridgeId == Pda(BRIDGE, BridgeSeed)
StakeConfigId == Pda(STAKE, StakeConfigSeed)
VaultOf(owner) == Pda(VAULT, OwnerVaultSeed(owner))

Owned(owner, balance, data) ==
    [program_owner |-> owner, balance |-> balance, data |-> data, nonce |-> 0]

faucet_account == Owned(AUTHENTICATED_TRANSFER, MaxBalance, NoData)

bridge_account == Owned(AUTHENTICATED_TRANSFER, 0, NoData)

clock_account == Owned(CLOCK, 0, ClockData(0, 0))

sequencer_stake_config_account == Owned(STAKE, 0, StakeConfig(DEFAULT_MINIMUM_SEQUENCER_STAKE, <<>>))

ClockIds == {CLOCK_PROGRAM_ACCOUNT_IDS[i] : i \in 1..3}

initial_public_accounts ==
    [id \in DOMAIN UserAccounts \cup {FaucetId, BridgeId, StakeConfigId} \cup ClockIds |->
        CASE id = FaucetId      -> faucet_account
          [] id = BridgeId      -> bridge_account
          [] id = StakeConfigId -> sequencer_stake_config_account
          [] id \in ClockIds    -> clock_account
          [] OTHER              -> Owned(AUTHENTICATED_TRANSFER, UserAccounts[id], NoData)]

-----------------------------------------------------------------------------

\* GenesisAction
SupplyAccount(id, balance) == [type |-> "SupplyAccount", id |-> id, balance |-> balance]
SupplyBridgeAccount(balance) == [type |-> "SupplyBridgeAccount", balance |-> balance]
SupplyBridgeLockHolding(holder, amount) ==
    [type |-> "SupplyBridgeLockHolding", holder |-> holder, amount |-> amount]
StakeSequencer(key, owner) == [type |-> "StakeSequencer", key |-> key, owner |-> owner]

Of(genesis, kinds) == SelectSeq(genesis, LAMBDA a : a.type \in kinds)

Mapped(Op(_), s) == [i \in 1..Len(s) |-> Op(s[i])]

\* The accounts seeded outside any transaction.
build_initial_state(config) ==
    LET held == Of(config.genesis, {"SupplyBridgeLockHolding"})
    IN  Overwrite(initial_public_accounts,
                  [id \in {held[i].holder : i \in 1..Len(held)} |->
                      Owned(BRIDGE_LOCK, held[CHOOSE i \in 1..Len(held) : held[i].holder = id].amount, NoData)])

\* genesis_public_tx for a config account
InitConfig(program, instruction) == Message(program, <<Pda(program, ConfigSeed)>>, {}, instruction)

\* The sources a target accepts are the operator's routes to it.
Sources(config, target) ==
    {<<r.zone, r.src>> : r \in {q \in config.peers : q.target = target}}

build_wrapped_token_init_config_tx(config) ==
    InitConfig(WRAPPED_TOKEN,
               [op |-> "WrappedInit", deliverer |-> INBOX, sources |-> Sources(config, WRAPPED_TOKEN)])

build_ping_receiver_init_config_tx(config) ==
    InitConfig(PING_RECEIVER,
               [op |-> "ReceiverInit", deliverer |-> INBOX, sources |-> Sources(config, PING_RECEIVER)])

build_ping_sender_init_config_tx ==
    InitConfig(PING_SENDER, [op |-> "SenderInit", outbox_program_id |-> OUTBOX])

build_bridge_lock_init_config_tx ==
    InitConfig(BRIDGE_LOCK, [op |-> "BridgeLockInit", outbox_program_id |-> OUTBOX,
                             target_program_id |-> WRAPPED_TOKEN])

build_inbox_init_config_tx(config) == InitConfig(INBOX, [op |-> "InboxInit", self_zone |-> config.zone])

\* SupplyAccount goes through the recipient's vault.
build_supply_account_genesis_transaction(a) ==
    Message(FAUCET, <<FaucetId, VaultOf(a.id)>>, {},
            [op |-> "GenesisTransferVault", vault_program_id |-> VAULT, recipient_id |-> a.id,
             amount |-> a.balance])

build_supply_bridge_account_genesis_transaction(a) ==
    Message(FAUCET, <<FaucetId, BridgeId>>, {}, [op |-> "GenesisTransferDirect", amount |-> a.balance])

\* The exact message that a founding sequencer signs.
genesis_stake_message(a) ==
    Message(STAKE, <<GENESIS_STAKE_FUNDING, a.owner, StakeConfigId>>, {GENESIS_STAKE_FUNDING, a.owner},
            [op |-> "Stake", sequencer_key |-> a.key, amount |-> DEFAULT_MINIMUM_SEQUENCER_STAKE,
             mover_program_id |-> AUTHENTICATED_TRANSFER,
             mover_instruction |-> [op |-> "Transfer", amount |-> DEFAULT_MINIMUM_SEQUENCER_STAKE]])

\* The faucet pays the funding account, which signs for being claimed.
build_stake_genesis_transactions(staked) ==
    IF staked = <<>> THEN <<>>
    ELSE <<Message(FAUCET, <<FaucetId, GENESIS_STAKE_FUNDING>>, {GENESIS_STAKE_FUNDING},
                   [op |-> "GenesisTransferDirect",
                    amount |-> DEFAULT_MINIMUM_SEQUENCER_STAKE * Len(staked)])>>
         \o Mapped(genesis_stake_message, staked)

founding_stakes(config) == Of(config.genesis, {"StakeSequencer"})

\* The accredited keys of a new channel; without founders it is its creator's alone.
founding_committee(config) ==
    {founding_stakes(config)[i].key : i \in 1..Len(founding_stakes(config))} \cup {config.bootstrap.key}

clock_invocation(timestamp) ==
    Message(CLOCK, CLOCK_PROGRAM_ACCOUNT_IDS, {}, [op |-> "Tick", timestamp |-> timestamp])

\* The transactions of the genesis block, in order.  The creator stakes itself
\* if no founders are configured.
GenesisTransactions(config) ==
    <<build_wrapped_token_init_config_tx(config), build_ping_sender_init_config_tx,
      build_ping_receiver_init_config_tx(config), build_bridge_lock_init_config_tx>>
    \o (IF config.peers = {} THEN <<>> ELSE <<build_inbox_init_config_tx(config)>>)
    \o Mapped(LAMBDA a : IF a.type = "SupplyAccount" THEN build_supply_account_genesis_transaction(a)
                         ELSE build_supply_bridge_account_genesis_transaction(a),
              Of(config.genesis, {"SupplyAccount", "SupplyBridgeAccount"}))
    \o build_stake_genesis_transactions(IF founding_stakes(config) = <<>> THEN <<config.bootstrap>>
                                        ELSE founding_stakes(config))
    \o <<clock_invocation(0)>>

\* The state after a sequence of transactions.
RECURSIVE Replayed(_, _)
Replayed(accounts, txs) ==
    IF txs = <<>> THEN accounts
    ELSE CHOOSE end \in {Replayed(after, Tail(txs)) : after \in {transition(accounts, Head(txs))}} : TRUE

build_genesis_state(config) == Replayed(build_initial_state(config), GenesisTransactions(config))

-----------------------------------------------------------------------------

\* A finalized L1 deposit: [op_id, recipient, amount].
build_bridge_deposit_tx_from_event(event) ==
    Message(BRIDGE, <<BridgeId, VaultOf(event.recipient), Pda(BRIDGE, ReceiptSeed(event.op_id))>>, {},
            [op |-> "Deposit", l1_deposit_op_id |-> event.op_id, vault_program_id |-> VAULT,
             recipient_id |-> event.recipient, amount |-> event.amount])

build_finalize_unstake_tx(ownership_id, pending) ==
    Message(STAKE, <<ownership_id, pending.destination, StakeConfigId>>, {}, [op |-> "FinalizeUnstake"])

\* Whether a transaction emits, and the emission's fields with their source.
extract_emission(tx) == tx.instruction.op \in {"Send", "Lock"} /\ tx.program \in {PING_SENDER, BRIDGE_LOCK}

\* source: [src_zone, src_block_id, src_block_hash, src_tx_index]
build_dispatch_from_emission(source, tx) ==
    Message(INBOX,
            <<Pda(INBOX, ConfigSeed),
              Pda(INBOX, SeenShardSeed(source.src_zone, source.src_block_id)),
              Pda(INBOX, SourceMarkerSeed(source.src_zone, tx.program))>> \o tx.instruction.target_accounts,
            {},
            [op |-> "Dispatch",
             msg |-> [src_zone |-> source.src_zone, src_block_id |-> source.src_block_id,
                      src_block_hash |-> source.src_block_hash, src_tx_index |-> source.src_tx_index,
                      src_program_id |-> tx.program,
                      target_program_id |-> tx.instruction.target_program_id,
                      payload |-> tx.instruction.payload]])

-----------------------------------------------------------------------------

CONSTANTS
    Scenario,       \* name -> [config, extra, prelude, users, deposits, blocks]
    SequencerKey,   \* the keys that can be staked
    MaxSupply,      \* bound: total supply of a token
    MaxEmitted,     \* bound: messages emitted
    MaxInFlight     \* bound: committee updates on their way to L1

VARIABLES
    world,      \* the scenario
    accounts,   \* zone -> public accounts
    emitted,    \* the emitting transactions, in the order they were applied: [zone, tx]
    live,       \* zone -> the accredited keys of its L1 channel
    inflight    \* zone -> committee updates submitted and neither landed nor lost

vars == <<world, accounts, emitted, live, inflight>>

S == Scenario[world]

\* The accounts after genesis and what happened since.
Start(w, z) ==
    Replayed(Overwrite(Scenario[w].extra[z], build_genesis_state(Scenario[w].config[z])), Scenario[w].prelude[z])

Init ==
    /\ world \in DOMAIN Scenario
    /\ accounts = [z \in DOMAIN S.config |-> Start(world, z)]
    /\ emitted = <<>>
    /\ live = [z \in DOMAIN S.config |-> founding_committee(S.config[z])]
    /\ inflight = [z \in DOMAIN S.config |-> {}]

Supplies(after) ==
    {after[id].data.total_supply : id \in {i \in DOMAIN after : after[i].data.type = "FungibleDefinition"}}

\* The zone's state becomes `after`, within the bounds.
Becomes(z, after) ==
    /\ after # accounts[z]
    /\ \A n \in Supplies(after) : n <= MaxSupply
    /\ accounts' = [accounts EXCEPT ![z] = after]

-----------------------------------------------------------------------------

\* read_config
Entries(z) == accounts[z][StakeConfigId].data.entries

MinimumStake(z) == accounts[z][StakeConfigId].data.minimum_sequencer_stake

\* Read anew for every block; a block built when it cannot be read has neither
\* releases nor a committee update.
live_accredited_sequencer_keys(z) == live[z]

\* The keys with enough stake once every pending release is finalized.
Desired(z) == {k \in DOMAIN Entries(z) : net_stake(Entries(z)[k]) >= MinimumStake(z)}

\* finalize_unstake_is_valid: a full drain waits until the key is not accredited.
finalize_unstake_is_valid(z, ownership_id) ==
    LET own == get(accounts[z], ownership_id).data
    IN  /\ own.type = "StakeRecord"
        /\ own.pending_unstake # NoPending
        /\ own.sequencer_key \in DOMAIN Entries(z)
        => \/ Entries(z)[own.sequencer_key].total_staked # own.pending_unstake.amount
           \/ own.sequencer_key \notin live_accredited_sequencer_keys(z)

\* finalize_unstake_is_includable
Includable(z, tx) ==
    tx.program = STAKE /\ tx.instruction.op = "FinalizeUnstake" =>
        finalize_unstake_is_valid(z, tx.account_ids[1])

validate_doesnt_modify_account(z, diff, id) == id \in DOMAIN diff => diff[id] = accounts[z][id]

\* Nothing but the bridge's balance changes, and that only grows.
validate_bridge_account_modification(z, diff) ==
    BridgeId \in DOMAIN diff =>
        /\ diff[BridgeId] = [accounts[z][BridgeId] EXCEPT !.balance = diff[BridgeId].balance]
        /\ accounts[z][BridgeId].balance < diff[BridgeId].balance

\* validate_on_state
Guarded(z, diff) ==
    /\ \A id \in ClockIds \cup {FaucetId} : validate_doesnt_modify_account(z, diff, id)
    /\ validate_bridge_account_modification(z, diff)

\* apply_mempool_transaction for a transaction of a user.
UserTransaction(z, tx) ==
    /\ tx.program # INBOX
    /\ Includable(z, tx)
    /\ extract_emission(tx) => Len(emitted) < MaxEmitted
    /\ \E m \in {from_public_transaction(accounts[z], tx)} :
          /\ m.ok
          /\ Guarded(z, m.diff)
          /\ Becomes(z, Applied(accounts[z], tx, m))
    /\ emitted' = IF extract_emission(tx) THEN Append(emitted, [zone |-> z, tx |-> tx]) ELSE emitted
    /\ UNCHANGED <<world, live, inflight>>

\* apply_mempool_transaction for a transaction the sequencer built.
SequencerTransaction(z, tx) ==
    /\ Includable(z, tx)
    /\ \E after \in {transition(accounts[z], tx)} : Becomes(z, after)
    /\ UNCHANGED <<world, emitted, live, inflight>>

\* A finalized deposit is minted, from its L1 event or from a redelivery of it.
MintDeposit(z, event) == SequencerTransaction(z, build_bridge_deposit_tx_from_event(event))

\* The block and index of the n-th emission; two share a block.
Source(n) ==
    [src_zone |-> emitted[n].zone, src_block_id |-> (n + 1) \div 2, src_block_hash |-> <<"hash", (n + 1) \div 2>>,
     src_tx_index |-> n % 2]

\* A watcher's delivery, in any order and any number of times, along a route.
Deliver(z, n) ==
    /\ emitted[n].tx.instruction.target_zone = z
    /\ [zone |-> emitted[n].zone, src |-> emitted[n].tx.program,
        target |-> emitted[n].tx.instruction.target_program_id] \in S.config[z].peers
    /\ SequencerTransaction(z, build_dispatch_from_emission(Source(n), emitted[n].tx))

\* build_finalize_unstake_txs: every release that is pending.
FinalizeUnstake(z, k) ==
    /\ k \in DOMAIN Entries(z)
    /\ \E own \in {get(accounts[z], Entries(z)[k].account_id).data} :
          /\ own.type = "StakeRecord" /\ own.pending_unstake # NoPending
          /\ SequencerTransaction(z, build_finalize_unstake_tx(Entries(z)[k].account_id, own.pending_unstake))

\* The transaction that ends every block.
Tick(z) ==
    LET n == accounts[z][ClockId(1)].data.block_id
    IN  /\ n < S.blocks
        /\ SequencerTransaction(z, clock_invocation(n))

-----------------------------------------------------------------------------

\* Mutant: an update is asked for while a key is missing, not while one is too many.
Mutcommittee_update(z) ==
    /\ Desired(z) # {}
    /\ ~(Desired(z) \subseteq live[z])

\* The live committee is not the desired one, which is never empty.
committee_update(z) ==
    /\ Desired(z) # {}
    /\ Desired(z) # live_accredited_sequencer_keys(z)

\* The drive task's arm for it: one more transaction in the sdk's pool.
SubmitChannelConfig(z, new_keys) ==
    /\ inflight' = [inflight EXCEPT ![z] = @ \cup {new_keys}]
    /\ Cardinality(inflight'[z]) <= MaxInFlight

submit_channel_config(z, new_keys) == new_keys # {} /\ SubmitChannelConfig(z, new_keys)

\* submit_committee_update; the cooldown, or a failure, only puts it off.
SubmitCommitteeUpdate(z) ==
    /\ committee_update(z)
    /\ submit_channel_config(z, Desired(z))
    /\ UNCHANGED <<world, accounts, emitted, live>>

\* L1 carries out an update, or never does.
UpdateLands(z, keys) ==
    /\ keys \in inflight[z]
    /\ live' = [live EXCEPT ![z] = keys]
    /\ inflight' = [inflight EXCEPT ![z] = @ \ {keys}]
    /\ UNCHANGED <<world, accounts, emitted>>

UpdateIsLost(z, keys) ==
    /\ keys \in inflight[z]
    /\ inflight' = [inflight EXCEPT ![z] = @ \ {keys}]
    /\ UNCHANGED <<world, accounts, emitted, live>>

Next ==
    \/ \E z \in DOMAIN accounts : \E tx \in S.users[z] : UserTransaction(z, tx)
    \/ \E z \in DOMAIN accounts : \E event \in S.deposits[z] : MintDeposit(z, event)
    \/ \E z \in DOMAIN accounts, n \in 1..Len(emitted) : Deliver(z, n)
    \/ \E z \in DOMAIN accounts, k \in SequencerKey : FinalizeUnstake(z, k)
    \/ \E z \in DOMAIN accounts : Tick(z)
    \/ \E z \in DOMAIN accounts : SubmitCommitteeUpdate(z)
    \/ \E z \in DOMAIN accounts : \E keys \in inflight[z] : UpdateLands(z, keys)
    \/ \E z \in DOMAIN accounts : \E keys \in inflight[z] : UpdateIsLost(z, keys)

\* A sequencer asks again in every block, and L1 carries out an update that is
\* asked for again and again.
Fairness ==
    /\ WF_vars(\E z \in DOMAIN accounts : SubmitCommitteeUpdate(z))
    /\ \A keys \in SUBSET SequencerKey : SF_vars(\E z \in DOMAIN accounts : UpdateLands(z, keys))

Spec == Init /\ [][Next]_vars /\ Fairness

-----------------------------------------------------------------------------

\* The accounts of zone z that a program owns with data of a kind.
Kept(z, program, kind) ==
    {id \in DOMAIN accounts[z] : accounts[z][id].program_owner = program /\ accounts[z][id].data.type = kind}

Content(z, id) == accounts[z][id].data

Total(z, ids, Value(_)) == MapThenSumSet(LAMBDA id : Value(Content(z, id)), ids)

HeldOf(z, kind, def) == {id \in Kept(z, TOKEN, kind) : Content(z, id).definition_id = def}

\* What a token definition says exists is what its holders have, whichever way
\* transfers, mints, burns, prints, associated accounts and pools moved it.  A
\* non-fungible token has its unprinted copies with the masters and its printed
\* ones with their owners (token transfer, mint, burn and print_nft).
SupplyIsHeld ==
    \A z \in DOMAIN accounts :
        /\ \A def \in Kept(z, TOKEN, "FungibleDefinition") :
              Content(z, def).total_supply = Total(z, HeldOf(z, "Fungible", def), LAMBDA d : d.balance)
        /\ \A def \in Kept(z, TOKEN, "NonFungibleDefinition") :
              Content(z, def).printable_supply =
                  Total(z, HeldOf(z, "NftMaster", def), LAMBDA d : d.print_balance)
                  + Cardinality({id \in HeldOf(z, "NftPrintedCopy", def) : Content(z, id).owned})

\* A pool's vaults hold its reserves and its liquidity tokens never outnumber its
\* shares, also after tokens were sent to a vault or liquidity tokens burned
\* without the pool's knowledge, and after the pool was drained and set up anew.
PoolIsCovered ==
    \A z \in DOMAIN accounts : \A id \in Kept(z, AMM, "Pool") :
        LET p == Content(z, id)
        IN  /\ Content(z, p.vault_a_id).balance >= p.reserve_a
            /\ Content(z, p.vault_b_id).balance >= p.reserve_b
            /\ Content(z, p.liquidity_pool_id).total_supply <= p.liquidity_pool_supply
            /\ p.active <=> p.liquidity_pool_supply > 0

\* No swap, deposit or withdrawal of one user makes the shares of the others worth
\* less: the product of the reserves per squared share does not fall, so every
\* rounding is in favour of the pool (swap_logic, exact_output_swap_logic,
\* add_liquidity, remove_liquidity).
ShareValueNeverDrops ==
    [][\A z \in DOMAIN accounts : \A id \in Kept(z, AMM, "Pool") :
          LET p == accounts[z][id].data
              q == accounts'[z][id].data
          IN  p.active /\ q.active =>
                  q.reserve_a * q.reserve_b * p.liquidity_pool_supply * p.liquidity_pool_supply
                  >= p.reserve_a * p.reserve_b * q.liquidity_pool_supply * q.liquidity_pool_supply]_vars

\* The bridge pays for a deposit once, however often the deposit is delivered: it
\* loses balance only in the step that leaves the receipt of a deposit that had
\* none, by that deposit's amount and to its recipient's vault, and a receipt stays.
DepositIsMintedOnce ==
    [][\A z \in DOMAIN accounts :
          LET Receipt(e) == Pda(BRIDGE, ReceiptSeed(e.op_id))
              Exists(all, e) == get(all, Receipt(e)) # DefaultAccount
              Balance(all, id) == get(all, id).balance
              now  == accounts[z]
              then == accounts'[z]
          IN  /\ \A e \in S.deposits[z] : Exists(now, e) => Exists(then, e)
              /\ Balance(then, BridgeId) < Balance(now, BridgeId) =>
                    \E e \in S.deposits[z] :
                        /\ ~Exists(now, e) /\ Exists(then, e)
                        /\ Balance(now, BridgeId) = Balance(then, BridgeId) + e.amount
                        /\ Balance(then, VaultOf(e.recipient)) = Balance(now, VaultOf(e.recipient)) + e.amount]_vars

Locks(z, target) ==
    {n \in 1..Len(emitted) : /\ emitted[n].zone = z
                             /\ emitted[n].tx.program = BRIDGE_LOCK
                             /\ emitted[n].tx.instruction.target_zone = target}

IsDelivered(z, n) ==
    Source(n).src_tx_index \in
        Delivered(get(accounts[z], Pda(INBOX, SeenShardSeed(Source(n).src_zone, Source(n).src_block_id))).data)

\* Wrapped tokens exist for what was locked in another zone and for nothing else:
\* a zone's escrow holds what its locks say, and what is wrapped in a zone is the
\* sum of the locks delivered to it, each counted once however often and in
\* whatever order it was delivered (lock, dispatch, wrapped mint).
WrappedIsEscrowed ==
    \A z \in DOMAIN accounts :
        /\ get(accounts[z], Pda(BRIDGE_LOCK, EscrowSeed)).balance =
              MapThenSumSet(LAMBDA n : emitted[n].tx.instruction.amount, UNION {Locks(z, t) : t \in DOMAIN accounts})
        /\ Total(z, Kept(z, WRAPPED_TOKEN, "WrappedBalance"), LAMBDA d : d.amount) =
              MapThenSumSet(LAMBDA n : emitted[n].tx.instruction.amount,
                            {n \in UNION {Locks(t, z) : t \in DOMAIN accounts} : IsDelivered(z, n)})

\* Every tracked stake is really there: the key's ownership account backs that key
\* alone, holds at least the tracked stake, and its pending release is the one the
\* tracked total counts; the stake is at least the minimum, before and after the
\* release unless it drains the key.  No release is pending for an account that
\* backs nothing (sequencer_stake).
StakeIsBacked ==
    \A z \in DOMAIN accounts :
        /\ \A k \in DOMAIN Entries(z) :
              LET e    == Entries(z)[k]
                  own  == get(accounts[z], e.account_id)
              IN  /\ own.program_owner = STAKE /\ own.data.type = "StakeRecord"
                  /\ own.data.sequencer_key = k
                  /\ own.balance >= e.total_staked
                  /\ e.total_pending_unstake =
                        IF own.data.pending_unstake = NoPending THEN 0 ELSE own.data.pending_unstake.amount
                  /\ e.total_staked >= MinimumStake(z)
                  /\ e.total_staked - e.total_pending_unstake \notin 1..(MinimumStake(z) - 1)
        /\ \A id \in Kept(z, STAKE, "StakeRecord") :
              Content(z, id).pending_unstake # NoPending =>
                  /\ Content(z, id).sequencer_key \in DOMAIN Entries(z)
                  /\ Entries(z)[Content(z, id).sequencer_key].account_id = id

\* The slow clocks show what the fast one showed at the last multiple of their
\* divisor, whatever users sent in between.
ClocksAgree ==
    \A z \in DOMAIN accounts, divisor \in {1, 10, 50} :
        LET fast == accounts[z][ClockId(1)].data.block_id
            slow == accounts[z][ClockId(divisor)].data
        IN  /\ slow.block_id = fast - (fast % divisor)
            /\ slow.block_id > 0 => slow.timestamp = slow.block_id - 1

\* The books of every zone balance: tokens, pools, wrapped tokens and stakes, and
\* its clocks.
BooksBalance == SupplyIsHeld /\ PoolIsCovered /\ WrappedIsEscrowed /\ StakeIsBacked /\ ClocksAgree

\* Once the stakes stop changing, the L1 committee becomes the staked one and
\* stays so, whatever was lost or delayed on the way; a channel always has a key
\* (committee_update is level-triggered).
CommitteeConverges ==
    \A keys \in SUBSET SequencerKey \ {{}} :
        (<>[](\A z \in DOMAIN accounts : Desired(z) = keys)) =>
            <>[](\A z \in DOMAIN accounts : live[z] = keys)
==============================================================================
