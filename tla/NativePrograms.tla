--------------------------- MODULE NativePrograms ----------------------------
(***************************************************************************)
(* The programs that move or guard native balance: authenticated transfer, *)
(* vault, faucet, bridge, pinata and the token pinata, the clock and the   *)
(* sequencer stake, and those a message crosses zones through              *)
(* (lez/programs).                                                         *)
(***************************************************************************)
EXTENDS ProgramIO

CONSTANTS
    PRIZE,      \* what a pinata pays for a solution
    FAUCET, BRIDGE, VAULT, CLOCK    \* program ids

Unchanged(pres) == [i \in 1..Len(pres) |-> Same(pres[i])]

AuthTransfer(program, from, to, amount, seeds) ==
    Call(program, <<from, to>>, [op |-> "Transfer", amount |-> amount], seeds)

\* authenticated_transfer
AuthenticatedTransferProgram(pres, ins) ==
    CASE ins.op = "Initialize" /\ Len(pres) = 1 ->
            Require(pres[1].account = DefaultAccount,
                    Output(<<NewClaimed(pres[1].account, AuthorizedClaim)>>, <<>>))
      [] ins.op = "Transfer" /\ Len(pres) = 2 ->
            Require(/\ pres[1].is_authorized
                    /\ ins.amount <= pres[1].account.balance
                    /\ Fits(pres[2].account.balance + ins.amount),
                    Output(<<New([pres[1].account EXCEPT !.balance = @ - ins.amount]),
                             NewClaimedIfDefault([pres[2].account EXCEPT !.balance = @ + ins.amount],
                                                 AuthorizedClaim)>>, <<>>))
      [] OTHER -> Panic

-----------------------------------------------------------------------------

OwnerVaultSeed(owner) == <<"owner vault", owner>>

\* The callee is the program that owns the account the balance comes from.
VaultProgram(pres, ins) ==
    CASE ins.op = "VaultTransfer" /\ Len(pres) = 2 ->
            Output(Unchanged(pres),
                   <<AuthTransfer(pres[1].account.program_owner, pres[1], Authorize(pres[2]),
                                  ins.amount, {OwnerVaultSeed(ins.recipient_id)})>>)
      [] ins.op = "Claim" /\ Len(pres) = 2 ->
            Require(pres[1].is_authorized,
                    Output(Unchanged(pres),
                           <<AuthTransfer(pres[2].account.program_owner, Authorize(pres[2]), pres[1],
                                          ins.amount, {OwnerVaultSeed(pres[1].account_id)})>>))
      [] OTHER -> Panic

FaucetSeed == <<"faucet">>

VaultTransfer(vault_program, from, vault, recipient, amount, seeds) ==
    Call(vault_program, <<from, vault>>,
         [op |-> "VaultTransfer", recipient_id |-> recipient, amount |-> amount], seeds)

FaucetProgram(caller, pres, ins) ==
    CASE ins.op = "GenesisTransferVault" /\ Len(pres) = 2 ->
            Require(caller = NoCaller /\ pres[1].account_id = Pda(FAUCET, FaucetSeed),
                    Output(Unchanged(pres),
                           <<VaultTransfer(ins.vault_program_id, Authorize(pres[1]), pres[2],
                                           ins.recipient_id, ins.amount, {FaucetSeed})>>))
      [] ins.op = "GenesisTransferDirect" /\ Len(pres) = 2 ->
            Require(caller = NoCaller /\ pres[1].account_id = Pda(FAUCET, FaucetSeed),
                    Output(Unchanged(pres),
                           <<AuthTransfer(pres[1].account.program_owner, Authorize(pres[1]), pres[2],
                                          ins.amount, {FaucetSeed})>>))
      [] OTHER -> Panic

BridgeSeed == <<"bridge">>

ReceiptSeed(op_id) == <<"receipt", op_id>>

\* Mutant: the receipt is looked up but not claimed.
MutReceiptPost(receipt, op_id) == Same(receipt)

\* The receipt's existence is the record that the deposit was minted.
ReceiptPost(receipt, op_id) == NewClaimedIfDefault(receipt.account, ReceiptSeed(op_id))

\* A deposit whose receipt exists changes nothing; withdrawals panic.
BridgeProgram(caller, pres, ins) ==
    CASE ins.op = "Deposit" /\ Len(pres) = 3 ->
            Require(/\ caller = NoCaller
                    /\ pres[1].account_id = Pda(BRIDGE, BridgeSeed)
                    /\ pres[2].account_id = Pda(ins.vault_program_id, OwnerVaultSeed(ins.recipient_id))
                    /\ pres[3].account_id = Pda(BRIDGE, ReceiptSeed(ins.l1_deposit_op_id)),
                    IF pres[3].account # DefaultAccount THEN Output(Unchanged(pres), <<>>)
                    ELSE Output(<<Same(pres[1]), Same(pres[2]), ReceiptPost(pres[3], ins.l1_deposit_op_id)>>,
                                <<VaultTransfer(ins.vault_program_id, Authorize(pres[1]), pres[2],
                                                ins.recipient_id, ins.amount, {BridgeSeed})>>))
      [] OTHER -> Panic

-----------------------------------------------------------------------------

\* A challenge, numbered along the chain of hashes that next_data follows.
Challenge(n) == [type |-> "Challenge", seed |-> n]

\* A solution fits the challenge it was searched for and no other.
validate_solution(challenge, solution) == challenge.type = "Challenge" /\ solution = challenge.seed

next_data(challenge) == [challenge EXCEPT !.seed = @ + 1]

\* Without a valid solution the program ends without output.
PinataProgram(pres, ins) ==
    IF ins.op = "Solve" /\ Len(pres) = 2
    THEN Require(/\ validate_solution(pres[1].account.data, ins.solution)
                 /\ PRIZE <= pres[1].account.balance
                 /\ Fits(pres[2].account.balance + PRIZE),
                 Output(<<NewClaimedIfDefault([pres[1].account EXCEPT !.balance = @ - PRIZE,
                                                                      !.data = next_data(@)],
                                              AuthorizedClaim),
                          New([pres[2].account EXCEPT !.balance = @ + PRIZE])>>, <<>>))
    ELSE Panic

PinataTokenSeed == <<"zeroes">>

PinataTokenProgram(pres, ins) ==
    IF ins.op = "Solve" /\ Len(pres) = 3
    THEN Require(validate_solution(pres[1].account.data, ins.solution),
                 Output(<<New(WithData(pres[1].account, next_data(pres[1].account.data))),
                          Same(pres[2]), Same(pres[3])>>,
                        <<AuthTransfer(pres[2].account.program_owner, Authorize(pres[2]), pres[3],
                                       PRIZE, {PinataTokenSeed})>>))
    ELSE Panic

-----------------------------------------------------------------------------

ClockId(divisor) == <<"clock", divisor>>

CLOCK_PROGRAM_ACCOUNT_IDS == <<ClockId(1), ClockId(10), ClockId(50)>>

ClockData(block_id, timestamp) ==
    [type |-> "Clock", block_id |-> block_id, timestamp |-> timestamp]

\* update_if_multiple
UpdateIfMultiple(pre, data) ==
    IF data.block_id % pre.account_id[2] = 0 THEN New(WithData(pre.account, data)) ELSE Same(pre)

\* The clock counts blocks by its own first account.
ClockProgram(pres, ins) ==
    IF ins.op = "Tick" /\ Len(pres) = 3
    THEN Require(/\ \A i \in 1..3 : /\ pres[i].account_id = CLOCK_PROGRAM_ACCOUNT_IDS[i]
                                    /\ pres[i].account.program_owner = CLOCK
                 /\ pres[1].account.data.type = "Clock",
                 Output([i \in 1..3 |->
                            UpdateIfMultiple(pres[i], ClockData(pres[1].account.data.block_id + 1, ins.timestamp))],
                        <<>>))
    ELSE Panic

-----------------------------------------------------------------------------
(***************************************************************************)
(* The sequencer_stake program: a key is backed by an ownership account,   *)
(* its stake is tracked in one config account, and a release is requested  *)
(* under signature and finalized by anyone                                 *)
(* (lez/programs/sequencer_stake).                                         *)
(***************************************************************************)

CONSTANT STAKE      \* sequencer_stake's program id

NoPending == [type |-> "none"]

Pending(amount, destination) == [type |-> "pending", amount |-> amount, destination |-> destination]

StakeRecord(key, pending) == [type |-> "StakeRecord", sequencer_key |-> key, pending_unstake |-> pending]

\* entries: from the staked keys to SequencerEntry
StakeConfig(minimum, entries) ==
    [type |-> "StakeConfig", minimum_sequencer_stake |-> minimum, entries |-> entries]

SequencerEntry(id, staked, pending) ==
    [account_id |-> id, total_staked |-> staked, total_pending_unstake |-> pending]

net_stake(entry) ==
    IF entry.total_pending_unstake <= entry.total_staked
    THEN entry.total_staked - entry.total_pending_unstake ELSE 0

allows_unstake_request(entry, amount, minimum) ==
    /\ amount <= net_stake(entry)
    /\ net_stake(entry) - amount = 0 \/ net_stake(entry) - amount >= minimum

StakeConfigSeed == <<"minimum stake">>

\* decode_config: by id, since every ownership account has the same owner.
IsStakeConfig(m) ==
    /\ m.account_id = Pda(STAKE, StakeConfigSeed)
    /\ m.account.program_owner = STAKE
    /\ m.account.data.type = "StakeConfig"

WithEntries(config, entries) == WithData(config.account, [config.account.data EXCEPT !.entries = entries])

SetEntry(entries, key, entry) == [k \in DOMAIN entries \union {key} |-> IF k = key THEN entry ELSE entries[k]]

DropEntry(entries, key) == [k \in DOMAIN entries \ {key} |-> entries[k]]

\* Every ownership account stays claimed after a full exit, so what a stake does
\* follows from the entry and not from the account's owner.
CanStake(ownership, config, ins) ==
    LET account == ownership.account
        claimed == account.program_owner # DEFAULT_PROGRAM_OWNER
        entries == config.account.data.entries
        key     == ins.sequencer_key
    IN /\ claimed => /\ account.program_owner = STAKE
                     /\ account.data.type = "StakeRecord"
                     /\ account.data.sequencer_key = key
                     /\ account.data.pending_unstake = NoPending
       /\ IF key \in DOMAIN entries
          THEN /\ claimed
               /\ entries[key].account_id = ownership.account_id
               /\ Fits(entries[key].total_staked + ins.amount)
          ELSE ins.amount >= config.account.data.minimum_sequencer_stake

Staked(ownership, config, ins) ==
    LET entries == config.account.data.entries
        key     == ins.sequencer_key
    IN SetEntry(entries, key,
                IF key \in DOMAIN entries THEN [entries[key] EXCEPT !.total_staked = @ + ins.amount]
                ELSE SequencerEntry(ownership.account_id, ins.amount, 0))

\* pres: funding, ownership, config.  The mover pays under the funding account's
\* authorization and the self-call after it checks that the payment arrived.
stake(pres, ins) ==
    LET ownership == pres[2]
        config    == pres[3]
        after     == ownership.account.balance + ins.amount
        recorded  == WithData(ownership.account, StakeRecord(ins.sequencer_key, NoPending))
        claimed   == [ownership EXCEPT !.account = [recorded EXCEPT !.program_owner = STAKE]]
    IN Require(/\ ownership.is_authorized
               /\ IsStakeConfig(config)
               /\ Fits(after)
               /\ CanStake(ownership, config, ins),
               Output(<<Same(pres[1]),
                        NewClaimedIfDefault(recorded, AuthorizedClaim),
                        New(WithEntries(config, Staked(ownership, config, ins)))>>,
                      <<Call(ins.mover_program_id, <<pres[1], claimed>>, ins.mover_instruction, {}),
                        Call(STAKE, <<[claimed EXCEPT !.account.balance = after]>>,
                             [op |-> "ConfirmStake", expected_balance_after |-> after], {})>>))

confirm_stake(pres, ins) ==
    Require(pres[1].account.balance = ins.expected_balance_after, Output(<<Same(pres[1])>>, <<>>))

\* The ownership account's record and entry agree on the key and the account.
Backs(ownership, config) ==
    /\ ownership.account.program_owner = STAKE
    /\ ownership.account.data.type = "StakeRecord"
    /\ IsStakeConfig(config)
    /\ ownership.account.data.sequencer_key \in DOMAIN config.account.data.entries
    /\ config.account.data.entries[ownership.account.data.sequencer_key].account_id = ownership.account_id

\* pres: ownership, config.  Sized against the tracked stake, never the balance.
unstake_request(pres, ins) ==
    LET ownership == pres[1]  config == pres[2]
        key     == ownership.account.data.sequencer_key
        entries == config.account.data.entries
    IN Require(/\ ownership.is_authorized
               /\ Backs(ownership, config)
               /\ ownership.account.data.pending_unstake = NoPending
               /\ allows_unstake_request(entries[key], ins.amount,
                                         config.account.data.minimum_sequencer_stake)
               /\ Fits(entries[key].total_pending_unstake + ins.amount),
               Output(<<New(WithData(ownership.account, StakeRecord(key, Pending(ins.amount, ins.destination)))),
                        New(WithEntries(config,
                                [entries EXCEPT ![key].total_pending_unstake = @ + ins.amount]))>>, <<>>))

Released(entries, key, amount) ==
    IF entries[key].total_staked = amount THEN DropEntry(entries, key)
    ELSE [entries EXCEPT ![key].total_staked = @ - amount, ![key].total_pending_unstake = @ - amount]

\* pres: ownership, destination, config.  Unsigned: the request was signed.
finalize_unstake(pres) ==
    LET ownership == pres[1]  destination == pres[2]  config == pres[3]
        key     == ownership.account.data.sequencer_key
        pending == ownership.account.data.pending_unstake
        entry   == config.account.data.entries[key]
    IN Require(/\ Backs(ownership, config)
               /\ pending # NoPending
               /\ destination.account_id = pending.destination
               /\ pending.amount <= ownership.account.balance
               /\ Fits(destination.account.balance + pending.amount)
               /\ pending.amount <= entry.total_staked
               /\ pending.amount <= entry.total_pending_unstake,
               Output(<<New([WithData(ownership.account, StakeRecord(key, NoPending))
                                EXCEPT !.balance = @ - pending.amount]),
                        New([destination.account EXCEPT !.balance = @ + pending.amount]),
                        New(WithEntries(config, Released(config.account.data.entries, key, pending.amount)))>>,
                      <<>>))

StakeProgram(caller, pres, ins) ==
    CASE ins.op = "Stake" /\ Len(pres) = 3 -> Require(caller = NoCaller, stake(pres, ins))
      [] ins.op = "ConfirmStake" /\ Len(pres) = 1 -> Require(caller = STAKE, confirm_stake(pres, ins))
      [] ins.op = "UnstakeRequest" /\ Len(pres) = 2 -> Require(caller = NoCaller, unstake_request(pres, ins))
      [] ins.op = "FinalizeUnstake" /\ Len(pres) = 3 -> Require(caller = NoCaller, finalize_unstake(pres))
      [] OTHER -> Panic

-----------------------------------------------------------------------------
(***************************************************************************)
(* The programs a message crosses zones through: bridge_lock and           *)
(* ping_sender emit, cross_zone_outbox records the emission,               *)
(* cross_zone_inbox delivers it on the other zone once, and wrapped_token  *)
(* and ping_receiver act on it (lez/programs).                             *)
(*                                                                         *)
(* A payload is the instruction it encodes.                                *)
(***************************************************************************)

CONSTANTS
    BRIDGE_LOCK, OUTBOX, INBOX, WRAPPED_TOKEN, PING_SENDER, PING_RECEIVER,  \* program ids
    MAX_MINT_AMOUNT     \* what one mint may credit

ConfigSeed == <<"config">>

\* The shape of every InitConfig: written once, and a replay of the same genesis
\* transaction is a no-op.
PinnedOnce(program, pres, data) ==
    Require(/\ Len(pres) = 1
            /\ pres[1].account_id = Pda(program, ConfigSeed)
            /\ pres[1].account # DefaultAccount =>
                 /\ pres[1].account.program_owner = program
                 /\ pres[1].account.data = data,
            Output(<<NewClaimedIfDefault(WithData(pres[1].account, data), ConfigSeed)>>, <<>>))

-----------------------------------------------------------------------------

outbox_pda_seed(emitter, target_zone, ordinal) == <<"outbox", emitter, target_zone, ordinal>>

OutboxRecord(emitter, ins) == [type |-> "OutboxRecord", emitter |-> emitter, message |-> ins]

\* A slot holds one message for ever.
OutboxProgram(caller, pres, ins) ==
    IF ins.op = "Emit" /\ Len(pres) = 1
    THEN LET seed == outbox_pda_seed(caller, ins.target_zone, ins.ordinal) IN
         Require(/\ caller # NoCaller
                 /\ pres[1].account_id = Pda(OUTBOX, seed)
                 /\ pres[1].account = DefaultAccount,
                 Output(<<NewClaimed(WithData(pres[1].account, OutboxRecord(caller, ins)), seed)>>, <<>>))
    ELSE Panic

\* OutboxInstruction::Emit with the fields of a Lock or a Send.
Emit(ins) ==
    [op |-> "Emit", target_zone |-> ins.target_zone, target_program_id |-> ins.target_program_id,
     target_accounts |-> ins.target_accounts, payload |-> ins.payload, ordinal |-> ins.ordinal]

-----------------------------------------------------------------------------

EscrowSeed == <<"escrow">>

BridgeLockConfig(outbox, target) == [type |-> "BridgeLockConfig", outbox |-> outbox, target |-> target]

HoldingSeed(recipient) == <<"holding", recipient>>

\* The forwarded payload is a mint of exactly what is locked.
MintsTheLock(ins) == ins.payload.op = "WrappedMint" /\ ins.payload.amount = ins.amount

\* pres: config, holder, escrow, outbox slot
lock(pres, ins) ==
    LET config == pres[1]  holder == pres[2]  escrow == pres[3] IN
    Require(/\ config.account_id = Pda(BRIDGE_LOCK, ConfigSeed)
            /\ config.account.data.type = "BridgeLockConfig"
            /\ MintsTheLock(ins)
            /\ ins.target_program_id = config.account.data.target
            /\ ins.target_accounts = <<Pda(ins.target_program_id, ConfigSeed),
                                       Pda(ins.target_program_id, HoldingSeed(ins.payload.recipient))>>
            /\ ins.amount <= MAX_MINT_AMOUNT
            /\ holder.is_authorized
            /\ holder.account.program_owner = BRIDGE_LOCK
            /\ escrow.account_id = Pda(BRIDGE_LOCK, EscrowSeed)
            /\ ins.amount <= holder.account.balance
            /\ Fits(escrow.account.balance + ins.amount),
            Output(<<Same(config),
                     New([holder.account EXCEPT !.balance = @ - ins.amount]),
                     NewClaimedIfDefault([escrow.account EXCEPT !.balance = @ + ins.amount], EscrowSeed),
                     Same(pres[4])>>,
                   <<Call(config.account.data.outbox, <<pres[4]>>, Emit(ins), {})>>))

bridge_lock_init_config(pres, ins) ==
    PinnedOnce(BRIDGE_LOCK, pres, BridgeLockConfig(ins.outbox_program_id, ins.target_program_id))

BridgeLockProgram(caller, pres, ins) ==
    CASE caller # NoCaller -> Panic
      [] caller = NoCaller /\ ins.op = "Lock" /\ Len(pres) = 4 -> lock(pres, ins)
      [] caller = NoCaller /\ ins.op = "BridgeLockInit" -> bridge_lock_init_config(pres, ins)
      [] OTHER -> Panic

-----------------------------------------------------------------------------

SeenShardSeed(src_zone, src_block_id) == <<"seen", src_zone, src_block_id>>

SourceMarkerSeed(src_zone, src_program_id) == <<"source", src_zone, src_program_id>>

InboxConfig(self_zone) == [type |-> "InboxConfig", self_zone |-> self_zone]

SeenShard(hash, delivered) == [type |-> "SeenShard", src_block_hash |-> hash, delivered |-> delivered]

\* Empty data is an unclaimed shard, which binds to its first claimant.
Delivered(data) == IF data.type = "SeenShard" THEN data.delivered ELSE {}

binds(data, hash) == \/ data = NoData
                     \/ data.type = "SeenShard" /\ data.src_block_hash = hash

contains(data, index) == index \in Delivered(data)

\* pres: config, seen shard, source marker, then the target's accounts
dispatch(pres, msg) ==
    LET config == pres[1]  seen == pres[2]  marker == pres[3]
        target == SubSeq(pres, 4, Len(pres))
        seed   == SeenShardSeed(msg.src_zone, msg.src_block_id)
        known  == contains(seen.account.data, msg.src_tx_index)
        shard  == SeenShard(msg.src_block_hash, Delivered(seen.account.data) \union {msg.src_tx_index})
    IN Require(/\ config.account_id = Pda(INBOX, ConfigSeed)
               /\ seen.account_id = Pda(INBOX, seed)
               /\ marker.account_id = Pda(INBOX, SourceMarkerSeed(msg.src_zone, msg.src_program_id))
               /\ config.account.data.type = "InboxConfig"
               /\ msg.src_zone # config.account.data.self_zone
               /\ binds(seen.account.data, msg.src_block_hash),
               Output([i \in 1..Len(pres) |->
                          IF i = 2 /\ ~known THEN NewClaimedIfDefault(WithData(seen.account, shard), seed)
                                             ELSE Same(pres[i])],
                      IF known THEN <<>>
                      ELSE <<Call(msg.target_program_id, <<marker>> \o target, msg.payload, {})>>))

inbox_init_config(pres, ins) == PinnedOnce(INBOX, pres, InboxConfig(ins.self_zone))

InboxProgram(caller, pres, ins) ==
    CASE caller # NoCaller -> Panic
      [] caller = NoCaller /\ ins.op = "Dispatch" /\ Len(pres) >= 3 -> dispatch(pres, ins.msg)
      [] caller = NoCaller /\ ins.op = "InboxInit" -> inbox_init_config(pres, ins)
      [] OTHER -> Panic

-----------------------------------------------------------------------------

\* Who may deliver to a target, and from which (zone, program) pairs.
TargetConfig(deliverer, sources) == [type |-> "TargetConfig", deliverer |-> deliverer, sources |-> sources]

\* The caller is the deliverer, and the marker it passes names an accepted source.
FromAcceptedSource(program, caller, marker, config) ==
    /\ config.account_id = Pda(program, ConfigSeed)
    /\ config.account.data.type = "TargetConfig"
    /\ caller = config.account.data.deliverer
    /\ \E s \in config.account.data.sources :
         marker.account_id = Pda(caller, SourceMarkerSeed(s[1], s[2]))

WrappedBalance(amount) == [type |-> "WrappedBalance", amount |-> amount]

read_balance(data) == IF data.type = "WrappedBalance" THEN data.amount ELSE 0

\* pres: source marker, config, recipient's holding
wrapped_mint(caller, pres, ins) ==
    LET balance == read_balance(pres[3].account.data) + ins.amount IN
    Require(/\ FromAcceptedSource(WRAPPED_TOKEN, caller, pres[1], pres[2])
            /\ pres[3].account_id = Pda(WRAPPED_TOKEN, HoldingSeed(ins.recipient))
            /\ ins.amount <= MAX_MINT_AMOUNT
            /\ Fits(balance),
            Output(<<Same(pres[1]), Same(pres[2]),
                     NewClaimedIfDefault(WithData(pres[3].account, WrappedBalance(balance)),
                                         HoldingSeed(ins.recipient))>>, <<>>))

wrapped_token_init_config(caller, pres, ins) ==
    Require(caller = NoCaller, PinnedOnce(WRAPPED_TOKEN, pres, TargetConfig(ins.deliverer, ins.sources)))

WrappedTokenProgram(caller, pres, ins) ==
    CASE ins.op = "WrappedMint" /\ Len(pres) = 3 -> wrapped_mint(caller, pres, ins)
      [] ins.op = "WrappedInit" -> wrapped_token_init_config(caller, pres, ins)
      [] OTHER -> Panic

-----------------------------------------------------------------------------

SenderConfig(outbox) == [type |-> "SenderConfig", outbox |-> outbox]

\* pres: config, outbox slot
send(pres, ins) ==
    Require(/\ pres[1].account_id = Pda(PING_SENDER, ConfigSeed)
            /\ pres[1].account.data.type = "SenderConfig",
            Output(<<Same(pres[1]), Same(pres[2])>>,
                   <<Call(pres[1].account.data.outbox, <<pres[2]>>, Emit(ins), {})>>))

sender_init_config(pres, ins) == PinnedOnce(PING_SENDER, pres, SenderConfig(ins.outbox_program_id))

PingSenderProgram(caller, pres, ins) ==
    CASE caller # NoCaller -> Panic
      [] caller = NoCaller /\ ins.op = "Send" /\ Len(pres) = 2 -> send(pres, ins)
      [] caller = NoCaller /\ ins.op = "SenderInit" -> sender_init_config(pres, ins)
      [] OTHER -> Panic

PingRecordSeed == <<"ping record">>

PingRecord(payload) == [type |-> "PingRecord", payload |-> payload]

\* pres: source marker, config, record
record(caller, pres, ins) ==
    Require(/\ FromAcceptedSource(PING_RECEIVER, caller, pres[1], pres[2])
            /\ pres[3].account_id = Pda(PING_RECEIVER, PingRecordSeed),
            Output(<<Same(pres[1]), Same(pres[2]),
                     NewClaimedIfDefault(WithData(pres[3].account, PingRecord(ins.payload)), PingRecordSeed)>>,
                   <<>>))

receiver_init_config(caller, pres, ins) ==
    Require(caller = NoCaller, PinnedOnce(PING_RECEIVER, pres, TargetConfig(ins.deliverer, ins.sources)))

PingReceiverProgram(caller, pres, ins) ==
    CASE ins.op = "Record" /\ Len(pres) = 3 -> record(caller, pres, ins)
      [] ins.op = "ReceiverInit" -> receiver_init_config(caller, pres, ins)
      [] OTHER -> Panic
==============================================================================
