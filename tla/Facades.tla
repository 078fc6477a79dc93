------------------------------- MODULE Facades -------------------------------
(***************************************************************************)
(* The wallet's program facades (lez/wallet/src/program_facades): which    *)
(* accounts, in which order and in which role, go with which instruction   *)
(* to which program.  Secrets come back in the order of the private        *)
(* accounts.                                                               *)
(***************************************************************************)
EXTENDS Programs, SequencesExt

-----------------------------------------------------------------------------
(***************************************************************************)
(* How the wallet turns a list of accounts and an instruction into a       *)
(* transaction (lez/wallet: account_manager.rs and the send functions of   *)
(* lib.rs), and what the ledger makes of it.                               *)
(*                                                                         *)
(* ledger holds public and private accounts; the contents of a private one *)
(* are what its last note says.  nonces counts the signatures of a public  *)
(* account and the notes of a private one, so a private account is at 0    *)
(* until its init nullifier is used.  wallet.private is the cache of the   *)
(* private accounts it has keys of.                                        *)
(***************************************************************************)

VARIABLES ledger, nonces, wallet

\* [type, id]; keys and identifiers stand for the id they derive.
Identity(type, id) == [type |-> type, id |-> id]

\* The ? on a missing key.
NoIdentity == Identity("None", <<"none">>)

is_public(i) == i.type \in {"Public", "PublicNoSign", "PublicKeycard"}

is_private(i) ==
    i.type \in {"PrivateOwned", "PrivateForeign", "PrivatePdaOwned", "PrivatePdaForeign",
                "PrivateShared", "PrivatePdaShared"}

\* The key tree first, then the shared accounts.
resolve_private_account(id) ==
    IF id \notin DOMAIN wallet.private THEN NoIdentity
    ELSE Identity(wallet.private[id].source, id)

nonce(id) == IF id \in DOMAIN nonces THEN nonces[id] ELSE 0

-----------------------------------------------------------------------------

State(kind, id, account, version, authorized, nsk) ==
    [kind |-> kind, pre |-> Meta(id, account, authorized), version |-> version, nsk |-> nsk]

PublicState(kind, id, authorized) ==
    State(kind, id, get(ledger, id), nonce(id), authorized, FALSE)

\* private_key_tree_acc_preparation; a PDA carries no credential of its own.
private_key_tree_acc_preparation(id, is_pda) ==
    State("Private", id, wallet.private[id].account, wallet.private[id].version, ~is_pda, TRUE)

\* Without a key an account can only be initialised.
private_foreign_acc_preparation(id) == State("Private", id, DefaultAccount, 0, FALSE, FALSE)

private_shared_acc_preparation(id, ask) ==
    IF id \in DOMAIN wallet.private
    THEN State("Private", id, wallet.private[id].account, wallet.private[id].version, ask, TRUE)
    ELSE State("Private", id, DefaultAccount, 0, ask, TRUE)

Prepared(i) ==
    CASE i.type = "Public"            -> PublicState("Public", i.id, i.id \in wallet.keys)
      [] i.type = "PublicNoSign"      -> PublicState("Public", i.id, FALSE)
      [] i.type = "PublicKeycard"     -> PublicState("PublicKeycard", i.id, TRUE)
      [] i.type = "PrivateOwned"      -> private_key_tree_acc_preparation(i.id, FALSE)
      [] i.type = "PrivatePdaOwned"   -> private_key_tree_acc_preparation(i.id, TRUE)
      [] i.type = "PrivateForeign"    -> private_foreign_acc_preparation(i.id)
      [] i.type = "PrivatePdaForeign" -> private_foreign_acc_preparation(i.id)
      [] i.type = "PrivateShared"     -> private_shared_acc_preparation(i.id, TRUE)
      [] i.type = "PrivatePdaShared"  -> private_shared_acc_preparation(i.id, FALSE)

\* An identity that cannot be prepared ends the call with KeyNotFoundError.
KeyNotFound(identities) ==
    \E k \in 1..Len(identities) :
        \/ identities[k] = NoIdentity
        \/ /\ identities[k].type \in {"PrivateOwned", "PrivatePdaOwned"}
           /\ identities[k].id \notin DOMAIN wallet.private

Prepare(identities) == [k \in 1..Len(identities) |-> Prepared(identities[k])]

\* fetch_private_proofs_and_root: the sequencer has a proof for the cached
\* state of an account unless that is the default account.
HasProof(id) == id \in DOMAIN wallet.private /\ wallet.private[id].version > 0

pre_states(states) == [k \in 1..Len(states) |-> states[k].pre]

Ids(states) == [k \in 1..Len(states) |-> states[k].pre.account_id]

Private(states) == SelectSeq(states, LAMBDA s : s.kind = "Private")

\* Local accounts first, keycard accounts second.
Signing(states) ==
    SelectSeq(states, LAMBDA s : s.kind = "Public" /\ s.pre.is_authorized)
    \o SelectSeq(states, LAMBDA s : s.kind = "PublicKeycard")

public_account_nonces(states) == [k \in 1..Len(Signing(states)) |-> Signing(states)[k].version]

sign_message(states) == Ids(Signing(states))

\* The shared secret of a note is known by the account it is for.
private_account_keys(states) == Ids(Private(states))

\* The assertion in private_account_keys.
UpdatesHaveKeys(states) ==
    \A k \in 1..Len(states) :
        states[k].kind = "Private" /\ HasProof(states[k].pre.account_id) => states[k].nsk
-----------------------------------------------------------------------------

NoTx == [type |-> "None"]

Failed(error) == [result |-> error, tx |-> NoTx, secrets |-> <<>>]

Sent(tx, secrets) == [result |-> "Success", tx |-> tx, secrets |-> secrets]

\* What is to be sent: the identities, the instruction, the program, and the
\* balance that tx_pre_check demands of the first account.
PubTx(identities, instruction, program) ==
    [private |-> FALSE, identities |-> identities, instruction |-> instruction,
     program |-> program, balance |-> 0]

PrivTx(identities, instruction, program) ==
    [PubTx(identities, instruction, program) EXCEPT !.private = TRUE]

\* A failure before anything is sent.
Error(error) == [error |-> error]

PreCheck(plan, states) == plan.balance = 0 \/ states[1].pre.account.balance >= plan.balance

send_pub_tx_with_pre_check(plan, states) ==
    IF ~PreCheck(plan, states) THEN Failed("InsufficientFunds")
    ELSE Sent([type |-> "Public", program |-> plan.program, instruction |-> plan.instruction,
               account_ids |-> Ids(states), nonces |-> public_account_nonces(states),
               signers |-> sign_message(states)], <<>>)

\* The program runs on the accounts as the wallet has them.
ProgramRun(plan, states) ==
    LET view == [id \in Range(Ids(states)) |->
                    (CHOOSE s \in Range(states) : s.pre.account_id = id).pre.account]
        authorized == {s.pre.account_id : s \in {t \in Range(states) : t.pre.is_authorized}}
    IN  from_public_transaction(Overwrite(ledger, view),
                                Message(plan.program, Ids(states), authorized, plan.instruction))

ProvenTx(states, run) ==
    [type |-> "PrivacyPreserving",
     pre |-> [id \in Range(Ids(states)) |->
                 LET s == CHOOSE t \in Range(states) : t.pre.account_id = id
                 IN  <<s.pre.account, s.version>>],
     post |-> run.diff, private |-> Range(private_account_keys(states)),
     nonces |-> public_account_nonces(states), signers |-> sign_message(states)]

send_privacy_preserving_tx_with_pre_check(plan, states) ==
    IF ~PreCheck(plan, states) THEN Failed("InsufficientFunds")
    ELSE IF ~UpdatesHaveKeys(states) THEN Failed("Panic")
    ELSE CHOOSE sent \in {IF run.ok THEN Sent(ProvenTx(states, run), private_account_keys(states))
                          ELSE Failed("InternalError") : run \in {ProgramRun(plan, states)}} : TRUE

\* One call of either; a facade may have failed before.
Send(plan) ==
    IF "error" \in DOMAIN plan THEN Failed(plan.error)
    ELSE IF ~plan.private /\ \E i \in Range(plan.identities) : is_private(i) THEN Failed("InternalError")
    ELSE IF KeyNotFound(plan.identities) THEN Failed("KeyNotFound")
    ELSE IF plan.private
    THEN send_privacy_preserving_tx_with_pre_check(plan, Prepare(plan.identities))
    ELSE send_pub_tx_with_pre_check(plan, Prepare(plan.identities))

-----------------------------------------------------------------------------

NoncesMatch(tx) ==
    /\ Len(tx.nonces) = Len(tx.signers)
    /\ \A k \in 1..Len(tx.signers) : tx.nonces[k] = nonce(tx.signers[k])

Refusal == [ok |-> FALSE, diff |-> <<>>, moved |-> {}]

\* The accounts a transaction writes and whose nonces it moves on; what it was
\* proven on must still be so.
Execute(tx) ==
    IF ~NoncesMatch(tx) THEN Refusal
    ELSE IF tx.type = "Public"
    THEN LET run == from_public_transaction(ledger, Message(tx.program, tx.account_ids, Range(tx.signers),
                                                            tx.instruction))
         IN  [ok |-> run.ok, diff |-> run.diff, moved |-> Range(tx.signers)]
    ELSE [ok |-> \A id \in DOMAIN tx.pre : tx.pre[id] = <<get(ledger, id), nonce(id)>>,
          diff |-> tx.post, moved |-> Range(tx.signers) \cup tx.private]

LedgerAfter(run) ==
    LET after == Overwrite(ledger, run.diff)
    IN  Overwrite(after, [id \in run.moved |-> [get(after, id) EXCEPT !.nonce = 1]])

NoncesAfter(run) == Overwrite(nonces, [id \in run.moved |-> nonce(id) + 1])

-----------------------------------------------------------------------------

CONSTANT PinataId   \* system_accounts::pinata_account_id

Public(id) == Identity("Public", id)

PublicNoSign(id) == Identity("PublicNoSign", id)

PublicKeycard(id) == Identity("PublicKeycard", id)

PrivateForeign(id) == Identity("PrivateForeign", id)

Owned(id) == resolve_private_account(id)

Transfer(amount) == [op |-> "Transfer", amount |-> amount]

-----------------------------------------------------------------------------
\* native_token_transfer

auth_transfer_preparation(plan, amount) == [plan EXCEPT !.balance = amount]

send_deshielded_transfer(from, to, amount) ==
    auth_transfer_preparation(PrivTx(<<Owned(from), PublicNoSign(to)>>, Transfer(amount),
                                     AUTHENTICATED_TRANSFER), amount)

register_account_private(account) ==
    PrivTx(<<Owned(account)>>, [op |-> "Initialize"], AUTHENTICATED_TRANSFER)

send_private_transfer_to_outer_account(from, to, amount) ==
    auth_transfer_preparation(PrivTx(<<Owned(from), PrivateForeign(to)>>, Transfer(amount),
                                     AUTHENTICATED_TRANSFER), amount)

send_private_transfer_to_owned_account(from, to, amount) ==
    auth_transfer_preparation(PrivTx(<<Owned(from), Owned(to)>>, Transfer(amount),
                                     AUTHENTICATED_TRANSFER), amount)

send_public_transfer(from, to, amount) ==
    auth_transfer_preparation(PubTx(<<from, to>>, Transfer(amount), AUTHENTICATED_TRANSFER), amount)

register_account(account) == PubTx(<<account>>, [op |-> "Initialize"], AUTHENTICATED_TRANSFER)

send_shielded_transfer(from, to, amount) ==
    auth_transfer_preparation(PrivTx(<<from, Owned(to)>>, Transfer(amount), AUTHENTICATED_TRANSFER), amount)

send_shielded_transfer_to_outer_account(from, to, amount) ==
    auth_transfer_preparation(PrivTx(<<from, PrivateForeign(to)>>, Transfer(amount),
                                     AUTHENTICATED_TRANSFER), amount)

-----------------------------------------------------------------------------
\* pinata, vault, bridge

claim(winner, solution) ==
    PubTx(<<PublicNoSign(PinataId), PublicNoSign(winner)>>, [op |-> "Solve", solution |-> solution], PINATA)

claim_private_owned_account(winner, solution) ==
    PrivTx(<<Public(PinataId), Owned(winner)>>, [op |-> "Solve", solution |-> solution], PINATA)

compute_vault_account_id(owner) == Pda(VAULT, OwnerVaultSeed(owner))

VaultTransferTo(recipient, amount) ==
    [op |-> "VaultTransfer", recipient_id |-> recipient, amount |-> amount]

vault_send_transfer(sender, recipient, amount) ==
    PubTx(<<Public(sender), PublicNoSign(compute_vault_account_id(recipient))>>,
          VaultTransferTo(recipient, amount), VAULT)

vault_send_transfer_private_sender(sender, recipient, amount) ==
    PrivTx(<<Owned(sender), Public(compute_vault_account_id(recipient))>>,
           VaultTransferTo(recipient, amount), VAULT)

send_claim(owner, amount) ==
    PubTx(<<Public(owner), PublicNoSign(compute_vault_account_id(owner))>>,
          [op |-> "Claim", amount |-> amount], VAULT)

send_claim_private_owner(owner, amount) ==
    PrivTx(<<Owned(owner), Public(compute_vault_account_id(owner))>>,
           [op |-> "Claim", amount |-> amount], VAULT)

send_withdraw(sender, amount) ==
    PubTx(<<Public(sender), PublicNoSign(Pda(BRIDGE, BridgeSeed))>>,
          [op |-> "Withdraw", amount |-> amount], BRIDGE)

-----------------------------------------------------------------------------
\* token: a definition and a holding, a sender and a recipient, each public,
\* owned and private, or somebody else's and private.

NewFungible(supply) == [op |-> "NewFungibleDefinition", total_supply |-> supply]

send_new_definition(definition, holding, supply) ==
    PubTx(<<definition, holding>>, NewFungible(supply), TOKEN)

send_new_definition_private_owned_supply(definition, holding, supply) ==
    PrivTx(<<Public(definition), Owned(holding)>>, NewFungible(supply), TOKEN)

send_new_definition_private_owned_definiton(definition, holding, supply) ==
    PrivTx(<<Owned(definition), Public(holding)>>, NewFungible(supply), TOKEN)

send_new_definition_private_owned_definiton_and_supply(definition, holding, supply) ==
    PrivTx(<<Owned(definition), Owned(holding)>>, NewFungible(supply), TOKEN)

send_transfer_transaction(sender, recipient, amount) ==
    PubTx(<<sender, recipient>>, Transfer(amount), TOKEN)

send_transfer_transaction_private_owned_account(sender, recipient, amount) ==
    PrivTx(<<Owned(sender), Owned(recipient)>>, Transfer(amount), TOKEN)

send_transfer_transaction_private_foreign_account(sender, recipient, amount) ==
    PrivTx(<<Owned(sender), PrivateForeign(recipient)>>, Transfer(amount), TOKEN)

send_transfer_transaction_deshielded(sender, recipient, amount) ==
    PrivTx(<<Owned(sender), Public(recipient)>>, Transfer(amount), TOKEN)

send_transfer_transaction_shielded_owned_account(sender, recipient, amount) ==
    PrivTx(<<sender, Owned(recipient)>>, Transfer(amount), TOKEN)

send_transfer_transaction_shielded_foreign_account(sender, recipient, amount) ==
    PrivTx(<<sender, PrivateForeign(recipient)>>, Transfer(amount), TOKEN)

Burn(amount) == [op |-> "Burn", amount |-> amount]

send_burn_transaction(definition, holder, amount) ==
    PubTx(<<PublicNoSign(definition), holder>>, Burn(amount), TOKEN)

send_burn_transaction_private_owned_account(definition, holder, amount) ==
    PrivTx(<<Owned(definition), Owned(holder)>>, Burn(amount), TOKEN)

send_burn_transaction_deshielded_owned_account(definition, holder, amount) ==
    PrivTx(<<Owned(definition), Public(holder)>>, Burn(amount), TOKEN)

send_burn_transaction_shielded(definition, holder, amount) ==
    PrivTx(<<Public(definition), Owned(holder)>>, Burn(amount), TOKEN)

Mint(amount) == [op |-> "Mint", amount |-> amount]

send_mint_transaction(definition, holder, amount) == PubTx(<<definition, holder>>, Mint(amount), TOKEN)

send_mint_transaction_private_owned_account(definition, holder, amount) ==
    PrivTx(<<Owned(definition), Owned(holder)>>, Mint(amount), TOKEN)

send_mint_transaction_private_foreign_account(definition, holder, amount) ==
    PrivTx(<<Owned(definition), PrivateForeign(holder)>>, Mint(amount), TOKEN)

send_mint_transaction_deshielded(definition, holder, amount) ==
    PrivTx(<<Owned(definition), Public(holder)>>, Mint(amount), TOKEN)

send_mint_transaction_shielded_owned_account(definition, holder, amount) ==
    PrivTx(<<Public(definition), Owned(holder)>>, Mint(amount), TOKEN)

send_mint_transaction_shielded_foreign_account(definition, holder, amount) ==
    PrivTx(<<Public(definition), PrivateForeign(holder)>>, Mint(amount), TOKEN)

-----------------------------------------------------------------------------
\* associated token account

AtaOf(owner, definition) == Pda(ATA, AtaSeed(owner, definition))

AtaInstruction(op, amount) == [op |-> op, ata_program_id |-> ATA, amount |-> amount]

\* The public facades need the owner's public id.
OfPublicOwner(owner, plan) == IF is_public(owner) THEN plan ELSE Error("KeyNotFound")

ata_send_create(owner, definition) ==
    OfPublicOwner(owner,
        PubTx(<<owner, PublicNoSign(definition), PublicNoSign(AtaOf(owner.id, definition))>>,
              AtaInstruction("Create", 0), ATA))

ata_send_transfer(owner, definition, recipient, amount) ==
    OfPublicOwner(owner,
        PubTx(<<owner, PublicNoSign(AtaOf(owner.id, definition)), PublicNoSign(recipient)>>,
              AtaInstruction("AtaTransfer", amount), ATA))

ata_send_burn(owner, definition, amount) ==
    OfPublicOwner(owner,
        PubTx(<<owner, PublicNoSign(AtaOf(owner.id, definition)), PublicNoSign(definition)>>,
              AtaInstruction("AtaBurn", amount), ATA))

send_create_private_owner(owner, definition) ==
    PrivTx(<<Owned(owner), Public(definition), Public(AtaOf(owner, definition))>>,
           AtaInstruction("Create", 0), ATA)

send_transfer_private_owner(owner, definition, recipient, amount) ==
    PrivTx(<<Owned(owner), Public(AtaOf(owner, definition)), Public(recipient)>>,
           AtaInstruction("AtaTransfer", amount), ATA)

send_burn_private_owner(owner, definition, amount) ==
    PrivTx(<<Owned(owner), Public(AtaOf(owner, definition)), Public(definition)>>,
           AtaInstruction("AtaBurn", amount), ATA)

-----------------------------------------------------------------------------
\* amm: the pool and its accounts follow from the definitions of the user's
\* two holdings.

Definition(holding) == get(ledger, holding).data.definition_id

PoolOf(a, b) == Pda(AMM, PoolSeed(Definition(a), Definition(b)))

VaultOfPool(a, b, holding) == Pda(AMM, VaultSeed(PoolOf(a, b), Definition(holding)))

PoolAccounts(a, b) ==
    <<PublicNoSign(PoolOf(a, b)), PublicNoSign(VaultOfPool(a, b, a)), PublicNoSign(VaultOfPool(a, b, b))>>

PoolLp(a, b) == PublicNoSign(Pda(AMM, LiquiditySeed(PoolOf(a, b))))

\* AccountDataError for what is no holding.
WithHoldings(a, b, Plan(_, _)) ==
    IF IsHolding(get(ledger, a).data) /\ IsHolding(get(ledger, b).data) THEN Plan(a, b)
    ELSE Error("InternalError")

amm_send_new_definition(a, b, lp, amount_a, amount_b) ==
    WithHoldings(a.id, b.id, LAMBDA x, y :
        PubTx(PoolAccounts(x, y) \o <<PoolLp(x, y), a, b, lp>>,
              [op |-> "NewDefinition", token_a_amount |-> amount_a, token_b_amount |-> amount_b,
               amm_program_id |-> AMM], AMM))

\* Only the holding that pays signs.
Paying(identity, token_in) ==
    IF token_in = Definition(identity.id) THEN identity ELSE PublicNoSign(identity.id)

SwapTx(a, b, token_in, instruction) ==
    WithHoldings(a.id, b.id, LAMBDA x, y :
        IF token_in \in {Definition(x), Definition(y)}
        THEN PubTx(PoolAccounts(x, y) \o <<Paying(a, token_in), Paying(b, token_in)>>, instruction, AMM)
        ELSE Error("InternalError"))

send_swap_exact_input(a, b, amount, min_out, token_in) ==
    SwapTx(a, b, token_in,
         [op |-> "SwapExactInput", amount |-> amount, min_out |-> min_out, token_in |-> token_in])

send_swap_exact_output(a, b, amount, max_in, token_in) ==
    SwapTx(a, b, token_in,
         [op |-> "SwapExactOutput", amount |-> amount, max_in |-> max_in, token_in |-> token_in])

\* Mutant: the limits of the two tokens swapped.
Mutsend_add_liquidity(a, b, lp, min_lp, max_a, max_b) ==
    WithHoldings(a.id, b.id, LAMBDA x, y :
        PubTx(PoolAccounts(x, y) \o <<PoolLp(x, y), a, b, lp>>,
              [op |-> "AddLiquidity", min_amount_liquidity |-> min_lp, max_a |-> max_b, max_b |-> max_a], AMM))

send_add_liquidity(a, b, lp, min_lp, max_a, max_b) ==
    WithHoldings(a.id, b.id, LAMBDA x, y :
        PubTx(PoolAccounts(x, y) \o <<PoolLp(x, y), a, b, lp>>,
              [op |-> "AddLiquidity", min_amount_liquidity |-> min_lp, max_a |-> max_a, max_b |-> max_b], AMM))

send_remove_liquidity(a, b, lp, amount, min_a, min_b) ==
    WithHoldings(a, b, LAMBDA x, y :
        PubTx(PoolAccounts(x, y) \o <<PoolLp(x, y), PublicNoSign(a), PublicNoSign(b), lp>>,
              [op |-> "RemoveLiquidity", amount |-> amount, min_a |-> min_a, min_b |-> min_b], AMM))
==============================================================================
