--------------------------- MODULE WalletSession ----------------------------
(***************************************************************************)
(* A wallet in use: commands and C calls one after another, their          *)
(* transactions included late, refused or never waited for, payments by    *)
(* others in between, and a sync from time to time.                        *)
(*                                                                         *)
(* Composes the handlers of Commands with the ledger of Facades.  The      *)
(* sequencer's guards of system accounts are Ledger's subject, the scan of *)
(* blocks is Wallet's.                                                     *)
(***************************************************************************)
EXTENDS Commands

CONSTANT World      \* name |-> what the user has, may mention, and how much is submitted at most

VARIABLES
    world,          \* the chosen world's inputs
    pending,        \* submitted transactions, with what was asked for
    submitted       \* how many so far

vars == <<ledger, nonces, wallet, world, pending, submitted>>

-----------------------------------------------------------------------------
\* What the user asks for: bounds on the change of native balances, token
\* balances and supplies; accounts of a pool are the pool's affair.

Between(kind, id, low, high) == (<<kind, id>> :> <<low, high>>)

Exactly(kind, id, change) == Between(kind, id, change, change)

Move(kind, from, to, amount) == Exactly(kind, from, -amount) @@ Exactly(kind, to, amount)

\* Minting and burning change the holding and the supply together.
Issue(definition, holding, amount) ==
    Exactly("token", definition, amount) @@ Exactly("token", holding, amount)

Asked(change) == [change |-> change, pool |-> {}, keys |-> {}]

\* The recipient by account or by keys.
ToEither(to, npk) == IF to # None THEN to.id ELSE npk.id

AskedOf(to, npk, Change(_)) ==
    [Asked(Change(ToEither(to, npk))) EXCEPT !.keys = IF to = None THEN {npk.id} ELSE {}]

AskedOfPool(a, b, change) ==
    [Asked(change) EXCEPT !.pool =
        IF IsHolding(get(ledger, a.id).data) /\ IsHolding(get(ledger, b.id).data)
        THEN {PoolOf(a.id, b.id), VaultOfPool(a.id, b.id, a.id), VaultOfPool(a.id, b.id, b.id),
              PoolLp(a.id, b.id).id}
        ELSE {}]

-----------------------------------------------------------------------------

\* One command or call at a time: it waits, or the C interface holds the lock.
Run(asked, handled) ==
    /\ submitted < world.submissions
    /\ \A p \in pending : ~p.wait
    /\ \E sent \in {Send(handled.plan)} :
          IF sent.result = "Success"
          THEN /\ pending' = pending \cup
                    {[asked |-> asked, plan |-> handled.plan, tx |-> sent.tx, secrets |-> sent.secrets,
                      decode |-> handled.decode, wait |-> handled.wait, notes |-> <<>>]}
               /\ submitted' = submitted + 1
          ELSE UNCHANGED <<pending, submitted>>
    /\ UNCHANGED <<ledger, nonces, wallet, world>>

AuthInitCommand ==
    \E m \in world.native, submit_only \in BOOLEAN : Run(Asked(<<>>), AuthInit(m, submit_only))

AuthSendCommand ==
    \E from \in world.native, to \in world.native \cup {None}, npk, vpk \in world.keys \cup {None},
       amount \in world.amounts, submit_only \in BOOLEAN :
        Run(AskedOf(to, npk, LAMBDA id : Move("native", from.id, id, amount)),
            AuthSend(from, to, npk, vpk, amount, submit_only))

VaultTransferAction ==
    \E from, to \in world.native, amount \in world.amounts :
        Run(Asked(Move("native", from.id, compute_vault_account_id(to.id), amount)),
            VaultTransferCommand(from, to, amount))

VaultClaimAction ==
    \E m \in world.native, amount \in world.amounts :
        Run(Asked(Move("native", compute_vault_account_id(m.id), m.id, amount)), VaultClaimCommand(m, amount))

BridgeWithdrawCommand ==
    \E from \in world.native, amount \in world.amounts :
        Run(Asked(Move("native", from.id, Pda(BRIDGE, BridgeSeed), amount)), BridgeWithdraw(from, amount))

PinataClaimCommand ==
    \E to \in world.native : Run(Asked(Move("native", PinataId, to.id, PRIZE)), PinataClaim(to))

TokenNewCommand ==
    \E definition, holding \in world.token, supply \in world.amounts :
        Run(Asked(Issue(definition.id, holding.id, supply)), TokenNew(definition, holding, supply))

TokenSendCommand ==
    \E from \in world.token, to \in world.token \cup {None}, npk, vpk \in world.keys \cup {None},
       amount \in world.amounts :
        Run(AskedOf(to, npk, LAMBDA id : Move("token", from.id, id, amount)),
            TokenSend(from, to, npk, vpk, amount))

TokenBurnCommand ==
    \E definition, holder \in world.token, amount \in world.amounts :
        Run(Asked(Issue(definition.id, holder.id, -amount)), TokenBurn(definition, holder, amount))

TokenMintCommand ==
    \E definition \in world.token, holder \in world.token \cup {None}, npk, vpk \in world.keys \cup {None},
       amount \in world.amounts :
        Run(AskedOf(holder, npk, LAMBDA id : Issue(definition.id, id, amount)),
            TokenMint(definition, holder, npk, vpk, amount))

AtaCreateCommand ==
    \E owner \in world.owners, definition \in world.definitions :
        Run(Asked(<<>>), AtaCreate(owner, definition))

AtaSendCommand ==
    \E from \in world.owners, definition \in world.definitions, to \in world.holdings, amount \in world.amounts :
        Run(Asked(Move("token", AtaOf(from.id, definition), to.id, amount)),
            AtaSend(from, definition, to.id, amount))

AtaBurnCommand ==
    \E holder \in world.owners, definition \in world.definitions, amount \in world.amounts :
        Run(Asked(Issue(definition, AtaOf(holder.id, definition), -amount)),
            AtaBurn(holder, definition, amount))

\* A pool is created with what the user offers of both tokens.
AmmNewCommand ==
    \E a, b, lp \in world.holdings, x, y \in world.amounts :
        Run(AskedOfPool(a, b, Exactly("token", a.id, -x) @@ Exactly("token", b.id, -y)
                              @@ Between("token", lp.id, 0, MaxBalance)),
            AmmNew(a, b, lp, x, y))

\* The holding that pays, by the token that goes in.
PayerIs(m, token_in) == IsHolding(get(ledger, m.id).data) /\ Definition(m.id) = token_in

AskedOfSwap(a, b, token_in, pay, receive) ==
    AskedOfPool(a, b, IF PayerIs(a, token_in)
                      THEN (<<"token", a.id>> :> pay) @@ (<<"token", b.id>> :> receive)
                      ELSE (<<"token", b.id>> :> pay) @@ (<<"token", a.id>> :> receive))

AmmSwapExactInputCommand ==
    \E a, b \in world.holdings, amount, min_out \in world.amounts, token_in \in world.definitions :
        Run(AskedOfSwap(a, b, token_in, <<-amount, -amount>>, <<min_out, MaxBalance>>),
            AmmSwapExactInput(a, b, amount, min_out, token_in))

AmmSwapExactOutputCommand ==
    \E a, b \in world.holdings, amount, max_in \in world.amounts, token_in \in world.definitions :
        Run(AskedOfSwap(a, b, token_in, <<-max_in, 0>>, <<amount, amount>>),
            AmmSwapExactOutput(a, b, amount, max_in, token_in))

AmmAddLiquidityCommand ==
    \E a, b, lp \in world.holdings, min_lp, max_a, max_b \in world.amounts :
        Run(AskedOfPool(a, b, Between("token", a.id, -max_a, 0) @@ Between("token", b.id, -max_b, 0)
                              @@ Between("token", lp.id, min_lp, MaxBalance)),
            AmmAddLiquidity(a, b, lp, min_lp, max_a, max_b))

AmmRemoveLiquidityCommand ==
    \E a, b, lp \in world.holdings, amount, min_a, min_b \in world.amounts :
        Run(AskedOfPool(a, b, Between("token", a.id, min_a, MaxBalance) @@ Between("token", b.id, min_b, MaxBalance)
                              @@ Exactly("token", lp.id, -amount)),
            AmmRemoveLiquidity(a, b, lp, amount, min_a, min_b))

-----------------------------------------------------------------------------

Pointer == world.calls \cup {Null}

FfiTransfer ==
    \E from \in Pointer, amount \in world.amounts :
       \/ \E to \in Pointer :
             LET asked == Asked(Move("native", from.id, to.id, amount))
             IN  \/ Run(asked, wallet_ffi_transfer_public(from, to, amount))
                 \/ Run(asked, wallet_ffi_transfer_deshielded(from, to, amount))
                 \/ \E key_path \in BOOLEAN : Run(asked, wallet_ffi_transfer_shielded_owned(from, to, amount, key_path))
                 \/ Run(asked, wallet_ffi_transfer_private_owned(from, to, amount))
       \/ \E keys \in world.keys :
             LET asked == [Asked(Move("native", from.id, keys.id, amount)) EXCEPT !.keys = {keys.id}]
             IN  \/ \E key_path \in BOOLEAN : Run(asked, wallet_ffi_transfer_shielded(from, keys, amount, key_path))
                 \/ Run(asked, wallet_ffi_transfer_private(from, keys, amount))

FfiRegister ==
    \E account \in Pointer :
        \/ Run(Asked(<<>>), wallet_ffi_register_public_account(account))
        \/ Run(Asked(<<>>), wallet_ffi_register_private_account(account))

FfiVaultAndBridge ==
    \E m \in Pointer, amount \in world.amounts :
        \/ LET asked == Asked(Move("native", compute_vault_account_id(m.id), m.id, amount))
           IN  \/ Run(asked, wallet_ffi_vault_claim(m, amount))
               \/ Run(asked, wallet_ffi_vault_claim_private(m, amount))
        \/ Run(Asked(Move("native", m.id, Pda(BRIDGE, BridgeSeed), amount)), wallet_ffi_bridge_withdraw(m, amount))

\* The caller searches the solution.
FfiPinata ==
    \E m \in Pointer :
        LET asked == Asked(Move("native", PinataId, m.id, PRIZE))
        IN  \/ Run(asked, wallet_ffi_claim_pinata(m, find_solution))
            \/ Run(asked, wallet_ffi_claim_pinata_private_owned_already_initialized(m, find_solution))
            \/ Run(asked, wallet_ffi_claim_pinata_private_owned_not_initialized(m, find_solution))

FfiGeneric ==
    \E c \in world.generic :
        \/ Run(c.asked, wallet_ffi_send_generic_public_transaction(c.identities, c.instruction, c.program))
        \/ Run(c.asked, wallet_ffi_send_generic_private_transaction(c.identities, c.instruction, c.program))

-----------------------------------------------------------------------------

\* locate_spend: by the nullifier of the initialisation or of the cached state.
locate_spend(id, tx) == id \in tx.private /\ tx.pre[id][2] \in {0, wallet.private[id].version}

\* A secret reads the note it was made for; another one ends the process, and
\* nothing of it is stored.
decode_insert_privacy_preserving_transaction_results(p) ==
    LET Located(d) == d.id \in DOMAIN wallet.private /\ locate_spend(d.id, p.tx)
        found == {d \in Range(p.decode) : Located(d)}
    IN  IF \E d \in found : p.secrets[d.secret] # d.id THEN wallet.private
        ELSE Overwrite(wallet.private,
                       [id \in {d.id : d \in found} |->
                           [wallet.private[id] EXCEPT !.account = p.notes[id].account,
                                                      !.version = p.notes[id].version]])

\* The notes of a transaction that somebody waits for, as its block has them.
Noted(p, accounts, counts) ==
    IF p.wait /\ p.tx.type = "PrivacyPreserving" /\ p.tx.private # {}
    THEN {[p EXCEPT !.notes = [id \in p.tx.private |-> [account |-> accounts[id], version |-> counts[id]]]]}
    ELSE {}

Included(p) == p.notes # <<>>

\* A block has the transaction, or the ledger refuses it.
Include(p) ==
    /\ ~Included(p)
    /\ \E run \in {Execute(p.tx)} :
          IF run.ok
          THEN /\ ledger' = LedgerAfter(run)
               /\ nonces' = NoncesAfter(run)
               /\ pending' = (pending \ {p}) \cup Noted(p, ledger', nonces')
          ELSE /\ pending' = pending \ {p}
               /\ UNCHANGED <<ledger, nonces>>
    /\ UNCHANGED <<wallet, world, submitted>>

\* The poller finds the transaction, and the command reads its notes; others may
\* have gone on meanwhile.
Finalize(p) ==
    /\ Included(p)
    /\ pending' = pending \ {p}
    /\ wallet' = [wallet EXCEPT !.private = decode_insert_privacy_preserving_transaction_results(p)]
    /\ UNCHANGED <<ledger, nonces, world, submitted>>

\* The poller runs out of attempts; the transaction may still be included.
GiveUp(p) ==
    /\ p.wait
    /\ pending' = (pending \ {p}) \cup IF Included(p) THEN {} ELSE {[p EXCEPT !.wait = FALSE]}
    /\ UNCHANGED <<ledger, nonces, wallet, world, submitted>>

\* Somebody else pays an account, with a wallet that signs for them.
Outside ==
    \E plan \in world.outside :
        /\ \E sent \in {Send(plan)} :
              /\ sent.result = "Success"
              /\ \E run \in {Execute(sent.tx)} :
                    /\ run.ok
                    /\ ledger' = LedgerAfter(run)
                    /\ nonces' = NoncesAfter(run)
        /\ UNCHANGED <<wallet, world, pending, submitted>>

\* The scan reads every note for the wallet's accounts.
Sync ==
    /\ wallet' = [wallet EXCEPT !.private =
                    [id \in DOMAIN @ |-> [@[id] EXCEPT !.account = get(ledger, id), !.version = nonce(id)]]]
    /\ \A p \in pending : ~p.wait
    /\ UNCHANGED <<ledger, nonces, world, pending, submitted>>

-----------------------------------------------------------------------------

Init ==
    \E w \in DOMAIN World :
        /\ ledger = World[w].ledger
        /\ nonces = World[w].nonces
        /\ wallet = World[w].wallet
        /\ world = World[w].inputs
        /\ pending = {}
        /\ submitted = 0

\* The subcommands that a program's command has.
TokenProgramAgnosticSubcommand == TokenNewCommand \/ TokenSendCommand \/ TokenBurnCommand \/ TokenMintCommand

AtaSubcommand == AtaCreateCommand \/ AtaSendCommand \/ AtaBurnCommand

AmmProgramAgnosticSubcommand ==
    \/ AmmNewCommand \/ AmmSwapExactInputCommand \/ AmmSwapExactOutputCommand
    \/ AmmAddLiquidityCommand \/ AmmRemoveLiquidityCommand

Next ==
    \/ AuthInitCommand \/ AuthSendCommand
    \/ VaultTransferAction \/ VaultClaimAction \/ BridgeWithdrawCommand \/ PinataClaimCommand
    \/ TokenProgramAgnosticSubcommand
    \/ AtaSubcommand
    \/ AmmProgramAgnosticSubcommand
    \/ FfiTransfer \/ FfiRegister \/ FfiVaultAndBridge \/ FfiPinata \/ FfiGeneric
    \/ \E p \in pending : Include(p) \/ Finalize(p) \/ GiveUp(p)
    \/ Outside
    \/ Sync

Spec == Init /\ [][Next]_vars

-----------------------------------------------------------------------------

Amount(kind, account) ==
    IF kind = "native" THEN account.balance
    ELSE IF account.data.type = "Fungible" THEN account.data.balance
    ELSE IF account.data.type = "FungibleDefinition" THEN account.data.total_supply
    ELSE 0

Applies(p) ==
    ~Included(p) /\ p \notin pending' /\ [p EXCEPT !.wait = FALSE] \notin pending' /\ Execute(p.tx).ok

\* When the ledger takes a transaction, the native balances, the token balances
\* and the supplies change as the command or call asked, and nothing else of
\* anybody changes: whichever facade the privacy of the accounts led to, and
\* whatever others did between its making and its inclusion.
EffectIsAsked ==
    [][\A p \in pending : Applies(p) =>
          \A kind \in {"native", "token"}, id \in (DOMAIN ledger \cup DOMAIN ledger') \ p.asked.pool :
              LET change == Amount(kind, get(ledger', id)) - Amount(kind, get(ledger, id))
              IN  IF <<kind, id>> \in DOMAIN p.asked.change
                  THEN p.asked.change[<<kind, id>>][1] <= change /\ change <= p.asked.change[<<kind, id>>][2]
                  ELSE change = 0]_vars

\* A command that waits, when its poll succeeds, has its own private accounts,
\* where the user named them as accounts, in the cache as the block of its
\* transaction left them: the right secret opens the right note, also when a
\* note for the account was missed before the command or comes after the block.
ResultsAreDecoded ==
    [][\A p \in pending : Finalize(p) =>
          \A id \in (p.tx.private \cap DOMAIN wallet.private) \ p.asked.keys :
              /\ wallet'.private[id].account = p.notes[id].account
              /\ wallet'.private[id].version = p.notes[id].version]_vars
=============================================================================
