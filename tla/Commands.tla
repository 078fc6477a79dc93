------------------------------ MODULE Commands -------------------------------
(***************************************************************************)
(* The commands of the wallet's command line (lez/wallet/src/cli/programs) *)
(* that send transactions.  A command picks a facade by the privacy of the *)
(* accounts it is given, waits for the transaction and reads the notes for *)
(* its own accounts out of it.                                             *)
(*                                                                         *)
(* An account is mentioned by id or label, or by a key path of the card.   *)
(***************************************************************************)
EXTENDS Facades

None == [type |-> "None", id |-> <<"none">>]

IsPrivate(m) == m.id \in PrivateId

\* The card signs whatever the flag says.
into_public_identity(m, sign) ==
    IF m.type = "KeyPath" THEN PublicKeycard(m.id)
    ELSE IF sign THEN Public(m.id) ELSE PublicNoSign(m.id)

\* What a handler comes to: what it sends, which secrets it reads which
\* accounts with, and whether it waits for the transaction.
Handled(plan, decode, wait) == [plan |-> plan, decode |-> decode, wait |-> wait]

poll_and_finalize_public_transaction(plan) == Handled(plan, <<>>, TRUE)

poll_and_finalize_pp_transaction(plan, decode) == Handled(plan, decode, TRUE)

Decode(k, id) == [secret |-> k, id |-> id]

Submitted(plan) == Handled(plan, <<>>, FALSE)

Bail == Submitted(Error("Bail"))

\* A command that names no execution is turned into the subcommand of one, by the
\* privacy of its accounts: a variant, two accounts, identities or keys, an amount.
Subcommand(variant, a, b, amount) == [variant |-> variant, a |-> a, b |-> b, amount |-> amount]

-----------------------------------------------------------------------------
\* auth-transfer

AuthInit(m, submit_only) ==
    IF submit_only THEN Bail
    ELSE IF IsPrivate(m)
    THEN poll_and_finalize_pp_transaction(register_account_private(m.id), <<Decode(1, m.id)>>)
    ELSE poll_and_finalize_public_transaction(register_account(into_public_identity(m, TRUE)))

\* Mutant: the two secrets swapped.
Muthandle_private_owned(from, to, amount) ==
    poll_and_finalize_pp_transaction(send_private_transfer_to_owned_account(from.id, to.id, amount),
                                     <<Decode(2, from.id), Decode(1, to.id)>>)

handle_private_owned(from, to, amount) ==
    poll_and_finalize_pp_transaction(send_private_transfer_to_owned_account(from.id, to.id, amount),
                                     <<Decode(1, from.id), Decode(2, to.id)>>)

handle_private_foreign(from, to, amount) ==
    poll_and_finalize_pp_transaction(send_private_transfer_to_outer_account(from.id, to, amount),
                                     <<Decode(1, from.id)>>)

handle_shielded_owned(from, to, amount) ==
    poll_and_finalize_pp_transaction(send_shielded_transfer(from, to.id, amount), <<Decode(1, to.id)>>)

handle_shielded_foreign(from, to, amount) ==
    Submitted(send_shielded_transfer_to_outer_account(from, to, amount))

handle_deshielded(from, to, amount) ==
    poll_and_finalize_pp_transaction(send_deshielded_transfer(from.id, to.id, amount), <<Decode(1, from.id)>>)

handle_public(from, to, amount, submit_only) ==
    LET plan == send_public_transfer(from, to, amount)
    IN  IF submit_only THEN Submitted(plan) ELSE poll_and_finalize_public_transaction(plan)

NativeTokenTransferProgramSubcommandPrivate == {"PrivateOwned", "PrivateForeign"}

NativeTokenTransferProgramSubcommandShielded == {"ShieldedOwned", "ShieldedForeign"}

NativePrivate(c) ==
    CASE c.variant = "PrivateOwned"   -> handle_private_owned(c.a, c.b, c.amount)
      [] c.variant = "PrivateForeign" -> handle_private_foreign(c.a, c.b, c.amount)

NativeShielded(c) ==
    CASE c.variant = "ShieldedOwned"   -> handle_shielded_owned(c.a, c.b, c.amount)
      [] c.variant = "ShieldedForeign" -> handle_shielded_foreign(c.a, c.b, c.amount)

NativeHandle(c) ==
    CASE c.variant \in NativeTokenTransferProgramSubcommandPrivate  -> NativePrivate(c)
      [] c.variant \in NativeTokenTransferProgramSubcommandShielded -> NativeShielded(c)
      [] c.variant = "Deshielded" -> handle_deshielded(c.a, c.b, c.amount)
      [] c.variant = "Public"     -> handle_public(c.a, c.b, c.amount, FALSE)

\* A recipient is an account or a pair of keys, complete.
OneRecipient(to, npk, vpk) ==
    \/ to # None /\ npk = None /\ vpk = None
    \/ to = None /\ npk # None /\ vpk # None

AuthSend(from, to, npk, vpk, amount, submit_only) ==
    LET signer == into_public_identity(from, TRUE)
        target == into_public_identity(to, FALSE)
        Routed(variant, a, b) == NativeHandle(Subcommand(variant, a, b, amount))
    IN  CASE \/ submit_only /\ (IsPrivate(from) \/ to = None \/ IsPrivate(to))
             \/ ~OneRecipient(to, npk, vpk)                 -> Bail
          [] to = None /\ IsPrivate(from)                   -> Routed("PrivateForeign", from, npk.id)
          [] to = None /\ ~IsPrivate(from)                  -> Routed("ShieldedForeign", signer, npk.id)
          [] to # None /\ IsPrivate(from) /\ IsPrivate(to)  -> Routed("PrivateOwned", from, to)
          [] to # None /\ IsPrivate(from) /\ ~IsPrivate(to) -> Routed("Deshielded", from, to)
          [] to # None /\ ~IsPrivate(from) /\ IsPrivate(to) -> Routed("ShieldedOwned", signer, to)
          [] OTHER -> IF submit_only THEN handle_public(signer, target, amount, TRUE)
                      ELSE Routed("Public", signer, target)

-----------------------------------------------------------------------------
\* vault, bridge, pinata

VaultTransferCommand(from, to, amount) ==
    IF IsPrivate(from)
    THEN poll_and_finalize_pp_transaction(vault_send_transfer_private_sender(from.id, to.id, amount),
                                          <<Decode(1, from.id)>>)
    ELSE poll_and_finalize_public_transaction(vault_send_transfer(from.id, to.id, amount))

VaultClaimCommand(m, amount) ==
    IF IsPrivate(m)
    THEN poll_and_finalize_pp_transaction(send_claim_private_owner(m.id, amount), <<Decode(1, m.id)>>)
    ELSE poll_and_finalize_public_transaction(send_claim(m.id, amount))

BridgeWithdraw(from, amount) ==
    IF IsPrivate(from) THEN Bail ELSE poll_and_finalize_public_transaction(send_withdraw(from.id, amount))

ensure_public_recipient_initialized(id) == get(ledger, id) # DefaultAccount

ensure_private_owned_recipient_initialized(id) ==
    id \in DOMAIN wallet.private /\ wallet.private[id].account # DefaultAccount

\* The first number that solves the challenge.
find_solution == get(ledger, PinataId).data.seed

PinataClaim(to) ==
    IF IsPrivate(to)
    THEN IF ensure_private_owned_recipient_initialized(to.id)
         THEN poll_and_finalize_pp_transaction(claim_private_owned_account(to.id, find_solution),
                                               <<Decode(1, to.id)>>)
         ELSE Bail
    ELSE IF ensure_public_recipient_initialized(to.id)
         THEN poll_and_finalize_public_transaction(claim(to.id, find_solution))
         ELSE Bail

-----------------------------------------------------------------------------
\* token

handle_new_private_def_private_supp(definition, holding, supply) ==
    poll_and_finalize_pp_transaction(
        send_new_definition_private_owned_definiton_and_supply(definition.id, holding.id, supply),
        <<Decode(1, definition.id), Decode(2, holding.id)>>)

handle_new_private_def_public_supp(definition, holding, supply) ==
    poll_and_finalize_pp_transaction(
        send_new_definition_private_owned_definiton(definition.id, holding.id, supply),
        <<Decode(1, definition.id)>>)

handle_new_public_def_private_supp(definition, holding, supply) ==
    poll_and_finalize_pp_transaction(
        send_new_definition_private_owned_supply(definition.id, holding.id, supply), <<Decode(1, holding.id)>>)

handle_new_public_def_public_supp(definition, holding, supply) ==
    poll_and_finalize_public_transaction(
        send_new_definition(into_public_identity(definition, TRUE), into_public_identity(holding, TRUE), supply))

handle_transfer_token(from, to, amount) ==
    poll_and_finalize_public_transaction(
        send_transfer_transaction(into_public_identity(from, TRUE), into_public_identity(to, FALSE), amount))

handle_transfer_token_private_owned(from, to, amount) ==
    poll_and_finalize_pp_transaction(
        send_transfer_transaction_private_owned_account(from.id, to.id, amount),
        <<Decode(1, from.id), Decode(2, to.id)>>)

handle_transfer_token_private_foreign(from, to, amount) ==
    poll_and_finalize_pp_transaction(
        send_transfer_transaction_private_foreign_account(from.id, to, amount), <<Decode(1, from.id)>>)

handle_transfer_token_deshielded(from, to, amount) ==
    poll_and_finalize_pp_transaction(
        send_transfer_transaction_deshielded(from.id, to.id, amount), <<Decode(1, from.id)>>)

handle_transfer_token_shielded_owned(from, to, amount) ==
    poll_and_finalize_pp_transaction(
        send_transfer_transaction_shielded_owned_account(from, to.id, amount), <<Decode(1, to.id)>>)

handle_transfer_token_shielded_foreign(from, to, amount) ==
    poll_and_finalize_pp_transaction(
        send_transfer_transaction_shielded_foreign_account(from, to, amount), <<>>)

handle_burn_token(definition, holder, amount) ==
    poll_and_finalize_public_transaction(
        send_burn_transaction(definition.id, into_public_identity(holder, TRUE), amount))

handle_burn_token_private_owned(definition, holder, amount) ==
    poll_and_finalize_pp_transaction(
        send_burn_transaction_private_owned_account(definition.id, holder.id, amount),
        <<Decode(1, definition.id), Decode(2, holder.id)>>)

handle_burn_token_deshielded_owned(definition, holder, amount) ==
    poll_and_finalize_pp_transaction(
        send_burn_transaction_deshielded_owned_account(definition.id, holder.id, amount),
        <<Decode(1, definition.id)>>)

handle_burn_token_shielded(definition, holder, amount) ==
    poll_and_finalize_pp_transaction(
        send_burn_transaction_shielded(definition.id, holder.id, amount), <<Decode(1, holder.id)>>)

handle_mint_token(definition, holder, amount) ==
    poll_and_finalize_public_transaction(
        send_mint_transaction(into_public_identity(definition, TRUE), into_public_identity(holder, FALSE), amount))

handle_mint_token_private_owned(definition, holder, amount) ==
    poll_and_finalize_pp_transaction(
        send_mint_transaction_private_owned_account(definition.id, holder.id, amount),
        <<Decode(1, definition.id), Decode(2, holder.id)>>)

handle_mint_token_private_foreign(definition, holder, amount) ==
    poll_and_finalize_pp_transaction(
        send_mint_transaction_private_foreign_account(definition.id, holder, amount),
        <<Decode(1, definition.id)>>)

handle_mint_token_deshielded(definition, holder, amount) ==
    poll_and_finalize_pp_transaction(
        send_mint_transaction_deshielded(definition.id, holder.id, amount), <<Decode(1, definition.id)>>)

handle_mint_token_shielded_owned(definition, holder, amount) ==
    poll_and_finalize_pp_transaction(
        send_mint_transaction_shielded_owned_account(definition.id, holder.id, amount),
        <<Decode(1, holder.id)>>)

handle_mint_token_shielded_foreign(definition, holder, amount) ==
    poll_and_finalize_pp_transaction(
        send_mint_transaction_shielded_foreign_account(definition.id, holder, amount), <<>>)

\* The executions of the token program, as their variants.
TokenProgramSubcommandPublic == {"TransferToken", "BurnToken", "MintToken"}

TokenProgramSubcommandPrivate ==
    {"TransferTokenPrivateOwned", "TransferTokenPrivateForeign", "BurnTokenPrivateOwned",
     "MintTokenPrivateOwned", "MintTokenPrivateForeign"}

TokenProgramSubcommandDeshielded ==
    {"TransferTokenDeshielded", "BurnTokenDeshieldedOwned", "MintTokenDeshielded"}

TokenProgramSubcommandShielded ==
    {"TransferTokenShieldedOwned", "TransferTokenShieldedForeign", "BurnTokenShielded",
     "MintTokenShieldedOwned", "MintTokenShieldedForeign"}

CreateNewTokenProgramSubcommand ==
    {"NewPublicDefPublicSupp", "NewPublicDefPrivateSupp", "NewPrivateDefPublicSupp",
     "NewPrivateDefPrivateSupp"}

TokenPublic(c) ==
    CASE c.variant = "TransferToken" -> handle_transfer_token(c.a, c.b, c.amount)
      [] c.variant = "BurnToken"     -> handle_burn_token(c.a, c.b, c.amount)
      [] c.variant = "MintToken"     -> handle_mint_token(c.a, c.b, c.amount)

TokenPrivate(c) ==
    CASE c.variant = "TransferTokenPrivateOwned"   -> handle_transfer_token_private_owned(c.a, c.b, c.amount)
      [] c.variant = "TransferTokenPrivateForeign" -> handle_transfer_token_private_foreign(c.a, c.b, c.amount)
      [] c.variant = "BurnTokenPrivateOwned"       -> handle_burn_token_private_owned(c.a, c.b, c.amount)
      [] c.variant = "MintTokenPrivateOwned"       -> handle_mint_token_private_owned(c.a, c.b, c.amount)
      [] c.variant = "MintTokenPrivateForeign"     -> handle_mint_token_private_foreign(c.a, c.b, c.amount)

TokenDeshielded(c) ==
    CASE c.variant = "TransferTokenDeshielded"  -> handle_transfer_token_deshielded(c.a, c.b, c.amount)
      [] c.variant = "BurnTokenDeshieldedOwned" -> handle_burn_token_deshielded_owned(c.a, c.b, c.amount)
      [] c.variant = "MintTokenDeshielded"      -> handle_mint_token_deshielded(c.a, c.b, c.amount)

TokenShielded(c) ==
    CASE c.variant = "TransferTokenShieldedOwned"   -> handle_transfer_token_shielded_owned(c.a, c.b, c.amount)
      [] c.variant = "TransferTokenShieldedForeign" -> handle_transfer_token_shielded_foreign(c.a, c.b, c.amount)
      [] c.variant = "BurnTokenShielded"            -> handle_burn_token_shielded(c.a, c.b, c.amount)
      [] c.variant = "MintTokenShieldedOwned"       -> handle_mint_token_shielded_owned(c.a, c.b, c.amount)
      [] c.variant = "MintTokenShieldedForeign"     -> handle_mint_token_shielded_foreign(c.a, c.b, c.amount)

TokenCreate(c) ==
    CASE c.variant = "NewPrivateDefPrivateSupp" -> handle_new_private_def_private_supp(c.a, c.b, c.amount)
      [] c.variant = "NewPrivateDefPublicSupp"  -> handle_new_private_def_public_supp(c.a, c.b, c.amount)
      [] c.variant = "NewPublicDefPrivateSupp"  -> handle_new_public_def_private_supp(c.a, c.b, c.amount)
      [] c.variant = "NewPublicDefPublicSupp"   -> handle_new_public_def_public_supp(c.a, c.b, c.amount)

TokenHandle(c) ==
    CASE c.variant \in CreateNewTokenProgramSubcommand  -> TokenCreate(c)
      [] c.variant \in TokenProgramSubcommandPrivate    -> TokenPrivate(c)
      [] c.variant \in TokenProgramSubcommandPublic     -> TokenPublic(c)
      [] c.variant \in TokenProgramSubcommandDeshielded -> TokenDeshielded(c)
      [] c.variant \in TokenProgramSubcommandShielded   -> TokenShielded(c)

\* The variant for two accounts, each public or private.
ByPrivacy(a, b, private, deshielded, shielded, public) ==
    CASE IsPrivate(a) /\ IsPrivate(b)  -> private
      [] IsPrivate(a) /\ ~IsPrivate(b) -> deshielded
      [] ~IsPrivate(a) /\ IsPrivate(b) -> shielded
      [] OTHER                         -> public

TokenNew(definition, holding, supply) ==
    TokenHandle(Subcommand(ByPrivacy(definition, holding, "NewPrivateDefPrivateSupp",
                                     "NewPrivateDefPublicSupp", "NewPublicDefPrivateSupp",
                                     "NewPublicDefPublicSupp"),
                           definition, holding, supply))

route_send_owned(from, to, amount) ==
    LET variant == ByPrivacy(from, to, "TransferTokenPrivateOwned", "TransferTokenDeshielded",
                             "TransferTokenShieldedOwned", "TransferToken")
        shielded == variant = "TransferTokenShieldedOwned"
    IN  Subcommand(variant, IF shielded THEN into_public_identity(from, TRUE) ELSE from, to, amount)

route_send_foreign(from, to, amount) ==
    IF IsPrivate(from) THEN Subcommand("TransferTokenPrivateForeign", from, to, amount)
    ELSE Subcommand("TransferTokenShieldedForeign", into_public_identity(from, TRUE), to, amount)

TokenSend(from, to, npk, vpk, amount) ==
    IF ~OneRecipient(to, npk, vpk) THEN Bail
    ELSE TokenHandle(IF to # None THEN route_send_owned(from, to, amount)
                     ELSE route_send_foreign(from, npk.id, amount))

TokenBurn(definition, holder, amount) ==
    TokenHandle(Subcommand(ByPrivacy(definition, holder, "BurnTokenPrivateOwned",
                                     "BurnTokenDeshieldedOwned", "BurnTokenShielded", "BurnToken"),
                           definition, holder, amount))

route_mint_owned(definition, holder, amount) ==
    Subcommand(ByPrivacy(definition, holder, "MintTokenPrivateOwned", "MintTokenDeshielded",
                         "MintTokenShieldedOwned", "MintToken"),
               definition, holder, amount)

route_mint_foreign(definition, holder, amount) ==
    Subcommand(IF IsPrivate(definition) THEN "MintTokenPrivateForeign" ELSE "MintTokenShieldedForeign",
               definition, holder, amount)

TokenMint(definition, holder, npk, vpk, amount) ==
    IF ~OneRecipient(holder, npk, vpk) THEN Bail
    ELSE TokenHandle(IF holder # None THEN route_mint_owned(definition, holder, amount)
                     ELSE route_mint_foreign(definition, npk.id, amount))

-----------------------------------------------------------------------------
\* ata, amm

AtaCreate(owner, definition) ==
    IF IsPrivate(owner)
    THEN poll_and_finalize_pp_transaction(send_create_private_owner(owner.id, definition),
                                          <<Decode(1, owner.id)>>)
    ELSE poll_and_finalize_public_transaction(ata_send_create(into_public_identity(owner, TRUE), definition))

AtaSend(from, definition, to, amount) ==
    IF IsPrivate(from)
    THEN poll_and_finalize_pp_transaction(send_transfer_private_owner(from.id, definition, to, amount),
                                          <<Decode(1, from.id)>>)
    ELSE poll_and_finalize_public_transaction(
            ata_send_transfer(into_public_identity(from, TRUE), definition, to, amount))

AtaBurn(holder, definition, amount) ==
    IF IsPrivate(holder)
    THEN poll_and_finalize_pp_transaction(send_burn_private_owner(holder.id, definition, amount),
                                          <<Decode(1, holder.id)>>)
    ELSE poll_and_finalize_public_transaction(
            ata_send_burn(into_public_identity(holder, TRUE), definition, amount))

\* Only public accounts.
AmmCommand(mentions, plan) ==
    IF \E m \in mentions : IsPrivate(m) THEN Bail ELSE poll_and_finalize_public_transaction(plan)

AmmNew(a, b, lp, amount_a, amount_b) ==
    AmmCommand({a, b, lp},
        amm_send_new_definition(into_public_identity(a, TRUE), into_public_identity(b, TRUE),
                                into_public_identity(lp, TRUE), amount_a, amount_b))

AmmSwapExactInput(a, b, amount_in, min_out, definition) ==
    AmmCommand({a, b},
        send_swap_exact_input(into_public_identity(a, TRUE), into_public_identity(b, TRUE),
                              amount_in, min_out, definition))

AmmSwapExactOutput(a, b, amount_out, max_in, definition) ==
    AmmCommand({a, b},
        send_swap_exact_output(into_public_identity(a, TRUE), into_public_identity(b, TRUE),
                               amount_out, max_in, definition))

AmmAddLiquidity(a, b, lp, min_lp, max_a, max_b) ==
    AmmCommand({a, b, lp},
        send_add_liquidity(into_public_identity(a, TRUE), into_public_identity(b, TRUE),
                           into_public_identity(lp, TRUE), min_lp, max_a, max_b))

AmmRemoveLiquidity(a, b, lp, amount, min_a, min_b) ==
    AmmCommand({a, b, lp},
        send_remove_liquidity(a.id, b.id, into_public_identity(lp, TRUE), amount, min_a, min_b))

-----------------------------------------------------------------------------
(***************************************************************************)
(* The calls of the wallet's C interface (lez/wallet-ffi/src) that send    *)
(* transactions.  A call checks its pointers, submits and returns; it      *)
(* neither waits nor reads notes, so the cache is behind until a sync.     *)
(* Errors keep the names map_execution_error gives them.                   *)
(***************************************************************************)

\* Arguments are pointers.
Null == [type |-> "Null", id |-> <<"null">>]

Call0(args, plan) == Submitted(IF Null \in args THEN Error("NullPointer") ELSE plan)

\* Keys whose viewing key does not decode are refused.
CallWithKeys(args, keys, plan) ==
    Call0(args \cup {keys}, IF keys.type = "BadKeys" THEN Error("InvalidKeyValue") ELSE plan)

\* The key path, when given, has the card sign.
OptionalKeyPath(from, key_path) ==
    into_public_identity([from EXCEPT !.type = IF key_path THEN "KeyPath" ELSE "Id"], TRUE)

-----------------------------------------------------------------------------

\* The recipient signs too when the wallet has its key.
wallet_ffi_transfer_public(from, to, amount) ==
    Call0({from, to}, send_public_transfer(Public(from.id), Public(to.id), amount))

wallet_ffi_transfer_shielded(from, keys, amount, key_path) ==
    CallWithKeys({from}, keys,
        send_shielded_transfer_to_outer_account(OptionalKeyPath(from, key_path), keys.id, amount))

wallet_ffi_transfer_deshielded(from, to, amount) ==
    Call0({from, to}, send_deshielded_transfer(from.id, to.id, amount))

wallet_ffi_transfer_private(from, keys, amount) ==
    CallWithKeys({from}, keys, send_private_transfer_to_outer_account(from.id, keys.id, amount))

wallet_ffi_transfer_shielded_owned(from, to, amount, key_path) ==
    Call0({from, to}, send_shielded_transfer(OptionalKeyPath(from, key_path), to.id, amount))

wallet_ffi_transfer_private_owned(from, to, amount) ==
    Call0({from, to}, send_private_transfer_to_owned_account(from.id, to.id, amount))

wallet_ffi_register_public_account(account) == Call0({account}, register_account(Public(account.id)))

wallet_ffi_register_private_account(account) == Call0({account}, register_account_private(account.id))

wallet_ffi_vault_claim(owner, amount) == Call0({owner}, send_claim(owner.id, amount))

wallet_ffi_vault_claim_private(owner, amount) == Call0({owner}, send_claim_private_owner(owner.id, amount))

wallet_ffi_bridge_withdraw(from, amount) == Call0({from}, send_withdraw(from.id, amount))

wallet_ffi_claim_pinata(winner, solution) == Call0({winner}, claim(winner.id, solution))

\* The proof that comes with the call is not used.
wallet_ffi_claim_pinata_private_owned_already_initialized(winner, solution) ==
    Call0({winner}, claim_private_owned_account(winner.id, solution))

wallet_ffi_claim_pinata_private_owned_not_initialized(winner, solution) ==
    Call0({winner}, claim_private_owned_account(winner.id, solution))

wallet_ffi_send_generic_public_transaction(identities, instruction, program) ==
    Submitted(PubTx(identities, instruction, program))

wallet_ffi_send_generic_private_transaction(identities, instruction, program) ==
    Submitted(PrivTx(identities, instruction, program))
==============================================================================
