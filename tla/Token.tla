-------------------------------- MODULE Token --------------------------------
(***************************************************************************)
(* The token program (lez/programs/token).  An account's data is a token   *)
(* definition, a holding or metadata; names and URIs are left out, so data *)
(* of one kind never decodes as another.                                   *)
(***************************************************************************)
EXTENDS ProgramIO

NoMetadata == <<"no metadata">>

FungibleDefinition(supply, metadata) ==
    [type |-> "FungibleDefinition", total_supply |-> supply, metadata_id |-> metadata]

NonFungibleDefinition(supply, metadata) ==
    [type |-> "NonFungibleDefinition", printable_supply |-> supply, metadata_id |-> metadata]

Fungible(definition, balance) ==
    [type |-> "Fungible", definition_id |-> definition, balance |-> balance]

NftMaster(definition, balance) ==
    [type |-> "NftMaster", definition_id |-> definition, print_balance |-> balance]

NftPrintedCopy(definition, owned) ==
    [type |-> "NftPrintedCopy", definition_id |-> definition, owned |-> owned]

TokenMetadata(definition) == [type |-> "TokenMetadata", definition_id |-> definition]

\* TokenDefinition::try_from and TokenHolding::try_from succeed.
IsDefinition(data) == data.type \in {"FungibleDefinition", "NonFungibleDefinition"}

IsHolding(data) == data.type \in {"Fungible", "NftMaster", "NftPrintedCopy"}

zeroized_clone_from(holding) ==
    CASE holding.type = "Fungible"       -> Fungible(holding.definition_id, 0)
      [] holding.type = "NftMaster"      -> NftMaster(holding.definition_id, 0)
      [] holding.type = "NftPrintedCopy" -> NftPrintedCopy(holding.definition_id, FALSE)

zeroized_from_definition(id, definition) ==
    IF definition.type = "FungibleDefinition" THEN Fungible(id, 0) ELSE NftPrintedCopy(id, FALSE)

-----------------------------------------------------------------------------

\* The match on the two holdings of a transfer: what it demands and does.
CanMove(from, to, amount) ==
    CASE from.type = "Fungible"       -> amount <= from.balance /\ Fits(to.balance + amount)
      [] from.type = "NftMaster"      -> to.print_balance = 0 /\ from.print_balance = amount
      [] from.type = "NftPrintedCopy" -> amount = 1 /\ from.owned /\ ~to.owned

Moved(from, to, amount) ==
    CASE from.type = "Fungible" ->
            <<[from EXCEPT !.balance = @ - amount], [to EXCEPT !.balance = @ + amount]>>
      [] from.type = "NftMaster" ->
            <<[from EXCEPT !.print_balance = 0], [to EXCEPT !.print_balance = amount]>>
      [] from.type = "NftPrintedCopy" ->
            <<[from EXCEPT !.owned = FALSE], [to EXCEPT !.owned = TRUE]>>

transfer(sender, recipient, amount) ==
    LET from == sender.account.data
        to   == IF recipient.account = DefaultAccount
                THEN zeroized_clone_from(from) ELSE recipient.account.data
    IN  Require(/\ sender.is_authorized
                /\ IsHolding(from) /\ IsHolding(to)
                /\ from.type = to.type /\ from.definition_id = to.definition_id
                /\ CanMove(from, to, amount),
                Output(<<New(WithData(sender.account, Moved(from, to, amount)[1])),
                         NewClaimedIfDefault(WithData(recipient.account, Moved(from, to, amount)[2]),
                                             AuthorizedClaim)>>, <<>>))

mint(definition_account, user_holding, amount) ==
    LET definition == definition_account.account.data
        holding    == IF user_holding.account = DefaultAccount
                      THEN zeroized_from_definition(definition_account.account_id, definition)
                      ELSE user_holding.account.data
    IN  Require(/\ definition_account.is_authorized
                /\ definition.type = "FungibleDefinition" /\ holding.type = "Fungible"
                /\ holding.definition_id = definition_account.account_id
                /\ Fits(holding.balance + amount) /\ Fits(definition.total_supply + amount),
                Output(<<New(WithData(definition_account.account,
                                      [definition EXCEPT !.total_supply = @ + amount])),
                         NewClaimedIfDefault(WithData(user_holding.account,
                                                      [holding EXCEPT !.balance = @ + amount]),
                                             AuthorizedClaim)>>, <<>>))

\* The match of a burn on the definition and the holding.
CanBurn(definition, holding, amount) ==
    CASE definition.type = "FungibleDefinition" ->
            holding.type = "Fungible" /\ amount <= holding.balance /\ amount <= definition.total_supply
      [] definition.type = "NonFungibleDefinition" ->
            /\ amount <= definition.printable_supply
            /\ CASE holding.type = "NftMaster"      -> amount <= holding.print_balance
                 [] holding.type = "NftPrintedCopy" -> amount = 1 /\ holding.owned
                 [] OTHER                           -> FALSE

\* Mutant: burning a printed copy leaves the printable supply alone.
MutBurned(definition, holding, amount) ==
    CASE holding.type = "Fungible" ->
            <<[definition EXCEPT !.total_supply = @ - amount], [holding EXCEPT !.balance = @ - amount]>>
      [] holding.type = "NftMaster" ->
            <<[definition EXCEPT !.printable_supply = @ - amount],
              [holding EXCEPT !.print_balance = @ - amount]>>
      [] holding.type = "NftPrintedCopy" -> <<definition, [holding EXCEPT !.owned = FALSE]>>

Burned(definition, holding, amount) ==
    CASE holding.type = "Fungible" ->
            <<[definition EXCEPT !.total_supply = @ - amount], [holding EXCEPT !.balance = @ - amount]>>
      [] holding.type = "NftMaster" ->
            <<[definition EXCEPT !.printable_supply = @ - amount],
              [holding EXCEPT !.print_balance = @ - amount]>>
      [] holding.type = "NftPrintedCopy" ->
            <<[definition EXCEPT !.printable_supply = @ - 1], [holding EXCEPT !.owned = FALSE]>>

burn(definition_account, user_holding, amount) ==
    LET definition == definition_account.account.data
        holding    == user_holding.account.data
    IN  Require(/\ user_holding.is_authorized
                /\ IsDefinition(definition) /\ IsHolding(holding)
                /\ holding.definition_id = definition_account.account_id
                /\ CanBurn(definition, holding, amount),
                Output(<<New(WithData(definition_account.account, Burned(definition, holding, amount)[1])),
                         New(WithData(user_holding.account, Burned(definition, holding, amount)[2]))>>,
                       <<>>))

\* The definition's owner is not looked at.
initialize_account(definition_account, target) ==
    LET definition == definition_account.account.data
    IN  Require(/\ target.account = DefaultAccount
                /\ IsDefinition(definition),
                Output(<<Same(definition_account),
                         NewClaimed(WithData(target.account,
                                             zeroized_from_definition(definition_account.account_id, definition)),
                                    AuthorizedClaim)>>, <<>>))

print_nft(master_account, printed_account) ==
    LET master == master_account.account.data
    IN  Require(/\ master_account.is_authorized
                /\ printed_account.account = DefaultAccount
                /\ master.type = "NftMaster"
                /\ master.print_balance > 1,
                Output(<<New(WithData(master_account.account, [master EXCEPT !.print_balance = @ - 1])),
                         NewClaimed(WithData(printed_account.account,
                                             NftPrintedCopy(master.definition_id, TRUE)),
                                    AuthorizedClaim)>>, <<>>))

\* Every target is fresh, and claimed on the authority of its key.
NewAccounts(targets, data) ==
    Require(\A i \in 1..Len(targets) : targets[i].account = DefaultAccount,
            Output([i \in 1..Len(targets) |->
                       NewClaimed(WithData(targets[i].account, data[i]), AuthorizedClaim)], <<>>))

new_fungible_definition(definition, holding, supply) ==
    NewAccounts(<<definition, holding>>,
                <<FungibleDefinition(supply, NoMetadata), Fungible(definition.account_id, supply)>>)

new_definition_with_metadata(definition, holding, metadata, kind, supply) ==
    NewAccounts(<<definition, holding, metadata>>,
                (IF kind = "Fungible"
                 THEN <<FungibleDefinition(supply, metadata.account_id),
                        Fungible(definition.account_id, supply)>>
                 ELSE <<NonFungibleDefinition(supply, metadata.account_id),
                        NftMaster(definition.account_id, supply)>>)
                \o <<TokenMetadata(definition.account_id)>>)

\* main: each instruction takes an exact number of accounts.
TokenProgram(pres, ins) ==
    CASE ins.op = "Transfer" /\ Len(pres) = 2 -> transfer(pres[1], pres[2], ins.amount)
      [] ins.op = "NewFungibleDefinition" /\ Len(pres) = 2 ->
            new_fungible_definition(pres[1], pres[2], ins.total_supply)
      [] ins.op = "NewDefinitionWithMetadata" /\ Len(pres) = 3 ->
            new_definition_with_metadata(pres[1], pres[2], pres[3], ins.kind, ins.supply)
      [] ins.op = "InitializeAccount" /\ Len(pres) = 2 -> initialize_account(pres[1], pres[2])
      [] ins.op = "Burn" /\ Len(pres) = 2 -> burn(pres[1], pres[2], ins.amount)
      [] ins.op = "Mint" /\ Len(pres) = 2 -> mint(pres[1], pres[2], ins.amount)
      [] ins.op = "PrintNft" /\ Len(pres) = 2 -> print_nft(pres[1], pres[2])
      [] OTHER -> Panic

-----------------------------------------------------------------------------
(***************************************************************************)
(* The associated token account program                                    *)
(* (lez/programs/associated_token_account): a token holding at a PDA of    *)
(* the owner and the token definition, used on the owner's authority.      *)
(***************************************************************************)

AtaSeed(owner, definition) == <<"ata", owner, definition>>

\* verify_ata_and_get_seed; the program id is an argument of the instruction.
IsAta(ata, owner, definition, program) ==
    ata.account_id = Pda(program, AtaSeed(owner.account_id, definition))

\* Nothing is done for an account that exists; the owner need not agree, unless
\* its account is still unclaimed.
create_associated_token_account(owner, definition, ata, program) ==
    Require(IsAta(ata, owner, definition.account_id, program),
            Output(<<NewClaimedIfDefault(owner.account, AuthorizedClaim), Same(definition), Same(ata)>>,
                   IF ata.account # DefaultAccount THEN <<>>
                   ELSE <<Call(definition.account.program_owner, <<definition, Authorize(ata)>>,
                               [op |-> "InitializeAccount"],
                               {AtaSeed(owner.account_id, definition.account_id)})>>))

\* A call on the holding at the owner's associated account, which the program
\* vouches for when the owner is authorized.
FromAta(owner, ata, other, program, pres, instruction) ==
    LET holding == ata.account.data
    IN  Require(/\ owner.is_authorized
                /\ IsHolding(holding)
                /\ IsAta(ata, owner, holding.definition_id, program),
                Output(<<Same(owner), Same(ata), Same(other)>>,
                       <<Call(ata.account.program_owner, pres, instruction,
                              {AtaSeed(owner.account_id, holding.definition_id)})>>))

transfer_from_associated_token_account(owner, ata, recipient, program, amount) ==
    FromAta(owner, ata, recipient, program, <<Authorize(ata), recipient>>,
            [op |-> "Transfer", amount |-> amount])

burn_from_associated_token_account(owner, ata, definition, program, amount) ==
    FromAta(owner, ata, definition, program, <<definition, Authorize(ata)>>,
            [op |-> "Burn", amount |-> amount])

AtaProgram(pres, ins) ==
    CASE ins.op = "Create" /\ Len(pres) = 3 ->
            create_associated_token_account(pres[1], pres[2], pres[3], ins.ata_program_id)
      [] ins.op = "AtaTransfer" /\ Len(pres) = 3 ->
            transfer_from_associated_token_account(pres[1], pres[2], pres[3], ins.ata_program_id, ins.amount)
      [] ins.op = "AtaBurn" /\ Len(pres) = 3 ->
            burn_from_associated_token_account(pres[1], pres[2], pres[3], ins.ata_program_id, ins.amount)
      [] OTHER -> Panic
==============================================================================
