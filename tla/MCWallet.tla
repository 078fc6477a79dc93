------------------------------ MODULE MCWallet ------------------------------
(***************************************************************************)
(* A small instance of Wallet.                                             *)
(***************************************************************************)
EXTENDS Wallet

MCNobody == <<"nobody">>
MCStorage == <<"storage">>
P == <<"program", "P">>
S == <<"s">>
MCElf(p) == "elf"
MCPda(p, s) == <<"pda", p, s>>
MCAccountId == {P, MCPda(P, S)}
MCSeed == {S}
MCProgramId == {P}

InWorld(host, shared, imported, n) ==
    [host |-> host, shared |-> shared, imported |-> imported, messages |-> n]

MCImported == {<<"imported">>}
MCShared == {create_shared_pda_account(P, S, 0)}

MCWorld == {InWorld("cli", MCShared, {}, 3), InWorld("cli", {}, MCImported, 2), InWorld("ffi", {}, MCImported, 2)}
=============================================================================
