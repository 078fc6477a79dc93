-------------------------- MODULE MCPrivateLedger ---------------------------
(***************************************************************************)
(* A small instance of PrivateLedger: programs P and Q, a user with a      *)
(* public account, two holders of private keys, and the PDAs that one seed *)
(* of P has: a public one and a private one for each holder.               *)
(***************************************************************************)
EXTENDS PrivateLedger

P == <<"program", "P">>
Q == <<"program", "Q">>
S == <<"s">>
Alice == <<"key", "alice">>

MCNobody == <<"nobody">>
MCStorage == <<"storage">>
MCElf(p) == "elf"
MCPda(p, s) == <<"pda", p, s>>
MCProgramId == {P, Q}
MCSigner == {Alice}
MCSeed == {S}
MCPublicId == {Alice, MCPda(P, S)}
MCPrivatePda == {for_private_pda(P, S, NullifierPublicKey(k), k, 0) : k \in {"a", "b"}}
MCAccountId == MCProgramId \cup MCPublicId \cup {MCPda(Q, S)}

Acc(owner, balance) ==
    [program_owner |-> owner, balance |-> balance, data |-> NoData, nonce |-> 0]

MCGenesisAccounts ==
    [id \in PublicId |-> IF id = Alice THEN Acc(P, 1) ELSE DefaultAccount]

MCGenesisNotes ==
    <<[id |-> for_regular_private_account(NullifierPublicKey("a"), "a", 0), account |-> Acc(P, 1)],
      [id |-> for_private_pda(P, S, NullifierPublicKey("b"), "b", 0), account |-> Acc(P, 1)]>>

Witness(kind, key, nullifier, ask, binding) ==
    [type |-> "Private", kind |-> kind, nsk |-> key, vpk |-> key, identifier |-> 0,
     nullifier |-> nullifier, ask |-> ask, binding |-> binding]

J(identities, dummies) == [program |-> P, identities |-> identities, dummies |-> dummies]

Dummy == [nullifier_seed |-> 1, commitment_seed |-> 1,
          note |-> encrypt(DefaultAccount, Regular(0), "padding", <<"dummy", 1>>)]

\* Shield; spend into a PDA; use two PDAs of one seed together; take a PDA out
\* with its own key and with another one; spend without authorization, padded.
MCJob ==
    {J(<<Public, Witness("Regular", "b", "Init", FALSE, NoBinding)>>, <<>>),
     J(<<Witness("Regular", "a", "Update", TRUE, NoBinding), Witness("Pda", "a", "Init", FALSE, NoBinding)>>, <<>>),
     J(<<Witness("Pda", "b", "Update", FALSE, <<P, S>>), Witness("Pda", "a", "Init", FALSE, NoBinding)>>, <<>>),
     J(<<Witness("Pda", "b", "Update", FALSE, <<P, S>>), Public>>, <<>>),
     J(<<Witness("Pda", "a", "Update", FALSE, NoBinding), Public>>, <<>>),
     J(<<Witness("Regular", "a", "Update", FALSE, NoBinding)>>, <<Dummy>>)}

E(chained, from) == [calls |-> chained, window |-> <<from, MaxBlock + 1>>]

MCEnding == {E(<<>>, 0), E(<<>>, 2), E(<<[program |-> Q, seeds |-> {S}]>>, 0)}
=============================================================================
