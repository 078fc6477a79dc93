------------------------------ MODULE MCLedger ------------------------------
(***************************************************************************)
(* A small instance of Ledger: one user, programs P (deployed) and Q (to   *)
(* be deployed), a PDA of each, the bridge and a restricted account.       *)
(***************************************************************************)
EXTENDS Ledger

MCElf(p) == "elf"

MCSeed == {<<"s">>}

MCPda(p, s) == IF p = "P" THEN "vault" ELSE "safe"

Acc(owner, balance, data) ==
    [program_owner |-> owner, balance |-> balance, data |-> data, nonce |-> 0]

MCGenesis ==
    [id \in AccountId |->
        CASE id = "P"      -> ProgramAccount("P")
          [] id = "vault"  -> Acc("P", 1, NoData)
          [] id \in {"bridge", "clock"} -> Acc("P", 0, NoData)
          [] OTHER         -> DefaultAccount]

T(origin, signers, nonces, ids, touched) ==
    [origin |-> origin, signers |-> signers, nonces |-> nonces, account_ids |-> ids,
     touched |-> touched, program |-> "P"]

MCTransaction ==
    {T("user", <<"alice", "alice">>, <<0, 0>>, {"alice"}, {"alice", "vault", "safe"}),
     T("user", <<>>, <<>>, {"bridge"}, {"vault", "bridge", "clock"}),
     T("sequencer", <<>>, <<>>, {"clock"}, {"vault", "clock", "P"})}

C(p, seeds) == [program |-> p, seeds |-> seeds]

MCCallLists == {<<>>, <<C("Q", MCSeed)>>}
=============================================================================
