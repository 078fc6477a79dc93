------------------------------ MODULE Accounts -------------------------------
(***************************************************************************)
(* Accounts, their ids and the rules that every program execution must     *)
(* obey (lee/state_machine/core/src/program/mod.rs, account.rs).           *)
(*                                                                         *)
(* An account id is the hash of a public key, a program's id (the account  *)
(* that stores its code), a PDA of a program and a seed, or a fixed system *)
(* id.  Ids are hashes, so they do not collide.                            *)
(***************************************************************************)
EXTENDS Integers, Sequences, FiniteSets

CONSTANTS
    AccountId,
    ProgramId,              \* ids of programs, deployed or not
    Signer,                 \* ids of public keys
    Seed,                   \* PDA seeds
    Pda(_, _),              \* AccountId::for_public_pda
    Data, NoData,           \* contents of an account
    Elf(_),                 \* a program's code
    MaxBalance,             \* u128::MAX
    DEFAULT_PROGRAM_OWNER,  \* owner of an account that no program has claimed
    PROGRAM_STORAGE_OWNER   \* owner of the accounts that hold programs

ASSUME IdAssumption ==
    /\ ProgramId \subseteq AccountId /\ Signer \subseteq AccountId
    /\ ProgramId \cap Signer = {}
    /\ \A p \in ProgramId, s \in Seed : Pda(p, s) \in AccountId \ (ProgramId \cup Signer)
    /\ \A p, q \in ProgramId, s, t \in Seed : Pda(p, s) = Pda(q, t) => p = q /\ s = t
    /\ DEFAULT_PROGRAM_OWNER # PROGRAM_STORAGE_OWNER
    /\ DEFAULT_PROGRAM_OWNER \notin ProgramId /\ PROGRAM_STORAGE_OWNER \notin ProgramId

ASSUME DataAssumption ==
    /\ MaxBalance \in Nat
    /\ NoData \in Data /\ \A p \in ProgramId : Elf(p) \in Data

Owner == ProgramId \cup {DEFAULT_PROGRAM_OWNER, PROGRAM_STORAGE_OWNER}

Account == [program_owner : Owner, balance : 0..MaxBalance, data : Data, nonce : Nat]

DefaultAccount ==
    [program_owner |-> DEFAULT_PROGRAM_OWNER, balance |-> 0, data |-> NoData, nonce |-> 0]

\* The account that insert_program stores a program in.
ProgramAccount(p) ==
    [program_owner |-> PROGRAM_STORAGE_OWNER, balance |-> 0, data |-> Elf(p), nonce |-> 0]

\* What a program's output may ask for: nothing, ownership of an account that
\* was authorized, or of a PDA of its own.
NoClaim == <<"none">>

AuthorizedClaim == <<"authorized">>

Claims == {NoClaim, AuthorizedClaim} \cup Seed

ASSUME SeedAssumption == Seed \cap {NoClaim, AuthorizedClaim} = {}

-----------------------------------------------------------------------------

\* validate_execution, one account: what `program` may make of it.
ValidPost(pre, post, program) ==
    /\ post.nonce = pre.nonce
    /\ post.program_owner = pre.program_owner
    /\ post.balance < pre.balance => pre.program_owner = program
    /\ post.data # pre.data => pre = DefaultAccount \/ pre.program_owner = program
    /\ post.program_owner = DEFAULT_PROGRAM_OWNER => pre = DefaultAccount

\* The conditions of a claim on an account with this output.
ValidClaim(id, post, claim, program, authorized) ==
    claim # NoClaim =>
        /\ post.program_owner = DEFAULT_PROGRAM_OWNER
        /\ claim = AuthorizedClaim => authorized
        /\ claim \in Seed => id = Pda(program, claim)

\* The account as it enters the diff.
Claimed(post, claim, program) ==
    IF claim = NoClaim THEN post ELSE [post EXCEPT !.program_owner = program]

-----------------------------------------------------------------------------
(***************************************************************************)
(* Private accounts: their keys and ids, commitments, nullifiers, nonces   *)
(* and encrypted notes (lee/state_machine/core/src).  Hashes and key       *)
(* derivations are free constructors: they do not collide and cannot be    *)
(* inverted.  A private nonce is a hash chain that starts at the account   *)
(* and continues with its nullifier key; its place in the chain stands for *)
(* it.                                                                     *)
(***************************************************************************)

\* From<&NullifierSecretKey> for NullifierPublicKey
NullifierPublicKey(nsk) == <<"npk", nsk>>

for_regular_private_account(npk, vpk, identifier) == <<"private", npk, vpk, identifier>>

for_private_pda(program, seed, npk, vpk, identifier) ==
    <<"private_pda", npk, vpk, identifier, program, seed>>

\* PrivateAccountKind, the header of a note.
Regular(identifier) == [type |-> "Regular", identifier |-> identifier]

PdaKind(program, seed, identifier) ==
    [type |-> "Pda", program |-> program, seed |-> seed, identifier |-> identifier]

for_private_account(npk, vpk, kind) ==
    IF kind.type = "Regular" THEN for_regular_private_account(npk, vpk, kind.identifier)
    ELSE for_private_pda(kind.program, kind.seed, npk, vpk, kind.identifier)

\* The keys that an id commits to.
NpkOf(id) == id[2]

VpkOf(id) == id[3]

-----------------------------------------------------------------------------

Commitment(id, account) == <<"commitment", id, account>>

CommitmentForDummy(nullifier, seed) == <<"dummy", nullifier, seed>>

DUMMY_COMMITMENT == <<"zero commitment">>

IsNote(c) == c[1] = "commitment"

\* The key of a nullifier is determined by the public key in the account's id.
for_account_update(commitment, nsk) == <<"update", commitment, nsk>>

for_account_initialization(id) == <<"init", id>>

NullifierForDummy(seed) == <<"dummy", seed>>

private_account_nonce_init(id) == 1

private_account_nonce_increment(nonce, nsk) == nonce + 1

\* EncryptionScheme::encrypt under a secret encapsulated to vpk, with a key that
\* depends on the nullifier.
encrypt(account, kind, vpk, nullifier) ==
    [account |-> account, kind |-> kind, vpk |-> vpk, nullifier |-> nullifier]

\* What the holder of vpk's secret reads in a note posted with this nullifier.
decrypt(note, vpk, nullifier) ==
    IF note.vpk = vpk /\ note.nullifier = nullifier
    THEN {[account |-> note.account, kind |-> note.kind]} ELSE {}
==============================================================================
