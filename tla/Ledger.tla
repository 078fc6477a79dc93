------------------------------- MODULE Ledger -------------------------------
(***************************************************************************)
(* The public ledger (V03State): public transactions, executed call by     *)
(* call against a diff (lee/state_machine/src/validated_state_diff), and   *)
(* program deployments (lee/state_machine/src/state), with the guards that *)
(* user transactions meet (lez/common/src/transaction.rs).                 *)
(*                                                                         *)
(* Programs are arbitrary: whatever a program outputs is taken account by  *)
(* account, and an output that breaks a rule fails the transaction.  The   *)
(* pre-states and flags of an output must be the expected ones, so only    *)
(* the post-states, the claims and the chained calls are choices.          *)
(***************************************************************************)
EXTENDS Accounts, FiniteSetsExt

CONSTANTS
    Genesis,                    \* the accounts of the initial state
    Transaction,                \* the public transactions that are submitted
    CallLists,                  \* the lists of chained calls a program can return
    Restricted,                 \* the clock accounts and the faucet
    Bridge,                     \* the bridge account
    MAX_NUMBER_CHAINED_CALLS,
    NoTx, NoCaller,
    MaxOutput,                  \* bound: accounts in one call's output
    MaxApplied                  \* bound: public transactions applied

\* Calls that one program asks for: [program, seeds].
Calls == [program : ProgramId, seeds : SUBSET Seed]

\* A call on the stack, with its caller data.
CallRecords ==
    [program : ProgramId, caller : ProgramId \cup {NoCaller}, seeds : SUBSET Seed,
     authorized : SUBSET AccountId]

\* `sequencer` transactions skip the guards on system accounts.  `touched` is
\* what the instruction data selects: the accounts that the programs output.
Transactions ==
    [origin : {"user", "sequencer"}, signers : Seq(Signer), nonces : Seq(Nat),
     account_ids : SUBSET AccountId, touched : SUBSET AccountId, program : ProgramId]

ASSUME LedgerAssumption ==
    /\ Genesis \in [AccountId -> Account]
    /\ \A id \in AccountId :
          Genesis[id].program_owner = DEFAULT_PROGRAM_OWNER => Genesis[id] = DefaultAccount
    /\ \A id \in AccountId :
          Genesis[id].program_owner = PROGRAM_STORAGE_OWNER => id \in ProgramId
    /\ \A p \in ProgramId : Genesis[p] \in {DefaultAccount, ProgramAccount(p)}
    /\ Transaction \subseteq Transactions
    /\ \A t \in Transaction : Len(t.nonces) = Len(t.signers)
    /\ NoTx \notin Transaction /\ NoCaller \notin ProgramId
    /\ CallLists \subseteq Seq(Calls)
    /\ Restricted \subseteq AccountId \ (ProgramId \cup Signer)
    /\ Bridge \in AccountId \ (ProgramId \cup Signer)
    /\ MAX_NUMBER_CHAINED_CALLS \in Nat

VARIABLES
    accounts,   \* public_state, total: an id without entry has the default account
    tx,         \* the transaction being validated
    diff,       \* state_diff: the accounts written by finished calls
    calls,      \* chained_calls: a stack of calls with their caller data
    out,        \* the accounts of the running call's output
    counter,    \* chain_calls_counter
    ran,        \* the programs that the transaction has run
    applied     \* the public transactions applied so far

exec == <<tx, diff, calls, out, counter, ran>>
vars == <<accounts, exec, applied>>

EmptyDiff == [id \in {} |-> DefaultAccount]

With(f, id, a) == [x \in DOMAIN f \cup {id} |-> IF x = id THEN a ELSE f[x]]

Over(f, g) == [x \in DOMAIN f \cup DOMAIN g |-> IF x \in DOMAIN f THEN f[x] ELSE g[x]]

Idle ==
    /\ tx = NoTx /\ diff = EmptyDiff /\ calls = <<>> /\ out = EmptyDiff
    /\ counter = 0 /\ ran = {}

Init == accounts = Genesis /\ Idle /\ applied = <<>>

\* get_program
Deployed(p) == accounts[p].program_owner = PROGRAM_STORAGE_OWNER

\* The signatures are good and there is one nonce for each (Transactions), so
\* what is left to compare is the nonces.
authenticate_public_transaction_signers(t) ==
    \A i \in 1..Len(t.signers) : accounts[t.signers[i]].nonce = t.nonces[i]

\* from_public_transaction up to the first call.
Submit(t) ==
    /\ tx = NoTx /\ Len(applied) < MaxApplied
    /\ authenticate_public_transaction_signers(t)
    /\ t.account_ids # {}
    /\ tx' = t
    /\ calls' = <<[program |-> t.program, caller |-> NoCaller, seeds |-> {},
                   authorized |-> {t.signers[i] : i \in 1..Len(t.signers)}]>>
    /\ UNCHANGED <<accounts, diff, out, counter, ran, applied>>

-----------------------------------------------------------------------------

\* The running call, which must be within the limit and of a known program.
call == Head(calls)

Running ==
    /\ calls # <<>>
    /\ counter <= MAX_NUMBER_CHAINED_CALLS
    /\ Deployed(call.program)

\* The account as the calls so far left it.
Expected(id) == IF id \in DOMAIN diff THEN diff[id] ELSE accounts[id]

\* In the caller's authorized set, or a PDA of the caller that it vouches for.
is_authorized(c, id) ==
    id \in c.authorized \/ (c.caller # NoCaller /\ \E s \in c.seeds : id = Pda(c.caller, s))

\* The next account of the running call's output.
OutputAccount(id, post, claim) ==
    /\ Running
    /\ id \in tx.touched \ DOMAIN out /\ Cardinality(DOMAIN out) < MaxOutput
    /\ ValidPost(Expected(id), post, call.program)
    /\ ValidClaim(id, post, claim, call.program, is_authorized(call, id))
    /\ out' = With(out, id, Claimed(post, claim, call.program))
    /\ UNCHANGED <<accounts, tx, diff, calls, counter, ran, applied>>

TotalBalance(f) == MapThenSumSet(LAMBDA id : f[id].balance, DOMAIN f)

\* Mutant: balances are compared only if the call wrote to the ledger before.
MutBalanced == diff # EmptyDiff => TotalBalance(out) = TotalBalance([id \in DOMAIN out |-> Expected(id)])

\* validate_execution: the total is preserved.
Balanced == TotalBalance(out) = TotalBalance([id \in DOMAIN out |-> Expected(id)])

\* Mutant: what a call lists is authorized for the calls it makes.
MutFinishCall(chained) ==
    /\ Running
    /\ Balanced
    /\ diff' = Over(out, diff)
    /\ calls' =
          [k \in 1..Len(chained) |->
              [program |-> chained[k].program, caller |-> call.program, seeds |-> chained[k].seeds,
               authorized |-> call.authorized \cup DOMAIN out]]
          \o Tail(calls)
    /\ out' = EmptyDiff
    /\ counter' = counter + 1
    /\ ran' = ran \cup {call.program}
    /\ UNCHANGED <<accounts, tx, applied>>

\* The running call ends: its output enters the diff and its chained calls run
\* next, with everything that was authorized so far.
FinishCall(chained) ==
    /\ Running
    /\ Balanced
    /\ diff' = Over(out, diff)
    /\ calls' =
          [k \in 1..Len(chained) |->
              [program |-> chained[k].program, caller |-> call.program, seeds |-> chained[k].seeds,
               authorized |-> call.authorized \cup {id \in DOMAIN out : is_authorized(call, id)}]]
          \o Tail(calls)
    /\ out' = EmptyDiff
    /\ counter' = counter + 1
    /\ ran' = ran \cup {call.program}
    /\ UNCHANGED <<accounts, tx, applied>>

-----------------------------------------------------------------------------

\* Every account without owner that was written has been claimed.
ClaimedAll ==
    \A id \in DOMAIN diff :
        /\ accounts[id].program_owner = DEFAULT_PROGRAM_OWNER
        /\ accounts[id] # diff[id]
        => diff[id].program_owner # DEFAULT_PROGRAM_OWNER

\* validate_on_state: the clock accounts and the faucet are as before, and the
\* bridge only gains.
Guarded ==
    /\ \A id \in Restricted \cap DOMAIN diff : diff[id] = accounts[id]
    /\ Bridge \in DOMAIN diff =>
          /\ diff[Bridge] = [accounts[Bridge] EXCEPT !.balance = diff[Bridge].balance]
          /\ accounts[Bridge].balance < diff[Bridge].balance

\* How often an account signed.
Signatures(t, id) == Cardinality({i \in 1..Len(t.signers) : t.signers[i] = id})

\* apply_state_diff: the diff, then one increment per signature.
AfterDiff(id) ==
    LET a == IF id \in DOMAIN diff THEN diff[id] ELSE accounts[id]
    IN  [a EXCEPT !.nonce = @ + Signatures(tx, id)]

Reset ==
    /\ tx' = NoTx /\ diff' = EmptyDiff /\ calls' = <<>> /\ out' = EmptyDiff
    /\ counter' = 0 /\ ran' = {}

\* The call stack is empty and the last checks pass.
Commit ==
    /\ tx # NoTx /\ calls = <<>>
    /\ ClaimedAll
    /\ tx.account_ids \subseteq DOMAIN diff
    /\ tx.origin = "user" => Guarded
    /\ accounts' = [id \in AccountId |-> AfterDiff(id)]
    /\ applied' = Append(applied, tx)
    /\ Reset

\* Any check can refuse the transaction, which then leaves no trace.
Fail ==
    /\ tx # NoTx
    /\ Reset
    /\ UNCHANGED <<accounts, applied>>

\* transition_from_program_deployment_transaction
Deploy(p) ==
    /\ tx = NoTx
    /\ ~Deployed(p)
    /\ accounts' = [accounts EXCEPT ![p] = ProgramAccount(p)]
    /\ UNCHANGED <<exec, applied>>

\* Post-states a program can return for an account; nonces further off are
\* refused like the ones here that differ.
Posts(id) ==
    [program_owner : Owner, balance : 0..MaxBalance, data : Data, nonce : 0..(Expected(id).nonce + 1)]

Next ==
    \/ \E t \in Transaction : Submit(t)
    \/ \E id \in AccountId : \E post \in Posts(id), claim \in Claims : OutputAccount(id, post, claim)
    \/ \E chained \in CallLists : FinishCall(chained)
    \/ Commit
    \/ Fail
    \/ \E p \in ProgramId : Deploy(p)

Spec == Init /\ [][Next]_vars

-----------------------------------------------------------------------------

IsDiff(f) == DOMAIN f \subseteq AccountId /\ f \in [DOMAIN f -> Account]

\* The type of the state.
TypeOK ==
    /\ accounts \in [AccountId -> Account]
    /\ tx \in Transaction \cup {NoTx}
    /\ IsDiff(diff) /\ IsDiff(out)
    /\ calls \in Seq(CallRecords)
    /\ counter \in Nat /\ ran \subseteq ProgramId /\ applied \in Seq(Transaction)

\* An account that no program owns holds nothing: no chain of calls leaves
\* balance or data on an account that was not claimed.
UnownedIsEmpty ==
    \A id \in AccountId :
        accounts[id].program_owner = DEFAULT_PROGRAM_OWNER =>
            accounts[id] = [DefaultAccount EXCEPT !.nonce = accounts[id].nonce]

\* A signed transaction is applied at most once, however often it is submitted.
SignedOnce ==
    \A i, j \in 1..Len(applied) :
        i # j /\ applied[i] = applied[j] => applied[i].signers = <<>>

\* The account signed, or is a PDA of a program that ran.
Rooted(id) ==
    \/ \E i \in 1..Len(tx.signers) : tx.signers[i] = id
    \/ \E p \in ran, s \in Seed : id = Pda(p, s)

\* What a call is authorized for goes back to a signature, or to a program that
\* ran and vouched for a PDA of its own.
AuthorizationIsRooted ==
    \A k \in 1..Len(calls) : \A id \in AccountId :
        is_authorized(calls[k], id) => Rooted(id)

\* No transaction or deployment creates or destroys balance.
BalanceIsConserved == TotalBalance(accounts) = TotalBalance(Genesis)

\* An account loses balance, or has its data changed, only by a transaction that
\* ran the program that owns it, unless nobody owned it.
OnlyTheOwnerTakes ==
    [][\A id \in AccountId :
          \/ accounts'[id].balance < accounts[id].balance
          \/ accounts'[id].data # accounts[id].data
          => accounts[id].program_owner \in ran \cup {DEFAULT_PROGRAM_OWNER}]_vars

\* An account gets an owner once: from no owner to a program that ran, for an
\* account that signed or is a PDA of a program that ran, or to the storage of a
\* program that is deployed there.
OwnedOnceByConsent ==
    [][\A id \in AccountId :
          accounts'[id].program_owner # accounts[id].program_owner =>
              /\ accounts[id].program_owner = DEFAULT_PROGRAM_OWNER
              /\ \/ accounts'[id].program_owner \in ran /\ Rooted(id)
                 \/ id \in ProgramId /\ accounts'[id] = ProgramAccount(id)]_vars

\* A deployed program stays deployed with the code its id stands for.
CodeIsImmutable ==
    [][\A p \in ProgramId : Deployed(p) =>
          /\ accounts'[p].program_owner = PROGRAM_STORAGE_OWNER
          /\ accounts'[p].data = accounts[p].data]_vars

\* A nonce moves by the account's signatures on an applied transaction and in no
\* other way.
NonceCountsSignatures ==
    [][\A id \in AccountId :
          accounts'[id].nonce = accounts[id].nonce + (IF applied' = applied THEN 0
                                                      ELSE Signatures(tx, id))]_vars

\* A user transaction leaves the clock accounts and the faucet alone, nonce
\* included, and takes nothing from the bridge.
SystemAccountsAreSafe ==
    [][tx # NoTx /\ tx.origin = "user" =>
          /\ \A id \in Restricted : accounts'[id] = accounts[id]
          /\ accounts'[Bridge] = [accounts[Bridge] EXCEPT !.balance = accounts'[Bridge].balance]
          /\ accounts'[Bridge].balance >= accounts[Bridge].balance]_vars
=============================================================================
