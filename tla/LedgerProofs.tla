---------------------------- MODULE LedgerProofs ----------------------------
(***************************************************************************)
(* The safety properties of Ledger for every set of accounts, programs and *)
(* transactions, any number of chained calls and arbitrary program         *)
(* outputs.  The conservation of balance is a sum over a set, which is out *)
(* of the provers' reach: TLC checks it.                                   *)
(***************************************************************************)
EXTENDS Ledger, FiniteSetTheorems, TLAPS

\* What the programs ps may make of an account, one after the other.
Lawful(a, b, ps, consent) ==
    /\ b.nonce = a.nonce
    /\ \/ b.program_owner = a.program_owner
       \/ a.program_owner = DEFAULT_PROGRAM_OWNER /\ b.program_owner \in ps /\ consent
    /\ \/ b.balance < a.balance
       \/ b.data # a.data
       => a.program_owner \in ps \cup {DEFAULT_PROGRAM_OWNER}

\* The account signed, or is a PDA of a program that ran or of the running one.
RootedNow(id) == Rooted(id) \/ \E s \in Seed : id = Pda(call.program, s)

\* The diff is what the programs that ran may make of the accounts.
DiffIsLawful ==
    \A id \in DOMAIN diff : Lawful(accounts[id], diff[id], ran, Rooted(id))

\* The output is what the running program may make of the accounts it met.
OutIsLawful ==
    \A id \in DOMAIN out : Lawful(Expected(id), out[id], {call.program}, RootedNow(id))

\* A program id holds its program or nothing.
ProgramIdsHoldPrograms ==
    \A p \in ProgramId :
        accounts[p] = DefaultAccount \/ accounts[p].program_owner = PROGRAM_STORAGE_OWNER

\* Between transactions nothing is left of the last one.
IdleIsClean ==
    /\ tx = NoTx => calls = <<>> /\ DOMAIN diff = {}
    /\ calls = <<>> => DOMAIN out = {}

\* The running transaction carries the nonces of its signers.
NoncesAreCurrent ==
    tx # NoTx =>
        \A i \in 1..Len(tx.signers) : accounts[tx.signers[i]].nonce = tx.nonces[i]

\* An applied transaction carries nonces of the past.
NoncesAreSpent ==
    \A j \in 1..Len(applied) : \A k \in 1..Len(applied[j].signers) :
        applied[j].nonces[k] < accounts[applied[j].signers[k]].nonce

\* The inductive invariant.
IInv ==
    /\ TypeOK
    /\ UnownedIsEmpty
    /\ ProgramIdsHoldPrograms
    /\ IdleIsClean
    /\ AuthorizationIsRooted
    /\ DiffIsLawful
    /\ OutIsLawful
    /\ NoncesAreCurrent
    /\ NoncesAreSpent
    /\ SignedOnce

-----------------------------------------------------------------------------

\* Whatever lawful steps follow each other are lawful together.
LEMMA LawfulTrans ==
    ASSUME NEW a \in Account, NEW b \in Account, NEW c \in Account,
           NEW ps \in SUBSET ProgramId, NEW qs \in SUBSET ProgramId,
           NEW m \in BOOLEAN, NEW n \in BOOLEAN, NEW k \in BOOLEAN,
           m => k, n => k,
           Lawful(a, b, ps, m), Lawful(b, c, qs, n)
    PROVE  Lawful(a, c, ps \cup qs, k)
<1>1. DEFAULT_PROGRAM_OWNER \notin ps \cup qs
  BY IdAssumption
<1>2. /\ a.balance \in Int /\ b.balance \in Int /\ c.balance \in Int
  BY DataAssumption DEF Account
<1> QED
  BY <1>1, <1>2 DEF Lawful

\* Leaving an account alone is lawful.
LEMMA LawfulRefl ==
    ASSUME NEW a \in Account, NEW ps, NEW k
    PROVE  Lawful(a, a, ps, k)
<1>1. a.balance \in Int
  BY DataAssumption DEF Account
<1> QED
  BY <1>1 DEF Lawful

\* One account of an output that passes the rules is a lawful step.
LEMMA OutputIsLawful ==
    ASSUME NEW id \in AccountId, NEW pre \in Account, NEW post \in Account,
           NEW claim \in Claims, NEW p \in ProgramId, NEW auth \in BOOLEAN, NEW k \in BOOLEAN,
           ValidPost(pre, post, p), ValidClaim(id, post, claim, p, auth),
           auth => k, (\E s \in Seed : id = Pda(p, s)) => k
    PROVE  /\ Lawful(pre, Claimed(post, claim, p), {p}, k)
           /\ Claimed(post, claim, p) \in Account
<1>1. DEFAULT_PROGRAM_OWNER \notin ProgramId
  BY IdAssumption
<1>2. pre = DefaultAccount => pre.program_owner = DEFAULT_PROGRAM_OWNER
  BY DEF DefaultAccount
<1>3. CASE claim = NoClaim
  BY <1>2, <1>3 DEF Claimed, Lawful, ValidPost
<1>4. CASE claim # NoClaim
  <2>1. Claimed(post, claim, p) = [post EXCEPT !.program_owner = p]
    BY <1>4 DEF Claimed
  <2>2. post.program_owner = DEFAULT_PROGRAM_OWNER /\ pre.program_owner = DEFAULT_PROGRAM_OWNER
    BY <1>4 DEF ValidClaim, ValidPost
  <2>3. k
    BY <1>4, SeedAssumption DEF ValidClaim, Claims
  <2>4. p \in Owner
    BY DEF Owner
  <2> DEFINE c == [post EXCEPT !.program_owner = p]
  <2>5. /\ c.program_owner = p /\ c.nonce = post.nonce /\ c.balance = post.balance
        /\ c.data = post.data /\ c \in Account
    BY <2>4 DEF Account
  <2> QED
    BY <2>1, <2>2, <2>3, <2>5 DEF Lawful, ValidPost
<1> QED
  BY <1>3, <1>4

\* A signer's nonce moves, anybody else's does not.
LEMMA SignaturesCount ==
    ASSUME NEW t \in Transaction, NEW id
    PROVE  /\ Signatures(t, id) \in Nat
           /\ (\E i \in 1..Len(t.signers) : t.signers[i] = id) => Signatures(t, id) > 0
           /\ (\A i \in 1..Len(t.signers) : t.signers[i] # id) => Signatures(t, id) = 0
<1> DEFINE S == {i \in 1..Len(t.signers) : t.signers[i] = id}
<1>1. Len(t.signers) \in Nat
  BY LedgerAssumption DEF Transactions
<1>2. IsFiniteSet(1..Len(t.signers))
  BY <1>1, FS_Interval
<1>3. IsFiniteSet(S) /\ Cardinality(S) \in Nat
  BY <1>2, FS_Subset, FS_CardinalityType
<1>4. Cardinality(S) = 0 <=> S = {}
  BY <1>3, FS_EmptySet
<1>5. Signatures(t, id) = Cardinality(S)
  BY DEF Signatures
<1> QED
  BY <1>3, <1>4, <1>5

-----------------------------------------------------------------------------

\* The initial state satisfies the invariant.
LEMMA InitOK == Init => IInv
<1> SUFFICES ASSUME Init PROVE IInv
  OBVIOUS
<1>1. /\ accounts = Genesis /\ tx = NoTx /\ diff = EmptyDiff /\ calls = <<>> /\ out = EmptyDiff
      /\ counter = 0 /\ ran = {} /\ applied = <<>>
  BY DEF Init, Idle
<1>2. DOMAIN EmptyDiff = {} /\ IsDiff(EmptyDiff)
  BY DEF EmptyDiff, IsDiff
<1>3. TypeOK
  BY <1>1, <1>2, LedgerAssumption DEF TypeOK
<1>4. UnownedIsEmpty
  BY <1>1, LedgerAssumption DEF UnownedIsEmpty, DefaultAccount
<1>5. ProgramIdsHoldPrograms
  BY <1>1, LedgerAssumption DEF ProgramIdsHoldPrograms, ProgramAccount
<1>6. IdleIsClean /\ DiffIsLawful /\ OutIsLawful
  BY <1>1, <1>2 DEF IdleIsClean, DiffIsLawful, OutIsLawful
<1>7. AuthorizationIsRooted /\ NoncesAreCurrent /\ NoncesAreSpent /\ SignedOnce
  BY <1>1 DEF AuthorizationIsRooted, NoncesAreCurrent, NoncesAreSpent, SignedOnce
<1> QED
  BY <1>3, <1>4, <1>5, <1>6, <1>7 DEF IInv

\* The account as the calls so far left it is an account.
LEMMA ExpectedType ==
    ASSUME TypeOK, NEW id \in AccountId PROVE Expected(id) \in Account
  BY DEF TypeOK, IsDiff, Expected

\* A transaction is picked up.
LEMMA SubmitOK ==
    ASSUME IInv, NEW t \in Transaction, Submit(t) PROVE IInv'
<1> DEFINE first == [program |-> t.program, caller |-> NoCaller, seeds |-> {},
                     authorized |-> {t.signers[i] : i \in 1..Len(t.signers)}]
<1>1. /\ tx = NoTx /\ tx' = t /\ calls' = <<first>>
      /\ UNCHANGED <<accounts, diff, out, counter, ran, applied>>
      /\ \A i \in 1..Len(t.signers) : accounts[t.signers[i]].nonce = t.nonces[i]
  BY DEF Submit, authenticate_public_transaction_signers
<1>2. DOMAIN diff = {} /\ DOMAIN out = {}
  BY <1>1 DEF IInv, IdleIsClean
<1>3. t \in Transactions /\ t # NoTx /\ Signer \subseteq AccountId
  BY LedgerAssumption, IdAssumption
<1>4. first \in CallRecords
  BY <1>3 DEF CallRecords, Transactions
<1>5. TypeOK'
  BY <1>1, <1>4 DEF IInv, TypeOK
<1>6. UnownedIsEmpty' /\ ProgramIdsHoldPrograms' /\ NoncesAreSpent' /\ SignedOnce'
  BY <1>1 DEF IInv, UnownedIsEmpty, ProgramIdsHoldPrograms, NoncesAreSpent, SignedOnce
<1>7. IdleIsClean' /\ DiffIsLawful' /\ OutIsLawful' /\ NoncesAreCurrent'
  BY <1>1, <1>2, <1>3 DEF IdleIsClean, DiffIsLawful, OutIsLawful, NoncesAreCurrent
<1>8. AuthorizationIsRooted'
  <2>1. Len(calls') = 1 /\ calls'[1] = first
    BY <1>1
  <2>2. ASSUME NEW id \in AccountId, is_authorized(first, id) PROVE Rooted(id)'
    BY <2>2, <1>1 DEF is_authorized, Rooted
  <2> QED
    BY <2>1, <2>2 DEF AuthorizationIsRooted, is_authorized
<1> QED
  BY <1>5, <1>6, <1>7, <1>8 DEF IInv

\* The next account of an output.
LEMMA OutputAccountOK ==
    ASSUME IInv, NEW id \in AccountId, NEW post \in Posts(id), NEW claim \in Claims,
           OutputAccount(id, post, claim)
    PROVE  IInv'
<1>1. /\ calls # <<>> /\ id \notin DOMAIN out
      /\ ValidPost(Expected(id), post, call.program)
      /\ ValidClaim(id, post, claim, call.program, is_authorized(call, id))
      /\ out' = With(out, id, Claimed(post, claim, call.program))
      /\ UNCHANGED <<accounts, tx, diff, calls, counter, ran, applied>>
  BY DEF OutputAccount, Running
<1>2. TypeOK
  BY DEF IInv
<1>3. call \in CallRecords /\ call = calls[1] /\ 1 \in 1..Len(calls)
  BY <1>1, <1>2 DEF call, TypeOK
<1>4. call.program \in ProgramId
  BY <1>3 DEF CallRecords
<1>5. Expected(id) \in Account
  BY <1>2, ExpectedType
<1>6. post \in Account
  BY <1>5 DEF Posts, Account
<1>7. is_authorized(call, id) => RootedNow(id)
  BY <1>3 DEF IInv, AuthorizationIsRooted, RootedNow
<1>8. is_authorized(call, id) \in BOOLEAN /\ RootedNow(id) \in BOOLEAN
  BY DEF is_authorized, RootedNow, Rooted
<1> DEFINE new == Claimed(post, claim, call.program)
<1>9. Lawful(Expected(id), new, {call.program}, RootedNow(id)) /\ new \in Account
  BY <1>1, <1>4, <1>5, <1>6, <1>7, <1>8, OutputIsLawful, Zenon DEF RootedNow
<1> HIDE DEF new
<1>10. /\ DOMAIN out' = DOMAIN out \cup {id} /\ out'[id] = new
       /\ \A j \in DOMAIN out : out'[j] = out[j]
  BY <1>1 DEF With, new
<1>11. IsDiff(out)
  BY <1>2 DEF TypeOK
<1>12. IsDiff(out)'
  <2>1. out' = [j \in DOMAIN out' |-> out'[j]]
    BY <1>1 DEF With
  <2>2. DOMAIN out' \subseteq AccountId /\ \A j \in DOMAIN out' : out'[j] \in Account
    BY <1>9, <1>10, <1>11 DEF IsDiff
  <2> QED
    BY <2>1, <2>2 DEF IsDiff
<1>13. TypeOK'
  BY <1>1, <1>2, <1>12 DEF TypeOK, IsDiff
<1>14. /\ call' = call
       /\ \A j : Expected(j)' = Expected(j)
       /\ \A j : RootedNow(j)' = RootedNow(j) /\ Rooted(j)' = Rooted(j)
  BY <1>1 DEF call, Expected, RootedNow, Rooted
<1>15. OutIsLawful'
  BY <1>9, <1>10, <1>14 DEF IInv, OutIsLawful
<1>16. UnownedIsEmpty' /\ ProgramIdsHoldPrograms' /\ NoncesAreSpent' /\ SignedOnce' /\ NoncesAreCurrent'
  BY <1>1 DEF IInv, UnownedIsEmpty, ProgramIdsHoldPrograms, NoncesAreSpent, SignedOnce, NoncesAreCurrent
<1>17. IdleIsClean'
  BY <1>1 DEF IInv, IdleIsClean
<1>18. AuthorizationIsRooted'
  BY <1>1, <1>14 DEF IInv, AuthorizationIsRooted, is_authorized
<1>19. DiffIsLawful'
  BY <1>1, <1>14 DEF IInv, DiffIsLawful
<1> QED
  BY <1>13, <1>15, <1>16, <1>17, <1>18, <1>19 DEF IInv

\* A call ends: output and diff compose, and the calls it asks for inherit what
\* was authorized.
LEMMA FinishCallOK ==
    ASSUME IInv, NEW chained \in CallLists, FinishCall(chained) PROVE IInv'
<1> DEFINE auth == call.authorized \cup {id \in DOMAIN out : is_authorized(call, id)}
           pushed == [k \in 1..Len(chained) |->
                         [program |-> chained[k].program, caller |-> call.program,
                          seeds |-> chained[k].seeds, authorized |-> auth]]
<1>1. /\ calls # <<>>
      /\ diff' = Over(out, diff)
      /\ calls' = pushed \o Tail(calls)
      /\ out' = EmptyDiff /\ counter' = counter + 1 /\ ran' = ran \cup {call.program}
      /\ UNCHANGED <<accounts, tx, applied>>
  BY DEF FinishCall, Running
<1>2. TypeOK /\ tx # NoTx
  BY <1>1 DEF IInv, IdleIsClean
<1>3. call \in CallRecords /\ call = calls[1] /\ 1 \in 1..Len(calls)
  BY <1>1, <1>2 DEF call, TypeOK
<1>4. call.program \in ProgramId /\ call.authorized \in SUBSET AccountId
  BY <1>3 DEF CallRecords
<1>5. ran \in SUBSET ProgramId /\ IsDiff(diff) /\ IsDiff(out) /\ calls \in Seq(CallRecords)
  BY <1>2 DEF TypeOK
<1>6. \A id : /\ RootedNow(id) => Rooted(id)'
              /\ Rooted(id) => Rooted(id)'
  BY <1>1 DEF RootedNow, Rooted
<1>7. /\ DOMAIN diff' = DOMAIN out \cup DOMAIN diff
      /\ \A id \in DOMAIN out : diff'[id] = out[id]
      /\ \A id \in DOMAIN diff \ DOMAIN out : diff'[id] = diff[id]
      /\ diff' = [id \in DOMAIN diff' |-> diff'[id]]
  BY <1>1 DEF Over
<1>8. DOMAIN out' = {} /\ IsDiff(out)'
  BY <1>1 DEF EmptyDiff, IsDiff
<1>9. IsDiff(diff)'
  <2>1. DOMAIN diff' \subseteq AccountId /\ \A id \in DOMAIN diff' : diff'[id] \in Account
    BY <1>5, <1>7 DEF IsDiff
  <2> QED
    BY <2>1, <1>7 DEF IsDiff
<1>10. DiffIsLawful'
  <2> SUFFICES ASSUME NEW id \in DOMAIN diff'
               PROVE  Lawful(accounts[id], diff'[id], ran', Rooted(id)')
    BY <1>1 DEF DiffIsLawful
  <2>1. /\ id \in AccountId /\ accounts[id] \in Account /\ diff'[id] \in Account
        /\ ran' \in SUBSET ProgramId
    BY <1>1, <1>2, <1>4, <1>5, <1>9 DEF TypeOK, IsDiff
  <2>2. /\ Rooted(id) \in BOOLEAN /\ RootedNow(id) \in BOOLEAN /\ Rooted(id)' \in BOOLEAN
    BY DEF Rooted, RootedNow
  <2>3. Lawful(accounts[id], accounts[id], {}, FALSE)
    BY <2>1, LawfulRefl, Zenon
  <2>4. CASE id \notin DOMAIN out
    <3>1. Lawful(accounts[id], diff'[id], ran, Rooted(id))
      BY <2>4, <1>7 DEF IInv, DiffIsLawful
    <3>2. Rooted(id) => Rooted(id)'
      BY <1>6
    <3> QED
      BY <3>1, <3>2, <1>1 DEF Lawful
  <2>5. CASE id \in DOMAIN out
    <3>1. Lawful(Expected(id), diff'[id], {call.program}, RootedNow(id))
      BY <2>5, <1>7 DEF IInv, OutIsLawful
    <3>2. Lawful(accounts[id], Expected(id), ran, Rooted(id))
      <4>1. CASE id \in DOMAIN diff
        BY <4>1 DEF IInv, DiffIsLawful, Expected
      <4>2. CASE id \notin DOMAIN diff
        BY <4>2, <2>1, LawfulRefl DEF Expected
      <4> QED
        BY <4>1, <4>2
    <3>3. Expected(id) \in Account
      BY <1>2, <2>1, ExpectedType
    <3>4. (Rooted(id) => Rooted(id)') /\ (RootedNow(id) => Rooted(id)')
      BY <1>6
    <3>5. {call.program} \in SUBSET ProgramId
      BY <1>4
    <3>6. Lawful(accounts[id], diff'[id], ran \cup {call.program}, Rooted(id)')
      BY <3>1, <3>2, <3>3, <3>4, <3>5, <2>1, <2>2, <1>5, LawfulTrans
    <3> QED
      BY <3>6, <1>1
  <2> QED
    BY <2>4, <2>5
<1>11. auth \in SUBSET AccountId
  BY <1>4, <1>5 DEF IsDiff
<1>12. chained \in Seq(Calls)
  BY LedgerAssumption
<1>13. ASSUME NEW k \in 1..Len(chained)
       PROVE  chained[k].program \in ProgramId /\ chained[k].seeds \in SUBSET Seed
  <2>1. chained[k] \in Calls
    BY <1>12
  <2> QED
    BY <2>1 DEF Calls
<1>14. pushed \in Seq(CallRecords) /\ Len(pushed) = Len(chained) /\ Tail(calls) \in Seq(CallRecords)
  <2> HIDE DEF auth
  <2>1. \A k \in 1..Len(chained) : pushed[k] \in CallRecords
    BY <1>4, <1>11, <1>13 DEF CallRecords
  <2>2. Len(chained) \in Nat
    BY <1>12
  <2> QED
    BY <2>1, <2>2, <1>1, <1>5
<1>15. TypeOK'
  <2>1. calls' \in Seq(CallRecords)
    BY <1>1, <1>14
  <2> QED
    BY <2>1, <1>1, <1>2, <1>4, <1>8, <1>9 DEF TypeOK
<1>16. AuthorizationIsRooted'
  <2> SUFFICES ASSUME NEW k \in 1..Len(calls'), NEW id \in AccountId,
                      is_authorized(calls'[k], id)
               PROVE  Rooted(id)'
    BY DEF AuthorizationIsRooted, is_authorized
  <2>1. CASE k \in 1..Len(chained)
    <3>1. /\ calls'[k].authorized = auth /\ calls'[k].caller = call.program
          /\ calls'[k].seeds = chained[k].seeds
      <4> HIDE DEF auth
      <4>1. calls'[k] = pushed[k]
        BY <2>1, <1>1, <1>14
      <4> QED
        BY <4>1, <2>1
    <3>2. chained[k].seeds \subseteq Seed
      BY <2>1, <1>13
    <3>3. CASE id \in auth
      <4>1. is_authorized(calls[1], id)
        BY <3>3, <1>3 DEF is_authorized
      <4> QED
        BY <4>1, <1>3, <1>6 DEF IInv, AuthorizationIsRooted
    <3>4. CASE id \notin auth
      <4>1. \E s \in Seed : id = Pda(call.program, s)
        BY <3>1, <3>2, <3>4 DEF is_authorized
      <4> QED
        BY <4>1, <1>1 DEF Rooted
    <3> QED
      BY <3>3, <3>4
  <2>2. CASE k \notin 1..Len(chained)
    <3> HIDE DEF pushed
    <3>1. /\ k - Len(chained) + 1 \in 1..Len(calls)
          /\ calls'[k] = calls[k - Len(chained) + 1]
      BY <2>2, <1>1, <1>5, <1>12, <1>14
    <3> QED
      BY <3>1, <1>6 DEF IInv, AuthorizationIsRooted
  <2> QED
    BY <2>1, <2>2
<1>17. UnownedIsEmpty' /\ ProgramIdsHoldPrograms' /\ NoncesAreSpent' /\ SignedOnce' /\ NoncesAreCurrent'
  BY <1>1 DEF IInv, UnownedIsEmpty, ProgramIdsHoldPrograms, NoncesAreSpent, SignedOnce, NoncesAreCurrent
<1>18. IdleIsClean' /\ OutIsLawful'
  BY <1>1, <1>2, <1>8 DEF IdleIsClean, OutIsLawful
<1> QED
  BY <1>10, <1>15, <1>16, <1>17, <1>18 DEF IInv

\* A transaction fails.
LEMMA FailOK ==
    ASSUME IInv, Fail PROVE IInv'
<1>1. /\ tx' = NoTx /\ diff' = EmptyDiff /\ calls' = <<>> /\ out' = EmptyDiff
      /\ counter' = 0 /\ ran' = {} /\ UNCHANGED <<accounts, applied>>
  BY DEF Fail, Reset
<1>2. DOMAIN EmptyDiff = {} /\ IsDiff(EmptyDiff)
  BY DEF EmptyDiff, IsDiff
<1>3. TypeOK'
  BY <1>1, <1>2 DEF IInv, TypeOK, IsDiff
<1>4. UnownedIsEmpty' /\ ProgramIdsHoldPrograms' /\ NoncesAreSpent' /\ SignedOnce'
  BY <1>1 DEF IInv, UnownedIsEmpty, ProgramIdsHoldPrograms, NoncesAreSpent, SignedOnce
<1>5. IdleIsClean' /\ DiffIsLawful' /\ OutIsLawful' /\ NoncesAreCurrent' /\ AuthorizationIsRooted'
  BY <1>1, <1>2 DEF IdleIsClean, DiffIsLawful, OutIsLawful, NoncesAreCurrent, AuthorizationIsRooted
<1> QED
  BY <1>3, <1>4, <1>5 DEF IInv

\* What a committed transaction does to an account.
LEMMA CommitEffect ==
    ASSUME IInv, Commit, NEW id \in AccountId
    PROVE  /\ tx \in Transaction
           /\ Expected(id) \in Account
           /\ Lawful(accounts[id], Expected(id), ran, Rooted(id))
           /\ accounts'[id] = [Expected(id) EXCEPT !.nonce = accounts[id].nonce + Signatures(tx, id)]
           /\ accounts'[id] \in Account
<1>1. /\ tx # NoTx /\ accounts' = [j \in AccountId |-> AfterDiff(j)]
  BY DEF Commit
<1>2. TypeOK
  BY DEF IInv
<1>3. tx \in Transaction /\ accounts[id] \in Account
  BY <1>1, <1>2 DEF TypeOK
<1>4. Expected(id) \in Account
  BY <1>2, ExpectedType
<1>5. Lawful(accounts[id], Expected(id), ran, Rooted(id))
  <2>1. CASE id \in DOMAIN diff
    BY <2>1 DEF IInv, DiffIsLawful, Expected
  <2>2. CASE id \notin DOMAIN diff
    BY <2>2, <1>3, LawfulRefl DEF Expected
  <2> QED
    BY <2>1, <2>2
<1>6. Expected(id).nonce = accounts[id].nonce
  BY <1>5 DEF Lawful
<1>7. AfterDiff(id) = [Expected(id) EXCEPT !.nonce = Expected(id).nonce + Signatures(tx, id)]
  BY DEF AfterDiff, Expected
<1>8. Signatures(tx, id) \in Nat /\ accounts[id].nonce \in Nat
  BY <1>3, SignaturesCount DEF Account
<1> QED
  BY <1>1, <1>3, <1>4, <1>5, <1>6, <1>7, <1>8 DEF Account

\* A transaction is applied.
LEMMA CommitOK ==
    ASSUME IInv, Commit PROVE IInv'
<1>1. /\ tx # NoTx /\ ClaimedAll /\ applied' = Append(applied, tx)
      /\ accounts' = [j \in AccountId |-> AfterDiff(j)]
      /\ tx' = NoTx /\ diff' = EmptyDiff /\ calls' = <<>> /\ out' = EmptyDiff
      /\ counter' = 0 /\ ran' = {}
  BY DEF Commit, Reset
<1>2. DOMAIN EmptyDiff = {} /\ IsDiff(EmptyDiff)
  BY DEF EmptyDiff, IsDiff
<1>3. TypeOK /\ tx \in Transaction /\ ran \subseteq ProgramId /\ applied \in Seq(Transaction)
  BY <1>1 DEF IInv, TypeOK
<1>4. TypeOK'
  <2>1. accounts' \in [AccountId -> Account]
    BY <1>1, CommitEffect
  <2>2. applied' \in Seq(Transaction)
    BY <1>1, <1>3
  <2> QED
    BY <2>1, <2>2, <1>1, <1>2 DEF TypeOK
<1>5. UnownedIsEmpty'
  <2> SUFFICES ASSUME NEW id \in AccountId,
                      accounts'[id].program_owner = DEFAULT_PROGRAM_OWNER
               PROVE  accounts'[id] = [DefaultAccount EXCEPT !.nonce = accounts'[id].nonce]
    BY DEF UnownedIsEmpty
  <2>1. /\ accounts[id] \in Account /\ Expected(id) \in Account /\ Signatures(tx, id) \in Nat
        /\ Lawful(accounts[id], Expected(id), ran, Rooted(id))
        /\ accounts'[id] = [Expected(id) EXCEPT !.nonce = accounts[id].nonce + Signatures(tx, id)]
    BY <1>3, CommitEffect, SignaturesCount DEF TypeOK
  <2>2. Expected(id).program_owner = DEFAULT_PROGRAM_OWNER
    BY <2>1 DEF Account
  <2>3. accounts[id].program_owner = DEFAULT_PROGRAM_OWNER
    BY <2>1, <2>2, <1>3, IdAssumption DEF Lawful
  <2>4. Expected(id) = accounts[id]
    BY <2>2, <2>3, <1>1 DEF ClaimedAll, Expected
  <2>5. accounts[id] = [DefaultAccount EXCEPT !.nonce = accounts[id].nonce]
    BY <2>3 DEF IInv, UnownedIsEmpty
  <2> QED
    BY <2>1, <2>4, <2>5 DEF DefaultAccount, Account
<1>6. ProgramIdsHoldPrograms'
  <2> SUFFICES ASSUME NEW p \in ProgramId
               PROVE  \/ accounts'[p] = DefaultAccount
                      \/ accounts'[p].program_owner = PROGRAM_STORAGE_OWNER
    BY DEF ProgramIdsHoldPrograms
  <2>1. p \in AccountId /\ \A i \in 1..Len(tx.signers) : tx.signers[i] # p
    BY <1>3, IdAssumption, LedgerAssumption DEF Transactions
  <2>2. Signatures(tx, p) = 0
    BY <2>1, <1>3, SignaturesCount
  <2>3. ~Rooted(p)
    BY <2>1, <1>3, IdAssumption DEF Rooted
  <2>4. /\ accounts[p] \in Account /\ Expected(p) \in Account
        /\ Lawful(accounts[p], Expected(p), ran, Rooted(p))
        /\ accounts'[p] = [Expected(p) EXCEPT !.nonce = accounts[p].nonce + 0]
    BY <1>3, <2>1, <2>2, CommitEffect DEF TypeOK
  <2>5. Expected(p).program_owner = accounts[p].program_owner /\ Expected(p).nonce = accounts[p].nonce
    BY <2>3, <2>4 DEF Lawful
  <2>6. accounts'[p] = Expected(p)
    BY <2>4, <2>5 DEF Account
  <2>7. CASE accounts[p] = DefaultAccount
    <3>1. Expected(p).program_owner = DEFAULT_PROGRAM_OWNER
      BY <2>5, <2>7 DEF DefaultAccount
    <3>2. Expected(p) = accounts[p]
      BY <3>1, <2>5, <1>1 DEF ClaimedAll, Expected
    <3> QED
      BY <3>2, <2>6, <2>7
  <2>8. CASE accounts[p].program_owner = PROGRAM_STORAGE_OWNER
    BY <2>5, <2>6, <2>8
  <2> QED
    BY <2>7, <2>8 DEF IInv, ProgramIdsHoldPrograms
<1>7. \A id \in AccountId : /\ accounts[id].nonce \in Nat /\ accounts'[id].nonce \in Nat
                            /\ accounts'[id].nonce = accounts[id].nonce + Signatures(tx, id)
                            /\ Signatures(tx, id) \in Nat
  BY <1>3, <1>4, CommitEffect, SignaturesCount DEF TypeOK, Account
<1>8. \A t \in Transaction : \A k \in 1..Len(t.signers) :
          t.signers[k] \in AccountId /\ t.nonces[k] \in Nat
  BY LedgerAssumption, IdAssumption DEF Transactions
<1>9. NoncesAreSpent'
  <2> SUFFICES ASSUME NEW j \in 1..Len(applied'), NEW k \in 1..Len(applied'[j].signers)
               PROVE  applied'[j].nonces[k] < accounts'[applied'[j].signers[k]].nonce
    BY DEF NoncesAreSpent
  <2>1. CASE j \in 1..Len(applied)
    <3>1. applied'[j] = applied[j] /\ applied[j] \in Transaction
      BY <2>1, <1>1, <1>3
    <3>2. applied[j].nonces[k] < accounts[applied[j].signers[k]].nonce
      BY <2>1, <3>1 DEF IInv, NoncesAreSpent
    <3>3. applied[j].signers[k] \in AccountId /\ applied[j].nonces[k] \in Nat
      BY <3>1, <1>8
    <3> DEFINE id == applied[j].signers[k]
               n  == applied[j].nonces[k]
    <3>4. n < accounts[id].nonce /\ n \in Nat /\ id \in AccountId
      BY <3>2, <3>3
    <3> HIDE DEF id, n
    <3>5. n < accounts'[id].nonce
      BY <3>4, <1>7
    <3> QED
      BY <3>1, <3>5 DEF id, n
  <2>2. CASE j \notin 1..Len(applied)
    <3>1. applied'[j] = tx
      BY <2>2, <1>1, <1>3
    <3>2. accounts[tx.signers[k]].nonce = tx.nonces[k]
      BY <3>1, <1>1 DEF IInv, NoncesAreCurrent
    <3>3. /\ k \in 1..Len(tx.signers)
          /\ tx.signers[k] \in AccountId /\ tx.nonces[k] \in Nat
      BY <3>1, <1>3, <1>8
    <3>4. \E i \in 1..Len(tx.signers) : tx.signers[i] = tx.signers[k]
      BY <3>3
    <3>5. Signatures(tx, tx.signers[k]) > 0
      BY <3>4, <1>3, SignaturesCount
    <3> QED
      BY <3>1, <3>2, <3>3, <3>5, <1>7
  <2> QED
    BY <2>1, <2>2
<1>10. SignedOnce'
  <2>1. ASSUME NEW i \in 1..Len(applied), applied[i] = tx PROVE tx.signers = <<>>
    <3>1. tx.signers \in Seq(Signer)
      BY <1>3, LedgerAssumption DEF Transactions
    <3>2. ASSUME tx.signers # <<>> PROVE FALSE
      <4>1. 1 \in 1..Len(tx.signers)
        BY <3>1, <3>2
      <4>2. tx.nonces[1] < accounts[tx.signers[1]].nonce
        BY <4>1, <2>1 DEF IInv, NoncesAreSpent
      <4>3. accounts[tx.signers[1]].nonce = tx.nonces[1] /\ tx.nonces[1] \in Nat
        BY <4>1, <1>1, <1>3, <1>8 DEF IInv, NoncesAreCurrent
      <4> QED
        BY <4>2, <4>3
    <3> QED
      BY <3>2
  <2> SUFFICES ASSUME NEW i \in 1..Len(applied'), NEW j \in 1..Len(applied'),
                      i # j, applied'[i] = applied'[j]
               PROVE  applied'[i].signers = <<>>
    BY DEF SignedOnce
  <2>2. /\ i \in 1..Len(applied) => applied'[i] = applied[i]
        /\ j \in 1..Len(applied) => applied'[j] = applied[j]
        /\ i \notin 1..Len(applied) => applied'[i] = tx /\ i = Len(applied) + 1
        /\ j \notin 1..Len(applied) => applied'[j] = tx /\ j = Len(applied) + 1
    BY <1>1, <1>3
  <2> QED
    BY <2>1, <2>2 DEF IInv, SignedOnce
<1>11. IdleIsClean' /\ DiffIsLawful' /\ OutIsLawful' /\ NoncesAreCurrent' /\ AuthorizationIsRooted'
  BY <1>1, <1>2 DEF IdleIsClean, DiffIsLawful, OutIsLawful, NoncesAreCurrent, AuthorizationIsRooted
<1> QED
  BY <1>4, <1>5, <1>6, <1>9, <1>10, <1>11 DEF IInv

\* A program is deployed, at an id where nothing was.
LEMMA DeployEffect ==
    ASSUME IInv, NEW p \in ProgramId, Deploy(p)
    PROVE  /\ p \in AccountId /\ accounts[p] = DefaultAccount
           /\ accounts' = [accounts EXCEPT ![p] = ProgramAccount(p)]
           /\ accounts \in [AccountId -> Account]
           /\ ProgramAccount(p) \in Account
           /\ tx = NoTx /\ UNCHANGED <<tx, diff, calls, out, counter, ran, applied>>
<1>1. /\ tx = NoTx /\ ~Deployed(p) /\ accounts' = [accounts EXCEPT ![p] = ProgramAccount(p)]
      /\ UNCHANGED <<tx, diff, calls, out, counter, ran, applied>>
  BY DEF Deploy, exec
<1>2. accounts[p] = DefaultAccount
  BY <1>1 DEF Deployed, IInv, ProgramIdsHoldPrograms
<1>3. ProgramAccount(p) \in Account
  BY DataAssumption DEF ProgramAccount, Account, Owner
<1> QED
  BY <1>1, <1>2, <1>3, IdAssumption DEF IInv, TypeOK

\* Deployment writes to an account that was empty, and to no other.
LEMMA DeployOK ==
    ASSUME IInv, NEW p \in ProgramId, Deploy(p) PROVE IInv'
<1>1. /\ p \in AccountId /\ accounts[p] = DefaultAccount
      /\ accounts' = [accounts EXCEPT ![p] = ProgramAccount(p)]
      /\ accounts \in [AccountId -> Account]
      /\ ProgramAccount(p) \in Account
      /\ tx = NoTx /\ UNCHANGED <<tx, diff, calls, out, counter, ran, applied>>
  BY DeployEffect, Zenon
<1>2. /\ accounts'[p] = ProgramAccount(p)
      /\ accounts'[p].program_owner = PROGRAM_STORAGE_OWNER
      /\ \A id \in AccountId \ {p} : accounts'[id] = accounts[id]
  BY <1>1 DEF ProgramAccount
<1>3. TypeOK'
  BY <1>1 DEF IInv, TypeOK, IsDiff
<1>4. UnownedIsEmpty' /\ ProgramIdsHoldPrograms'
  BY <1>1, <1>2, IdAssumption DEF IInv, UnownedIsEmpty, ProgramIdsHoldPrograms
<1>5. IdleIsClean' /\ AuthorizationIsRooted' /\ SignedOnce' /\ NoncesAreCurrent'
  BY <1>1 DEF IInv, IdleIsClean, AuthorizationIsRooted, SignedOnce, NoncesAreCurrent
<1>6. DiffIsLawful' /\ OutIsLawful'
  BY <1>1 DEF IInv, IdleIsClean, DiffIsLawful, OutIsLawful
<1>7. NoncesAreSpent'
  <2> SUFFICES ASSUME NEW j \in 1..Len(applied), NEW k \in 1..Len(applied[j].signers)
               PROVE  applied[j].nonces[k] < accounts'[applied[j].signers[k]].nonce
    BY <1>1 DEF NoncesAreSpent
  <2>1. applied[j] \in Transaction
    BY DEF IInv, TypeOK
  <2>2. applied[j].signers[k] \in AccountId \ {p}
    BY <2>1, LedgerAssumption, IdAssumption DEF Transactions
  <2>3. applied[j].nonces[k] < accounts[applied[j].signers[k]].nonce
    BY DEF IInv, NoncesAreSpent
  <2>4. accounts'[applied[j].signers[k]] = accounts[applied[j].signers[k]]
    BY <2>2, <1>2
  <2> QED
    BY <2>3, <2>4
<1> QED
  BY <1>3, <1>4, <1>5, <1>6, <1>7 DEF IInv

\* Nothing changes.
LEMMA StutterOK ==
    ASSUME IInv, UNCHANGED vars PROVE IInv'
<1>1. UNCHANGED <<accounts, tx, diff, calls, out, counter, ran, applied>>
  BY DEF vars, exec
<1>2. call' = call /\ (\A id : Expected(id)' = Expected(id)) /\ (\A id : Rooted(id)' = Rooted(id))
  BY <1>1 DEF call, Expected, Rooted
<1>3. \A id : RootedNow(id)' = RootedNow(id)
  BY <1>2 DEF RootedNow
<1>4. TypeOK'
  BY <1>1 DEF IInv, TypeOK, IsDiff
<1>5. UnownedIsEmpty' /\ ProgramIdsHoldPrograms' /\ NoncesAreSpent' /\ SignedOnce' /\ NoncesAreCurrent'
  BY <1>1 DEF IInv, UnownedIsEmpty, ProgramIdsHoldPrograms, NoncesAreSpent, SignedOnce, NoncesAreCurrent
<1>6. IdleIsClean' /\ AuthorizationIsRooted'
  BY <1>1, <1>2 DEF IInv, IdleIsClean, AuthorizationIsRooted, is_authorized
<1>7. DiffIsLawful'
  BY <1>1, <1>2 DEF IInv, DiffIsLawful
<1>8. OutIsLawful'
  BY <1>1, <1>2, <1>3 DEF IInv, OutIsLawful
<1> QED
  BY <1>4, <1>5, <1>6, <1>7, <1>8 DEF IInv

\* Every step keeps the invariant.
LEMMA StepOK == IInv /\ [Next]_vars => IInv'
<1> SUFFICES ASSUME IInv, [Next]_vars PROVE IInv'
  OBVIOUS
<1>1. ASSUME NEW t \in Transaction, Submit(t) PROVE IInv'
  BY <1>1, SubmitOK
<1>2. ASSUME NEW id \in AccountId, NEW post \in Posts(id), NEW claim \in Claims,
             OutputAccount(id, post, claim)
      PROVE  IInv'
  BY <1>2, OutputAccountOK
<1>3. ASSUME NEW chained \in CallLists, FinishCall(chained) PROVE IInv'
  BY <1>3, FinishCallOK
<1>4. CASE Commit
  BY <1>4, CommitOK
<1>5. CASE Fail
  BY <1>5, FailOK
<1>6. ASSUME NEW p \in ProgramId, Deploy(p) PROVE IInv'
  BY <1>6, DeployOK
<1>7. CASE UNCHANGED vars
  BY <1>7, StutterOK
<1> QED
  BY <1>1, <1>2, <1>3, <1>4, <1>5, <1>6, <1>7, Zenon DEF Next

\* The ledger changes by a commit or a deployment only.
LEMMA LedgerSteps ==
    ASSUME [Next]_vars
    PROVE  \/ Commit
           \/ \E p \in ProgramId : Deploy(p)
           \/ accounts' = accounts /\ applied' = applied
<1>1. ASSUME NEW t \in Transaction, Submit(t) PROVE accounts' = accounts /\ applied' = applied
  BY <1>1 DEF Submit
<1>2. ASSUME NEW id \in AccountId, NEW post \in Posts(id), NEW claim \in Claims,
             OutputAccount(id, post, claim)
      PROVE  accounts' = accounts /\ applied' = applied
  BY <1>2 DEF OutputAccount
<1>3. ASSUME NEW chained \in CallLists, FinishCall(chained)
      PROVE  accounts' = accounts /\ applied' = applied
  BY <1>3 DEF FinishCall
<1>4. Fail \/ UNCHANGED vars => accounts' = accounts /\ applied' = applied
  BY DEF Fail, vars
<1> QED
  BY <1>1, <1>2, <1>3, <1>4, Zenon DEF Next

\* The invariant holds in every reachable state.
LEMMA Invariant == Spec => []IInv
  BY InitOK, StepOK, PTL DEF Spec

-----------------------------------------------------------------------------

\* The state keeps its type whatever the programs return.
THEOREM TypeCorrect == Spec => []TypeOK
<1>1. IInv => TypeOK
  BY DEF IInv
<1> QED
  BY <1>1, Invariant, PTL

\* An account without owner holds nothing (the check that closes
\* from_public_transaction).
THEOREM UnownedHoldsNothing == Spec => []UnownedIsEmpty
<1>1. IInv => UnownedIsEmpty
  BY DEF IInv
<1> QED
  BY <1>1, Invariant, PTL

\* No signed transaction applies twice (the nonces of
\* authenticate_public_transaction_signers and apply_state_diff).
THEOREM NoReplay == Spec => []SignedOnce
<1>1. IInv => SignedOnce
  BY DEF IInv
<1> QED
  BY <1>1, Invariant, PTL

\* However deep the chain of calls, authorization goes back to a signature or to
\* a program's own PDA (the growing authorized set of from_public_transaction).
THEOREM AuthorizationRooted == Spec => []AuthorizationIsRooted
<1>1. IInv => AuthorizationIsRooted
  BY DEF IInv
<1> QED
  BY <1>1, Invariant, PTL

\* Balance and data are taken by the owner only (rules 5 and 6 of
\* validate_execution, along any chain of calls).
THEOREM OwnersTake == Spec => OnlyTheOwnerTakes
<1> DEFINE A == \A id \in AccountId :
                   \/ accounts'[id].balance < accounts[id].balance
                   \/ accounts'[id].data # accounts[id].data
                   => accounts[id].program_owner \in ran \cup {DEFAULT_PROGRAM_OWNER}
<1>1. IInv /\ [Next]_vars => A
  <2> SUFFICES ASSUME IInv, [Next]_vars, NEW id \in AccountId,
                      \/ accounts'[id].balance < accounts[id].balance
                      \/ accounts'[id].data # accounts[id].data
               PROVE  accounts[id].program_owner \in ran \cup {DEFAULT_PROGRAM_OWNER}
    OBVIOUS
  <2>1. CASE Commit
    <3>1. /\ Lawful(accounts[id], Expected(id), ran, Rooted(id)) /\ Expected(id) \in Account
          /\ accounts'[id] = [Expected(id) EXCEPT !.nonce = accounts[id].nonce + Signatures(tx, id)]
      BY <2>1, CommitEffect
    <3>2. accounts'[id].balance = Expected(id).balance /\ accounts'[id].data = Expected(id).data
      BY <3>1 DEF Account
    <3> QED
      BY <3>1, <3>2 DEF Lawful
  <2>2. ASSUME NEW p \in ProgramId, Deploy(p)
        PROVE  accounts[id].program_owner = DEFAULT_PROGRAM_OWNER
    <3>1. /\ accounts' = [accounts EXCEPT ![p] = ProgramAccount(p)]
          /\ accounts \in [AccountId -> Account] /\ accounts[p] = DefaultAccount
      BY <2>2, DeployEffect
    <3>2. CASE id = p
      BY <3>1, <3>2 DEF DefaultAccount
    <3>3. CASE id # p
      <4>1. accounts'[id] = accounts[id] /\ accounts[id].balance \in Int
        BY <3>1, <3>3, DataAssumption DEF Account
      <4> QED
        BY <4>1
    <3> QED
      BY <3>2, <3>3
  <2>3. CASE accounts' = accounts
    <3>1. accounts[id].balance \in Int
      BY DataAssumption DEF IInv, TypeOK, Account
    <3> QED
      BY <2>3, <3>1
  <2> QED
    BY <2>1, <2>2, <2>3, LedgerSteps
<1> QED
  BY <1>1, Invariant, PTL DEF Spec, OnlyTheOwnerTakes

\* An account gets its owner once, by its own consent (the claims of
\* from_public_transaction, and program deployment).
THEOREM OwnershipByConsent == Spec => OwnedOnceByConsent
<1> DEFINE A == \A id \in AccountId :
                   accounts'[id].program_owner # accounts[id].program_owner =>
                       /\ accounts[id].program_owner = DEFAULT_PROGRAM_OWNER
                       /\ \/ accounts'[id].program_owner \in ran /\ Rooted(id)
                          \/ id \in ProgramId /\ accounts'[id] = ProgramAccount(id)
<1>1. IInv /\ [Next]_vars => A
  <2> SUFFICES ASSUME IInv, [Next]_vars, NEW id \in AccountId,
                      accounts'[id].program_owner # accounts[id].program_owner
               PROVE  /\ accounts[id].program_owner = DEFAULT_PROGRAM_OWNER
                      /\ \/ accounts'[id].program_owner \in ran /\ Rooted(id)
                         \/ id \in ProgramId /\ accounts'[id] = ProgramAccount(id)
    OBVIOUS
  <2>1. CASE Commit
    <3>1. /\ Lawful(accounts[id], Expected(id), ran, Rooted(id)) /\ Expected(id) \in Account
          /\ accounts'[id] = [Expected(id) EXCEPT !.nonce = accounts[id].nonce + Signatures(tx, id)]
      BY <2>1, CommitEffect
    <3>2. accounts'[id].program_owner = Expected(id).program_owner
      BY <3>1 DEF Account
    <3> QED
      BY <3>1, <3>2 DEF Lawful
  <2>2. ASSUME NEW p \in ProgramId, Deploy(p)
        PROVE  /\ accounts[id].program_owner = DEFAULT_PROGRAM_OWNER
               /\ id \in ProgramId /\ accounts'[id] = ProgramAccount(id)
    <3>1. /\ accounts' = [accounts EXCEPT ![p] = ProgramAccount(p)]
          /\ accounts \in [AccountId -> Account] /\ accounts[p] = DefaultAccount
      BY <2>2, DeployEffect
    <3>2. id = p
      BY <3>1
    <3> QED
      BY <3>1, <3>2 DEF DefaultAccount
  <2> QED
    BY <2>1, <2>2, LedgerSteps
<1> QED
  BY <1>1, Invariant, PTL DEF Spec, OwnedOnceByConsent

\* A user transaction leaves the system accounts alone (validate_on_state), its
\* signers' nonces included.
THEOREM SystemAccountsSafe == Spec => SystemAccountsAreSafe
<1> DEFINE A == tx # NoTx /\ tx.origin = "user" =>
                   /\ \A id \in Restricted : accounts'[id] = accounts[id]
                   /\ accounts'[Bridge] = [accounts[Bridge] EXCEPT !.balance = accounts'[Bridge].balance]
                   /\ accounts'[Bridge].balance >= accounts[Bridge].balance
<1>1. IInv /\ [Next]_vars => A
  <2> SUFFICES ASSUME IInv, [Next]_vars, tx # NoTx, tx.origin = "user"
               PROVE  /\ \A id \in Restricted : accounts'[id] = accounts[id]
                      /\ accounts'[Bridge] = [accounts[Bridge] EXCEPT !.balance = accounts'[Bridge].balance]
                      /\ accounts'[Bridge].balance >= accounts[Bridge].balance
    OBVIOUS
  <2>1. accounts \in [AccountId -> Account] /\ tx \in Transaction /\ Bridge \in AccountId
    BY LedgerAssumption DEF IInv, TypeOK
  <2>2. accounts[Bridge] \in Account /\ accounts[Bridge].balance \in Int
    BY <2>1, DataAssumption DEF Account
  <2>3. CASE Commit
    <3>1. Guarded
      BY <2>3 DEF Commit
    <3>2. ASSUME NEW id \in AccountId \ Signer
          PROVE  accounts'[id] = Expected(id)
      <4>1. \A i \in 1..Len(tx.signers) : tx.signers[i] # id
        BY <2>1, <3>2, LedgerAssumption DEF Transactions
      <4>2. Signatures(tx, id) = 0
        BY <4>1, <2>1, SignaturesCount
      <4>3. /\ Lawful(accounts[id], Expected(id), ran, Rooted(id)) /\ Expected(id) \in Account
            /\ accounts'[id] = [Expected(id) EXCEPT !.nonce = accounts[id].nonce + 0]
        BY <2>3, <4>2, CommitEffect
      <4>4. Expected(id).nonce = accounts[id].nonce /\ accounts[id].nonce \in Nat
        BY <4>3, <2>1 DEF Lawful, Account
      <4> QED
        BY <4>3, <4>4 DEF Account
    <3>3. ASSUME NEW id \in Restricted PROVE accounts'[id] = accounts[id]
      <4>1. accounts'[id] = Expected(id)
        BY <3>2, LedgerAssumption
      <4> QED
        BY <4>1, <3>1 DEF Guarded, Expected
    <3>4. accounts'[Bridge] = Expected(Bridge)
      BY <3>2, LedgerAssumption
    <3>5. CASE Bridge \in DOMAIN diff
      <4>1. /\ diff[Bridge] = [accounts[Bridge] EXCEPT !.balance = diff[Bridge].balance]
            /\ accounts[Bridge].balance < diff[Bridge].balance
        BY <3>1, <3>5 DEF Guarded
      <4>2. accounts'[Bridge] = diff[Bridge] /\ diff[Bridge].balance \in Int
        BY <3>4, <3>5, DataAssumption DEF Expected, IInv, TypeOK, IsDiff, Account
      <4> QED
        BY <4>1, <4>2, <2>2, <3>3
    <3>6. CASE Bridge \notin DOMAIN diff
      <4>1. accounts'[Bridge] = accounts[Bridge]
        BY <3>4, <3>6 DEF Expected
      <4> QED
        BY <4>1, <2>2, <3>3 DEF Account
    <3> QED
      BY <3>5, <3>6
  <2>4. ASSUME NEW p \in ProgramId, Deploy(p) PROVE FALSE
    BY <2>4 DEF Deploy
  <2>5. CASE accounts' = accounts
    BY <2>2, <2>5 DEF Account
  <2> QED
    BY <2>3, <2>4, <2>5, LedgerSteps
<1> QED
  BY <1>1, Invariant, PTL DEF Spec, SystemAccountsAreSafe

\* A nonce moves by signatures on applied transactions only (apply_state_diff,
\* and rule 3 of validate_execution).
THEOREM NoncesCount == Spec => NonceCountsSignatures
<1> DEFINE A == \A id \in AccountId :
                   accounts'[id].nonce = accounts[id].nonce + (IF applied' = applied THEN 0
                                                               ELSE Signatures(tx, id))
<1>1. IInv /\ [Next]_vars => A
  <2> SUFFICES ASSUME IInv, [Next]_vars, NEW id \in AccountId
               PROVE  accounts'[id].nonce = accounts[id].nonce + (IF applied' = applied THEN 0
                                                                  ELSE Signatures(tx, id))
    OBVIOUS
  <2>1. accounts[id] \in Account /\ accounts[id].nonce \in Nat /\ applied \in Seq(Transaction)
    BY DEF IInv, TypeOK, Account
  <2>2. CASE Commit
    <3>1. /\ tx \in Transaction /\ Expected(id) \in Account
          /\ accounts'[id] = [Expected(id) EXCEPT !.nonce = accounts[id].nonce + Signatures(tx, id)]
      BY <2>2, CommitEffect
    <3>2. accounts'[id].nonce = accounts[id].nonce + Signatures(tx, id)
      BY <3>1 DEF Account
    <3>3. applied' # applied
      <4>1. applied' = Append(applied, tx)
        BY <2>2 DEF Commit
      <4>2. Len(applied') = Len(applied) + 1 /\ Len(applied) \in Nat
        BY <4>1, <3>1, <2>1
      <4> QED
        BY <4>2
    <3> QED
      BY <3>2, <3>3
  <2>3. ASSUME NEW p \in ProgramId, Deploy(p)
        PROVE  accounts'[id].nonce = accounts[id].nonce /\ applied' = applied
    <3>1. /\ accounts' = [accounts EXCEPT ![p] = ProgramAccount(p)] /\ applied' = applied
          /\ accounts \in [AccountId -> Account] /\ accounts[p] = DefaultAccount
      BY <2>3, DeployEffect
    <3> QED
      BY <3>1 DEF ProgramAccount, DefaultAccount
  <2> QED
    BY <2>1, <2>2, <2>3, LedgerSteps
<1> QED
  BY <1>1, Invariant, PTL DEF Spec, NonceCountsSignatures

\* Deployed code never changes (from_program_deployment_transaction refuses a
\* second deployment, and no program owns the storage).
THEOREM CodeImmutable == Spec => CodeIsImmutable
<1> DEFINE A == \A p \in ProgramId : Deployed(p) =>
                   /\ accounts'[p].program_owner = PROGRAM_STORAGE_OWNER
                   /\ accounts'[p].data = accounts[p].data
<1>1. IInv /\ [Next]_vars => A
  <2> SUFFICES ASSUME IInv, [Next]_vars, NEW p \in ProgramId, Deployed(p)
               PROVE  /\ accounts'[p].program_owner = PROGRAM_STORAGE_OWNER
                      /\ accounts'[p].data = accounts[p].data
    OBVIOUS
  <2>1. accounts[p].program_owner = PROGRAM_STORAGE_OWNER /\ p \in AccountId /\ ran \subseteq ProgramId
    BY IdAssumption DEF Deployed, IInv, TypeOK
  <2>2. CASE Commit
    <3>1. /\ Lawful(accounts[p], Expected(p), ran, Rooted(p)) /\ Expected(p) \in Account
          /\ accounts'[p] = [Expected(p) EXCEPT !.nonce = accounts[p].nonce + Signatures(tx, p)]
      BY <2>1, <2>2, CommitEffect
    <3>2. /\ accounts'[p].program_owner = Expected(p).program_owner
          /\ accounts'[p].data = Expected(p).data
      BY <3>1 DEF Account
    <3> QED
      BY <3>1, <3>2, <2>1, IdAssumption DEF Lawful
  <2>3. ASSUME NEW q \in ProgramId, Deploy(q)
        PROVE  accounts'[p] = accounts[p]
    <3>1. /\ accounts' = [accounts EXCEPT ![q] = ProgramAccount(q)]
          /\ accounts \in [AccountId -> Account] /\ accounts[q] = DefaultAccount
      BY <2>3, DeployEffect
    <3>2. p # q
      BY <3>1, <2>1, IdAssumption DEF DefaultAccount
    <3> QED
      BY <3>1, <3>2, <2>1
  <2> QED
    BY <2>1, <2>2, <2>3, LedgerSteps
<1> QED
  BY <1>1, Invariant, PTL DEF Spec, CodeIsImmutable
=============================================================================
