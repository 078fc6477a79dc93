---------------------------- MODULE PrivateLedger ----------------------------
(***************************************************************************)
(* Privacy-preserving transactions: a prover runs a chain of calls through *)
(* the circuit, signs what comes out and submits it, and V03State checks   *)
(* it against the ledger of that later moment                              *)
(* (lee/state_machine/src/privacy_preserving_transaction, state,           *)
(* validated_state_diff).  Proofs are sound: what is submitted is an       *)
(* output of the circuit.                                                  *)
(*                                                                         *)
(* Programs are arbitrary, as in Ledger: each account of an output is a    *)
(* step, and only post-states, claims and chained calls are choices.  A    *)
(* prover works from what it read at the start, so its steps commute with  *)
(* the ledger's, and the ledger moves only between proofs.                 *)
(***************************************************************************)
EXTENDS Integers, Sequences, Circuit, FiniteSetsExt

-----------------------------------------------------------------------------
(***************************************************************************)
(* The Merkle tree over the commitments (lee/state_machine/src/            *)
(* merkle_tree) and the check of a membership proof (core/src/             *)
(* commitment.rs).  The nodes are an array in breadth-first order that     *)
(* doubles when it is full; the root is the root of the smallest subtree   *)
(* on the left that holds every leaf.  Hashes are free constructors.       *)
(***************************************************************************)

hash_value(v) == <<"leaf", v>>

hash_two(left, right) == <<"node", left, right>>

\* trailing_zeros(next_power_of_two(n))
Depth(n) == CHOOSE k \in 0..n : 2^k >= n /\ (k = 0 \/ 2^(k - 1) < n)

\* The level of an array index, counted from the top; prev_power_of_two is its
\* power.
Level(i) == CHOOSE k \in 0..i : 2^k <= i + 1 /\ i + 1 < 2^(k + 1)

RECURSIVE Default(_)

\* DEFAULT_VALUES: the root of a subtree without leaves.
Default(height) ==
    IF height = 0 THEN <<"zero">> ELSE hash_two(Default(height - 1), Default(height - 1))

with_capacity(capacity) ==
    LET depth == Depth(capacity)
    IN  [nodes |-> [i \in 0..(2^(depth + 1) - 2) |-> Default(depth - Level(i))],
         capacity |-> 2^depth, length |-> 0]

root_index(t) == 2^(Depth(t.capacity) - Depth(t.length)) - 1

root(t) == t.nodes[root_index(t)]

\* The tree becomes the left subtree of one twice as large.
reallocate_to_double_capacity(t) ==
    LET empty == with_capacity(2 * t.capacity)
        Moved(i) == i + 2^Level(i)
    IN  [empty EXCEPT !.length = t.length,
            !.nodes = [j \in DOMAIN @ |->
                IF \E i \in DOMAIN t.nodes : Moved(i) = j
                THEN t.nodes[CHOOSE i \in DOMAIN t.nodes : Moved(i) = j] ELSE @[j]]]

RECURSIVE Rehashed(_, _, _)

\* The ancestors of node i, `levels` up.
Rehashed(nodes, i, levels) ==
    IF levels = 0 THEN nodes
    ELSE LET parent == (i - 1) \div 2
         IN  Rehashed([nodes EXCEPT ![parent] = hash_two(nodes[2 * parent + 1], nodes[2 * parent + 2])],
                      parent, levels - 1)

insert(t, v) ==
    LET room == IF t.length = t.capacity THEN reallocate_to_double_capacity(t) ELSE t
        i == room.length + room.capacity - 1
    IN  [room EXCEPT !.length = @ + 1,
            !.nodes = Rehashed([@ EXCEPT ![i] = hash_value(v)], i, Depth(room.length + 1))]

RECURSIVE PathFrom(_, _)

\* The siblings on the way from node i to the root.
PathFrom(t, i) ==
    IF i = root_index(t) THEN <<>>
    ELSE <<t.nodes[IF i % 2 = 1 THEN i + 1 ELSE i - 1]>> \o PathFrom(t, (i - 1) \div 2)

get_authentication_path_for(t, index) == PathFrom(t, t.capacity + index - 1)

RECURSIVE Digest(_, _, _)

Digest(hash, index, path) ==
    IF path = <<>> THEN hash
    ELSE Digest(IF index % 2 = 0 THEN hash_two(hash, Head(path)) ELSE hash_two(Head(path), hash),
                index \div 2, Tail(path))

\* A proof is <<index, path>>.
compute_digest_for_path(v, proof) == Digest(hash_value(v), proof[1], proof[2])

-----------------------------------------------------------------------------

RECURSIVE Subtree(_, _, _)

\* Reference: the complete tree of this height over the leaves from `first` on.
Subtree(leaves, first, height) ==
    IF height = 0
    THEN IF first <= Len(leaves) THEN hash_value(leaves[first]) ELSE <<"zero">>
    ELSE hash_two(Subtree(leaves, first, height - 1),
                  Subtree(leaves, first + 2^(height - 1), height - 1))

ReferenceRoot(leaves) == Subtree(leaves, 1, Depth(Len(leaves)))

-----------------------------------------------------------------------------

CONSTANTS
    PublicId,                   \* ids of the public accounts
    PrivatePda,                 \* ids of the private PDAs
    GenesisAccounts,            \* public_state at the start
    GenesisNotes,               \* private accounts at the start: [id, account]
    InitialCapacity,            \* capacity of a new tree
    Job,                        \* what is proven: [program, identities, dummies]
    Ending,                     \* what an output can end with: chained calls, block window
    MAX_NUMBER_CHAINED_CALLS,
    NoJob,
    MaxOutput,                  \* bound: accounts in one call's output
    MaxProven,                  \* bound: transactions proven
    MaxBlock                    \* bound: height

VARIABLES
    accounts,       \* public_state
    tree,           \* CommitmentSet.merkle_tree
    commitments,    \* CommitmentSet.commitments: the index of each
    root_history,   \* CommitmentSet.root_history
    nullifiers,     \* NullifierSet
    posted,         \* the private actions in the blocks so far
    block,          \* the next block's id
    job,            \* what is being proven
    st,             \* ExecutionState of the prover
    calls,          \* chained_calls with their caller data
    out,            \* the running call's output so far
    counter,        \* chain_calls_counter
    window,         \* the intersection of the outputs' windows
    proven          \* the transactions that are proven and signed, applied or in flight

ledger == <<accounts, tree, commitments, root_history, nullifiers, posted, block>>
prover == <<job, st, calls, out, counter, window>>
vars == <<ledger, prover, proven>>

RECURSIVE InsertAll(_, _)

InsertAll(t, cs) == IF cs = <<>> THEN t ELSE InsertAll(insert(t, Head(cs)), Tail(cs))

\* Mutant: the roots of earlier blocks are forgotten.
Mutextend(set, cs) ==
    LET t == InsertAll(set.tree, cs)
    IN  [tree |-> t,
         commitments |-> [i \in {cs[k] : k \in DOMAIN cs} |->
                             set.tree.length + (CHOOSE k \in DOMAIN cs : cs[k] = i) - 1] @@ set.commitments,
         root_history |-> {root(t)}]

\* CommitmentSet::extend
extend(set, cs) ==
    LET t == InsertAll(set.tree, cs)
    IN  [tree |-> t,
         commitments |-> [i \in {cs[k] : k \in DOMAIN cs} |->
                             set.tree.length + (CHOOSE k \in DOMAIN cs : cs[k] = i) - 1] @@ set.commitments,
         root_history |-> set.root_history \cup {root(t)}]

\* V03State::default, then with_private_accounts.
InitialSet ==
    LET empty == [tree |-> with_capacity(InitialCapacity), commitments |-> <<>>, root_history |-> {}]
    IN  extend(extend(empty, <<DUMMY_COMMITMENT>>),
               [i \in DOMAIN GenesisNotes |-> Commitment(GenesisNotes[i].id, GenesisNotes[i].account)])

NoOutput == [ids |-> {}, authorized |-> {}, pre |-> 0, post |-> 0]

Unbounded == <<0, MaxBlock + 1>>

IdleProver ==
    /\ job = NoJob /\ st = NewExecutionState /\ calls = <<>> /\ out = NoOutput
    /\ counter = 0 /\ window = Unbounded

Init ==
    /\ accounts = GenesisAccounts
    /\ \E set \in {InitialSet} :
          tree = set.tree /\ commitments = set.commitments /\ root_history = set.root_history
    /\ nullifiers = {for_account_initialization(GenesisNotes[i].id) : i \in DOMAIN GenesisNotes}
    /\ posted = {} /\ block = 1
    /\ IdleProver /\ proven = {}

-----------------------------------------------------------------------------

\* Nobody called the first program, so nothing is authorized for it yet.
initial_call(program) == [program |-> program, caller |-> NoCaller, seeds |-> {}, authorized |-> {}]

\* A prover starts on a job.
Start(j) ==
    /\ job = NoJob /\ Cardinality(proven) < MaxProven
    /\ job' = j
    /\ calls' = <<initial_call(j.program)>>
    /\ UNCHANGED <<ledger, st, out, counter, window, proven>>

call == Head(calls)

\* The prover's own limit, one call below the circuit's.
Running == calls # <<>> /\ counter < MAX_NUMBER_CHAINED_CALLS

\* The states in which a job can first show an account that its output, and the
\* ledger, will accept: the public account as it is, the default account for a
\* creation, any state that was committed to for an update.
FirstStates(identity, id) ==
    IF identity = Public THEN {accounts[id]}
    ELSE IF identity.nullifier = "Init" THEN {DefaultAccount}
    ELSE {c[3] : c \in {d \in DOMAIN commitments : IsNote(d) /\ d[2] = id}}

FirstIds(identity) ==
    IF identity = Public THEN PublicId
    ELSE IF identity.kind = "Pda" THEN PrivatePda
    ELSE {for_regular_private_account(npk(identity), identity.vpk, identity.identifier)}

\* The accounts that an output can list next.
PreStates ==
    {[account_id |-> id, account |-> st.post_states[id], is_authorized |-> a] :
        id \in DOMAIN st.post_states, a \in BOOLEAN}
    \cup
    (IF Len(st.pre_states) = Len(job.identities) THEN {}
     ELSE LET identity == job.identities[Len(st.pre_states) + 1]
          IN  UNION {{[account_id |-> id, account |-> acc, is_authorized |-> a] :
                         acc \in FirstStates(identity, id), a \in BOOLEAN} :
                        id \in FirstIds(identity) \ DOMAIN st.post_states})

\* A call's output lists an account once.
validate_uniqueness_of_account_ids(id) == id \notin out.ids

\* The next account of the running call's output.
OutputAccount(pre, balance, claim) ==
    LET post == [pre.account EXCEPT !.balance = balance]
    IN  /\ Running
        /\ validate_uniqueness_of_account_ids(pre.account_id) /\ Cardinality(out.ids) < MaxOutput
        /\ ValidPost(pre.account, post, call.program)
        /\ \E s \in validate_and_sync_states(st, job.identities, call, pre, post, claim) : st' = s
        /\ out' = [ids |-> out.ids \cup {pre.account_id},
                   authorized |-> out.authorized \cup (IF pre.is_authorized THEN {pre.account_id} ELSE {}),
                   pre |-> out.pre + pre.account.balance, post |-> out.post + balance]
        /\ UNCHANGED <<ledger, job, calls, counter, window, proven>>

Later(a, b) == IF a >= b THEN a ELSE b

Earlier(a, b) == IF a <= b THEN a ELSE b

\* The running call ends: balances add up, its window narrows the transaction's,
\* and its chained calls run next.
FinishCall(chained, w) ==
    LET valid == <<Later(window[1], w[1]), Earlier(window[2], w[2])>>
    IN  /\ Running
        /\ out.pre = out.post
        /\ valid[1] < valid[2]
        /\ window' = valid
        /\ calls' =
              [k \in 1..Len(chained) |->
                  [program |-> chained[k].program, caller |-> call.program, seeds |-> chained[k].seeds,
                   authorized |-> call.authorized \cup out.authorized]]
              \o Tail(calls)
        /\ out' = NoOutput
        /\ counter' = counter + 1
        /\ UNCHANGED <<ledger, job, st, proven>>

\* get_proof_for, and the digest that the proof leads to.
ProvenRoot(c) == compute_digest_for_path(c, <<commitments[c], get_authentication_path_for(tree, commitments[c])>>)

ProvenRoots == [c \in DOMAIN commitments |-> ProvenRoot(c)]

ResetProver ==
    /\ job' = NoJob /\ st' = NewExecutionState /\ calls' = <<>> /\ out' = NoOutput
    /\ counter' = 0 /\ window' = Unbounded

\* A job's creations and its padding are proven against the current root.
Rooted(j) ==
    [j EXCEPT !.identities = [i \in DOMAIN @ |-> IF @[i] = Public THEN @[i] ELSE ("root" :> root(tree)) @@ @[i]],
              !.dummies = [i \in DOMAIN @ |-> ("root" :> root(tree)) @@ @[i]]]

\* compute_circuit_output, from_circuit_output, and the signatures of the public
\* accounts that the output takes as authorized.
Prove(order) ==
    LET ids == Rooted(job).identities
        public == public_actions(st, ids)
        signers == {public[i].pre.account_id : i \in {k \in DOMAIN public : public[k].pre.is_authorized}}
    IN  /\ job # NoJob /\ calls = <<>>
        /\ Accepts(st, ids)
        /\ signers \subseteq Signer
        /\ \E actions \in {private_actions(st, ids, Rooted(job).dummies, ProvenRoots)} :
              /\ DOMAIN order = DOMAIN actions
              /\ proven' = proven \cup
                    {[public |-> public, private |-> obfuscate_output_ordering(actions, order),
                      window |-> window,
                      nonces |-> [id \in signers |-> accounts[id].nonce]]}
        /\ ResetProver
        /\ UNCHANGED ledger

\* A check of the circuit fails.
Abandon ==
    /\ job # NoJob
    /\ ResetProver
    /\ UNCHANGED <<ledger, proven>>

-----------------------------------------------------------------------------

Distinct(s) == Cardinality({s[i] : i \in DOMAIN s}) = Len(s)

\* check_privacy_preserving_circuit_proof_is_valid: the proof is about the public
\* accounts as they are now, authorized exactly if they signed.
ProofIsValid(m) ==
    \A i \in DOMAIN m.public :
        /\ m.public[i].pre.account = accounts[m.public[i].pre.account_id]
        /\ m.public[i].pre.is_authorized = (m.public[i].pre.account_id \in DOMAIN m.nonces)

check_commitments_are_new(m) == \A i \in DOMAIN m.private : m.private[i].commitment \notin DOMAIN commitments

\* Mutant: only the root is checked.
Mutcheck_nullifiers_are_valid(m) == \A i \in DOMAIN m.private : m.private[i].root \in root_history

check_nullifiers_are_valid(m) ==
    \A i \in DOMAIN m.private :
        m.private[i].nullifier \notin nullifiers /\ m.private[i].root \in root_history

from_privacy_preserving_transaction(m) ==
    /\ m.private # <<>>
    /\ Distinct([i \in DOMAIN m.public |-> m.public[i].pre.account_id])
    /\ Distinct([i \in DOMAIN m.private |-> m.private[i].nullifier])
    /\ Distinct([i \in DOMAIN m.private |-> m.private[i].commitment])
    /\ \A id \in DOMAIN m.nonces : accounts[id].nonce = m.nonces[id]
    /\ m.window[1] <= block /\ block < m.window[2]
    /\ ProofIsValid(m)
    /\ check_commitments_are_new(m)
    /\ check_nullifiers_are_valid(m)

\* transition_from_privacy_preserving_transaction
Apply(m) ==
    LET diff == [id \in {m.public[i].pre.account_id : i \in DOMAIN m.public} |->
                    m.public[CHOOSE i \in DOMAIN m.public : m.public[i].pre.account_id = id].post]
    IN  /\ job = NoJob
        /\ from_privacy_preserving_transaction(m)
        /\ accounts' = [id \in PublicId |->
              LET a == IF id \in DOMAIN diff THEN diff[id] ELSE accounts[id]
              IN  IF id \in DOMAIN m.nonces THEN [a EXCEPT !.nonce = @ + 1] ELSE a]
        /\ \E set \in {extend([tree |-> tree, commitments |-> commitments, root_history |-> root_history],
                              [i \in DOMAIN m.private |-> m.private[i].commitment])} :
              tree' = set.tree /\ commitments' = set.commitments /\ root_history' = set.root_history
        /\ nullifiers' = nullifiers \cup {m.private[i].nullifier : i \in DOMAIN m.private}
        /\ posted' = posted \cup {[nullifier |-> m.private[i].nullifier, note |-> m.private[i].note] : i \in DOMAIN m.private}
        /\ UNCHANGED <<block, prover, proven>>

NextBlock ==
    /\ job = NoJob
    /\ block < MaxBlock
    /\ block' = block + 1
    /\ UNCHANGED <<accounts, tree, commitments, root_history, nullifiers, posted, prover, proven>>

Next ==
    \/ \E j \in Job : Start(j)
    \/ \E pre \in (IF Running THEN PreStates ELSE {}), balance \in 0..MaxBalance, claim \in Claims :
          OutputAccount(pre, balance, claim)
    \/ \E end \in Ending : FinishCall(end.calls, end.window)
    \/ \E order \in UNION {Permutations(1..n) : n \in 1..3} : Prove(order)
    \/ Abandon
    \/ \E m \in proven : Apply(m)
    \/ NextBlock

Spec == Init /\ [][Next]_vars

-----------------------------------------------------------------------------

\* The notes that have not been spent with the key of their account.
Secret(publicKey) == publicKey[2]

Live ==
    {c \in DOMAIN commitments : IsNote(c) /\ for_account_update(c, Secret(NpkOf(c[2]))) \notin nullifiers}

Total == MapThenSumSet(LAMBDA id : accounts[id].balance, PublicId) + MapThenSumSet(LAMBDA c : c[3].balance, Live)

GenesisTotal ==
    MapThenSumSet(LAMBDA id : GenesisAccounts[id].balance, PublicId)
    + MapThenSumSet(LAMBDA i : GenesisNotes[i].account.balance, DOMAIN GenesisNotes)

\* Public balances and unspent notes add up to what genesis created: no chain of
\* calls, however it mixes public accounts, private accounts and PDAs, and no
\* two proofs in flight, make or destroy value.
ValueIsConserved == Total = GenesisTotal

\* Whoever holds the viewing key that an account's id commits to can read every
\* note of the account in the blocks, and finds the account's id from the note.
NotesAreReadable ==
    \A c \in DOMAIN commitments :
        \/ ~IsNote(c) \/ \E i \in DOMAIN GenesisNotes : c = Commitment(GenesisNotes[i].id, GenesisNotes[i].account)
        \/ \E p \in posted : \E read \in decrypt(p.note, VpkOf(c[2]), p.nullifier) :
              /\ read.account = c[3]
              /\ for_private_account(NpkOf(c[2]), VpkOf(c[2]), read.kind) = c[2]

\* The tree is the reference tree of its leaves, and the membership proof of
\* every commitment leads to the current root.
ProofsLeadToTheRoot ==
    LET leaves == [k \in 1..tree.length |-> CHOOSE c \in DOMAIN commitments : commitments[c] = k - 1]
    IN  /\ root(tree) = ReferenceRoot(leaves) /\ root(tree) \in root_history
        /\ \A c \in DOMAIN commitments : ProvenRoot(c) = root(tree)

\* A proof of a transaction that conflicts with nothing applied since stays good:
\* if its nullifiers are unspent, its public accounts as they were and its
\* window open, the ledger takes it, whatever other notes were added.
UnconflictedIsAccepted ==
    \A m \in proven :
        /\ \A i \in DOMAIN m.private : m.private[i].nullifier \notin nullifiers
        /\ ProofIsValid(m)
        /\ m.window[1] <= block /\ block < m.window[2]
        /\ m.private # <<>>
        => from_privacy_preserving_transaction(m)

\* Proofs stay good while notes are added: those of membership and those in flight.
ProofsStayGood == ProofsLeadToTheRoot /\ UnconflictedIsAccepted
==============================================================================
