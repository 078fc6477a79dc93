------------------------------ MODULE KeyChain -------------------------------
(***************************************************************************)
(* The private accounts of a wallet: the keys it holds, the state it has   *)
(* cached for every account, and the index of nullifiers by which it finds *)
(* their next update (lez/wallet/src/storage).                             *)
(*                                                                         *)
(* A key stands for the whole key chain that is derived from it: the node  *)
(* of the key tree at a chain index, a key of a group's master secret, or  *)
(* an imported one.  The wallet is a record                                *)
(*   key_map            chain index -> kind of account -> cached account   *)
(*   account_id_map     account id  -> chain index                         *)
(*   imported           key -> kind of account -> cached account           *)
(*   shared             account id  -> [key, kind, account]                *)
(*   last_synced_block  the cursor of the scan                             *)
(***************************************************************************)
EXTENDS Integers, Sequences, FiniteSets, Accounts

-----------------------------------------------------------------------------
(***************************************************************************)
(* The tree of keys of a wallet (lee/key_protocol/src/key_management/      *)
(* key_tree).  A node is named by its chain index, the sequence of child   *)
(* numbers that leads to it from the root; a tree is the set of the chain  *)
(* indices it holds.  The keys of a node are a function of the seed and of *)
(* its chain index.                                                        *)
(***************************************************************************)

CONSTANT MaxIndex   \* u32::MAX

ASSUME IndexAssumption == MaxIndex \in Nat \ {0}

Index == 0..MaxIndex

Root == <<>>

nth_child(ci, n) == Append(ci, n)

parent(ci) == SubSeq(ci, 1, Len(ci) - 1)

\* Sum of the numbers on the path, each plus one.
depth(ci) ==
    LET sum[n \in 0..Len(ci)] == IF n = 0 THEN 0 ELSE sum[n - 1] + ci[n] + 1
    IN  sum[Len(ci)]

\* The last two numbers become one, at the same depth.
collapse_back(ci) ==
    LET last == Len(ci) IN Append(SubSeq(ci, 1, last - 2), ci[last - 1] + ci[last] + 1)

shuffle(ci) ==
    LET P == DOMAIN ci
    IN  {[i \in P |-> ci[p[i]]] : p \in {f \in [P -> P] : \A i, j \in P : f[i] = f[j] => i = j}}

\* Every chain index of this depth.  The code lists them in a fixed order, which
\* is left open here.
chain_ids_at_depth(d) ==
    LET collapsed[n \in 0..d] ==
            IF n = 0 THEN {[i \in 1..d |-> 0]}
            ELSE UNION {shuffle(collapse_back(ci)) : ci \in {c \in collapsed[n - 1] : Len(c) > 1}}
    IN  UNION {collapsed[n] : n \in 0..d}

\* A gap between two children: unreachable!() in the search.
Gap == -1

\* Mutant: the search ends at the last child.
Mutfind_next_last_child_of_id(tree, ci) ==
    LET has(n) == nth_child(ci, n) \in tree
        search[left_border \in Index, right \in Index, right_border \in Index] ==
            IF has(right) THEN
                IF has(right + 1) THEN search[right, (right + right_border) \div 2, right_border]
                ELSE right
            ELSE IF has(right + 1) THEN Gap
            ELSE search[left_border, (left_border + right) \div 2, right]
    IN  IF ~has(0) THEN 0 ELSE search[0, MaxIndex - 1, MaxIndex]

\* The number of the next child of a node, by bisection.
find_next_last_child_of_id(tree, ci) ==
    LET has(n) == nth_child(ci, n) \in tree
        search[left_border \in Index, right \in Index, right_border \in Index] ==
            IF has(right) THEN
                IF has(right + 1) THEN search[right, (right + right_border) \div 2, right_border]
                ELSE right + 1
            ELSE IF has(right + 1) THEN Gap
            ELSE search[left_border, (left_border + right) \div 2, right]
    IN  IF ~has(0) THEN 0 ELSE search[0, MaxIndex - 1, MaxIndex]

\* generate_new_node, for a parent in the tree.
generate_new_node(tree, ci) == nth_child(ci, find_next_last_child_of_id(tree, ci))

\* What find_next_slot_layered may return: a free place of the first layer that has one.
find_next_slot_layered(tree) ==
    LET full == {d \in 1..(Cardinality(tree) + 1) : chain_ids_at_depth(d) \subseteq tree}
        first == CHOOSE d \in 1..(Cardinality(tree) + 1) : d \notin full /\ \A e \in 1..(d - 1) : e \in full
    IN  chain_ids_at_depth(first) \ tree

\* fill_node derives a node from its parent, and fails without one.
CanFill(tree, ci) == parent(ci) \in tree

\* generate_new_node_layered.
generate_new_node_layered(tree) == {ci \in find_next_slot_layered(tree) : CanFill(tree, ci)}

generate_tree_for_depth(d) == {Root} \cup UNION {chain_ids_at_depth(e) : e \in 1..(d - 1)}

\* What a cleanup of the layers below d may leave: it goes from the deepest layer
\* to the first, and stops at the first node in use.
cleanup_tree_remove_uninit_layered(tree, d, used) ==
    LET layer(e) == chain_ids_at_depth(e) \cap tree
        clean == {e \in 1..(d - 1) : \A f \in e..(d - 1) : layer(f) \cap used = {}}
        removed == UNION {layer(e) : e \in clean}
        stops == {e \in 1..(d - 1) : e \notin clean /\ \A f \in (e + 1)..(d - 1) : f \in clean}
        partly == UNION {layer(e) \ used : e \in stops}
    IN  {tree \ (removed \cup some) : some \in SUBSET partly}

-----------------------------------------------------------------------------

LOCAL INSTANCE SequencesExt
LOCAL INSTANCE Functions
LOCAL INSTANCE TLC

\* The keys of a node and of a shared PDA.
TreeKey(ci) == <<"tree", ci>>

derive_keys_for_pda(program, seed) == <<"group pda", program, seed>>

\* A shared account, by its key and its kind.
create_shared_pda_account(program, seed, identifier) ==
    [key |-> derive_keys_for_pda(program, seed), kind |-> PdaKind(program, seed, identifier)]

IdOf(key, kind) == for_private_account(NullifierPublicKey(key), key, kind)

compute_view_tag(key) == <<"tag", key>>

\* ChildKeysPrivate::from_ssk_and_ccc: a new node has one account.
NewNode == Regular(0) :> DefaultAccount

new_from_root(node) ==
    [key_map |-> Root :> node,
     account_id_map |-> [id \in {IdOf(TreeKey(Root), kind) : kind \in DOMAIN node} |-> Root]]

NewKeyChain ==
    [key_map |-> Root :> NewNode,
     account_id_map |-> IdOf(TreeKey(Root), Regular(0)) :> Root,
     imported |-> <<>>, shared |-> <<>>, last_synced_block |-> 0]

insert_child(w, ci) ==
    [w EXCEPT !.key_map = (ci :> NewNode) @@ @,
              !.account_id_map = (IdOf(TreeKey(ci), Regular(0)) :> ci) @@ @]

\* Under a given node, or in layers.
create_private_accounts_key(w) ==
    LET tree == DOMAIN w.key_map
    IN  {insert_child(w, ci) :
            ci \in {generate_new_node(tree, up) : up \in tree} \cup generate_new_node_layered(tree)}

\* Storage::restore and generate_trees_for_depth: every node down to depth d, and nothing else.
restore(d) ==
    [NewKeyChain EXCEPT
        !.key_map = [ci \in generate_tree_for_depth(d) |-> NewNode],
        !.account_id_map = [id \in {IdOf(TreeKey(ci), Regular(0)) : ci \in generate_tree_for_depth(d)} |->
                               CHOOSE ci \in generate_tree_for_depth(d) : IdOf(TreeKey(ci), Regular(0)) = id]]

\* The result of a cleanup that leaves these nodes.
KeepNodes(w, tree) ==
    [w EXCEPT !.key_map = Restrict(@, tree),
              !.account_id_map = Restrict(@, {id \in DOMAIN @ : @[id] \in tree})]

-----------------------------------------------------------------------------

\* FoundPrivateAccount: the accounts of imported keys and of the tree.
Imported(w) ==
    UNION {{[key |-> k, kind |-> x, account |-> w.imported[k][x]] : x \in DOMAIN w.imported[k]} :
              k \in DOMAIN w.imported}

Generated(w) ==
    UNION {{[key |-> TreeKey(ci), kind |-> x, account |-> w.key_map[ci][x]] : x \in DOMAIN w.key_map[ci]} :
              ci \in DOMAIN w.key_map}

private_accounts(w) == Imported(w) \cup Generated(w)

\* The account with this id, the imported one first.
private_account(w, id) ==
    LET found(S) == {f \in S : IdOf(f.key, f.kind) = id}
    IN  IF found(Imported(w)) # {} THEN found(Imported(w)) ELSE found(Generated(w))

update_shared_private_account_state(w, id, account) ==
    [w EXCEPT !.shared = [@ EXCEPT ![id].account = account]]

\* Where an account goes.  The empty set is an error: no key of the wallet has it.
insert_private_account(w, id, kind, account) ==
    LET imported == {f \in Imported(w) : IdOf(f.key, f.kind) = id}
        nodes == {ci \in DOMAIN w.key_map : IdOf(TreeKey(ci), kind) = id}
        stored(ci) == [w EXCEPT !.key_map[ci] = (kind :> account) @@ @]
    IN  IF id \in DOMAIN w.shared THEN {update_shared_private_account_state(w, id, account)}
        ELSE IF imported # {} THEN {[w EXCEPT !.imported[f.key][f.kind] = account] : f \in imported}
        ELSE IF id \in DOMAIN w.account_id_map THEN {stored(w.account_id_map[id])}
        ELSE {[stored(ci) EXCEPT !.account_id_map = (id :> ci) @@ @] : ci \in nodes}

\* The accounts of this key: the new kind is added or replaced.
add_imported_private_account(w, key, identifier, account) ==
    LET known == IF key \in DOMAIN w.imported THEN w.imported[key] ELSE <<>>
    IN  [w EXCEPT !.imported = (key :> ((Regular(identifier) :> account) @@ known)) @@ @]

insert_shared_private_account(w, id, key, kind) ==
    [w EXCEPT !.shared = (id :> [key |-> key, kind |-> kind, account |-> DefaultAccount]) @@ @]

-----------------------------------------------------------------------------

next_update_nullifier(id, account, nsk) == for_account_update(Commitment(id, account), nsk)

track(index, id, account, nsk) == (next_update_nullifier(id, account, nsk) :> id) @@ index

track_initialization(id) == for_account_initialization(id) :> id

build_latest_nullifier_index(w) ==
    LET entries ==
            {<<next_update_nullifier(IdOf(f.key, f.kind), f.account, f.key), IdOf(f.key, f.kind)>> :
                f \in private_accounts(w)} \cup
            {<<next_update_nullifier(id, w.shared[id].account, w.shared[id].key), id>> : id \in DOMAIN w.shared}
    IN  [n \in {e[1] : e \in entries} |-> (CHOOSE e \in entries : e[1] = n)[2]]

\* The key that reads the notes of a known account; none for an unknown one.
KeyFor(w, id) ==
    IF id \in DOMAIN w.shared THEN {w.shared[id].key} ELSE {f.key : f \in private_account(w, id)}

Stored(w, id, note) ==
    IF id \in DOMAIN w.shared THEN {update_shared_private_account_state(w, id, note.account)}
    ELSE insert_private_account(w, id, note.kind, note.account)

\* The account's note is read, and its cached state and its nullifier move on.
\* Nothing happens without a key that reads the note.
apply_nullifier_update(w, index, action, id) ==
    LET awaited == Restrict(index, DOMAIN index \ {action.nullifier})
    IN  UNION {UNION {{[w |-> v, index |-> track(awaited, id, note.account, key)] : v \in Stored(w, id, note)} :
                          note \in decrypt(action.note, key, action.nullifier)} : key \in KeyFor(w, id)}

\* The element of a set that has one.
The(S) == CHOOSE x \in S : TRUE

\* One pass over a message; `handled` are the actions that were recognised.
sync_updates_via_nullifiers(w, index, message) ==
    LET applied(s, i) ==
            IF message[i].nullifier \notin DOMAIN s.index THEN {}
            ELSE {[w |-> a.w, index |-> a.index, handled |-> s.handled \cup {i}] :
                     a \in apply_nullifier_update(s.w, s.index, message[i], s.index[message[i].nullifier])}
        step(before, i) == The(UNION {{IF after = {} THEN s ELSE The(after) : after \in {applied(s, i)}} : s \in {before}})
    IN  FoldLeft(step, [w |-> w, index |-> index, handled |-> {}], [i \in 1..Len(message) |-> i])

\* The action of a message that spends or creates the account.
locate_spend(w, id, message) ==
    LET cached == IF id \in DOMAIN w.shared THEN {w.shared[id].account} ELSE {f.account : f \in private_account(w, id)}
        awaited == {for_account_initialization(id)} \cup
                   {next_update_nullifier(id, account, key) : account \in cached, key \in KeyFor(w, id)}
        hits == {i \in 1..Len(message) : message[i].nullifier \in awaited}
    IN  {i \in hits : \A j \in hits : i <= j}

-----------------------------------------------------------------------------

\* KeyChainPersistentData: a node is written once for every account id it has,
\* an imported account under its identifier.
to_persistent(w) ==
    [nodes |-> {[account_id |-> id, chain_index |-> w.account_id_map[id],
                 data |-> w.key_map[w.account_id_map[id]]] :
                   id \in {i \in DOMAIN w.account_id_map : w.account_id_map[i] \in DOMAIN w.key_map}},
     imported |-> {[key |-> f.key, identifier |-> f.kind.identifier, account |-> f.account] : f \in Imported(w)},
     shared |-> w.shared, last_synced_block |-> w.last_synced_block]

from_persistent(p) ==
    LET root == (CHOOSE n \in p.nodes : n.chain_index = Root).data
        read(n) == CHOOSE m \in p.nodes : m.chain_index = n
    IN  [key_map |-> [ci \in {n.chain_index : n \in p.nodes} |-> read(ci).data],
         account_id_map |-> [id \in {n.account_id : n \in p.nodes} |->
                                 (CHOOSE n \in p.nodes : n.account_id = id).chain_index]
                            @@ new_from_root(root).account_id_map,
         imported |-> [key \in {i.key : i \in p.imported} |->
                          [x \in {Regular(i.identifier) : i \in {j \in p.imported : j.key = key}} |->
                              (CHOOSE i \in p.imported : i.key = key /\ i.identifier = x.identifier).account]],
         shared |-> p.shared, last_synced_block |-> p.last_synced_block]
==============================================================================
