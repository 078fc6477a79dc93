------------------------------- MODULE Wallet -------------------------------
(***************************************************************************)
(* The scan by which a wallet follows its private accounts                 *)
(* (lez/wallet/src/lib.rs).  The chain grows under other holders of the    *)
(* wallet's accounts: senders who create an account for one of its keys,   *)
(* co-owners of a shared account, another copy of the wallet.  The wallet  *)
(* scans block by block, sends transactions and reads their result ahead   *)
(* of the scan, adds keys, joins shared accounts, is restored from its     *)
(* seed, and may stop at any moment and start again from its file.  It is  *)
(* run by the command line, where every command is a process of its own    *)
(* that stores what it changed, or through the C interface by a host that  *)
(* keeps it open and stores it when it likes.                              *)
(*                                                                         *)
(* A block holds privacy-preserving messages, and a message the actions    *)
(* [nullifier, note, view_tag]; everything else in a block is of no        *)
(* concern here.  A private account's nonce stands for its state.          *)
(***************************************************************************)
EXTENDS KeyChain

LOCAL INSTANCE SequencesExt

CONSTANTS
    Identifier,                     \* identifiers that senders use
    World,                          \* a set of [host, shared, imported, messages]
    SYNC_PERSIST_CHECKPOINT_BLOCKS,
    MaxBlocks, MaxNodes, MaxDepth, MaxEvents    \* bounds of the model

\* In a world the wallet is run by host, "cli" or "ffi"; shared are the [key, kind] of
\* the accounts a group shares, imported the keys that another wallet exported, and
\* messages bounds the length of the chain.

VARIABLES
    world,      \* one of World
    messages,   \* in the order of the chain, those of the next block included
    blocks,     \* the number of messages up to the end of every block
    wallet,     \* the key chain in memory
    disk,       \* its file
    session,    \* what the wallet is doing
    events      \* commands, crashes and failed scans so far

vars == <<world, messages, blocks, wallet, disk, session, events>>

Idle == [type |-> "idle"]

Syncing(index, target, depth_restored) ==
    [type |-> "sync", index |-> index, target |-> target, unsaved |-> 0, depth |-> depth_restored]

Cleaning(depth_restored) == [type |-> "cleanup", depth |-> depth_restored]

Sent(message, ids) == [type |-> "sent", message |-> message, decode |-> ids]

Panicked == [type |-> "panicked"]

-----------------------------------------------------------------------------
(* The ledger's private accounts.                                          *)

Height == Len(blocks)

End(b) == IF b = 0 THEN 0 ELSE blocks[b]

Sealed == End(Height)

\* The messages of the blocks from b to c.
Blocks(b, c) == SubSeq(messages, End(b - 1) + 1, End(c))

IdOfNote(note) == IdOf(note.vpk, note.kind)

\* The notes of an account in a message: at most one.
NotesOf(message, id) == {message[i].note : i \in {j \in DOMAIN message : IdOfNote(message[j].note) = id}}

\* The state of an account after the first n messages.
StateAfter(n, id) ==
    LET of == {m \in 1..n : NotesOf(messages[m], id) # {}}
        last == CHOOSE m \in of : \A k \in of : k <= m
    IN  IF of = {} THEN DefaultAccount ELSE (CHOOSE note \in NotesOf(messages[last], id) : TRUE).account

WithNonce(n) == [DefaultAccount EXCEPT !.nonce = n]

Action(key, kind, account, nullifier, tag) ==
    [nullifier |-> nullifier, note |-> encrypt(account, kind, key, nullifier), view_tag |-> tag]

\* The action that creates an account carries the view tag of its keys.
Creation(key, kind) ==
    LET id == IdOf(key, kind)
    IN  Action(key, kind, WithNonce(private_account_nonce_init(id)), for_account_initialization(id),
               compute_view_tag(key))

\* One that updates it carries a random tag.
Update(key, kind, account, tag) ==
    Action(key, kind, WithNonce(private_account_nonce_increment(account.nonce, key)),
           next_update_nullifier(IdOf(key, kind), account, key), tag)

Tags(key) == {compute_view_tag(key), compute_view_tag(<<"other">>)}

\* What a holder who knows the ledger can do next to an account.
NextActions(key, kind) ==
    LET now == StateAfter(Len(messages), IdOf(key, kind))
    IN  IF now = DefaultAccount THEN {Creation(key, kind)} ELSE {Update(key, kind, now, tag) : tag \in Tags(key)}

Fresh(message) ==
    \A i \in DOMAIN message, m \in DOMAIN messages : \A j \in DOMAIN messages[m] :
        message[i].nullifier # messages[m][j].nullifier

-----------------------------------------------------------------------------

Init ==
    /\ world \in World
    /\ messages = <<>> /\ blocks = <<>>
    /\ wallet = NewKeyChain /\ disk = to_persistent(NewKeyChain)
    /\ session = Idle /\ events = 0

Restoring == session.type = "cleanup" \/ (session.type = "sync" /\ session.depth > 0)

\* The keys that were given to senders.  A host stores a key before it does so.
HandedOut == DOMAIN (IF world.host = "cli" THEN wallet ELSE from_persistent(disk)).key_map

\* Accounts that others use: those of the keys in the wallet's tree, with any
\* identifier, the shared ones and those of an imported key.  A node gets its
\* first account while the wallet has it, and not during a restoration.
Usable ==
    LET tree == {[key |-> TreeKey(ci), kind |-> Regular(i)] : ci \in HandedOut, i \in Identifier}
        known(a) == StateAfter(Len(messages), IdOf(a.key, a.kind)) # DefaultAccount
    IN  {a \in tree : ~Restoring \/ known(a)} \cup world.shared
        \cup {[key |-> key, kind |-> Regular(0)] : key \in world.imported}

\* Others put a message on the chain.
Others ==
    /\ Len(messages) < world.messages
    /\ \E a \in Usable : \E x \in NextActions(a.key, a.kind) : messages' = Append(messages, <<x>>)
    /\ UNCHANGED <<world, blocks, wallet, disk, session, events>>

\* A block without a private message changes nothing for the wallet.
Seal ==
    /\ Height < MaxBlocks /\ Sealed < Len(messages)
    /\ blocks' = Append(blocks, Len(messages))
    /\ UNCHANGED <<world, messages, wallet, disk, session, events>>

-----------------------------------------------------------------------------

\* Every command of the wallet ends with store_persistent_data.
Store(w) == wallet' = w /\ disk' = to_persistent(w)

\* wallet account new private, and new private-accounts-key.
handle_private ==
    /\ world.host = "cli" /\ session = Idle /\ events < MaxEvents /\ Cardinality(DOMAIN wallet.key_map) < MaxNodes
    /\ \E w \in create_private_accounts_key(wallet) : Store(w)
    /\ UNCHANGED <<world, messages, blocks, session>> /\ events' = events + 1

\* Mutant: the scan for a shared account stops at its first state.
Mutcatch_up_shared_account(w, id) ==
    LET step(before, message) ==
            The({[sync_updates_via_nullifiers(s.w, s.index, message) EXCEPT !.index = s.index] : s \in {before}})
    IN  FoldLeft(step, [w |-> w, index |-> track_initialization(id), handled |-> {}],
                 Blocks(1, w.last_synced_block)).w

\* From the first block to the cursor, waiting for nothing but the account's creation
\* and what follows from it.
catch_up_shared_account(w, id) ==
    LET step(before, message) == The({sync_updates_via_nullifiers(s.w, s.index, message) : s \in {before}})
    IN  FoldLeft(step, [w |-> w, index |-> track_initialization(id), handled |-> {}],
                 Blocks(1, w.last_synced_block)).w

register_shared_account(w, a) == insert_shared_private_account(w, IdOf(a.key, a.kind), a.key, a.kind)

\* wallet account new private-gms.  A failure leaves the file as it was.
handle_private_gms ==
    /\ world.host = "cli" /\ session = Idle /\ events < MaxEvents
    /\ \E a \in world.shared :
         Store(catch_up_shared_account(register_shared_account(wallet, a), IdOf(a.key, a.kind)))
    /\ UNCHANGED <<world, messages, blocks, session>> /\ events' = events + 1

\* With a state no older than the wallet's own scan; stored by either interface.
ImportPrivate ==
    /\ session = Idle /\ events < MaxEvents
    /\ \E key \in world.imported \ DOMAIN wallet.imported, n \in End(wallet.last_synced_block)..Sealed :
         Store(add_imported_private_account(wallet, key, 0, StateAfter(n, IdOf(key, Regular(0)))))
    /\ UNCHANGED <<world, messages, blocks, session>> /\ events' = events + 1

\* wallet account import private.
import_private_account == world.host = "cli" /\ ImportPrivate

-----------------------------------------------------------------------------
\* The C interface.

wallet_ffi_import_private_account == world.host = "ffi" /\ ImportPrivate

\* A new key is in memory only.
wallet_ffi_create_private_accounts_key ==
    /\ world.host = "ffi" /\ session = Idle
    /\ events < MaxEvents /\ Cardinality(DOMAIN wallet.key_map) < MaxNodes
    /\ wallet' \in create_private_accounts_key(wallet)
    /\ UNCHANGED <<world, messages, blocks, disk, session>> /\ events' = events + 1

wallet_ffi_save ==
    /\ world.host = "ffi" /\ session = Idle /\ from_persistent(disk) # wallet
    /\ Store(wallet)
    /\ UNCHANGED <<world, messages, blocks, session, events>>

\* The handle is destroyed, and the wallet opened again from its file.
wallet_ffi_open ==
    /\ world.host = "ffi" /\ session = Idle /\ events < MaxEvents
    /\ wallet' = from_persistent(disk) /\ wallet' # wallet
    /\ UNCHANGED <<world, messages, blocks, disk, session>> /\ events' = events + 1

-----------------------------------------------------------------------------

\* Mutant: a wallet that is one block behind does not scan.
MutStartSync ==
    /\ world.host = "cli" /\ session = Idle /\ wallet.last_synced_block + 1 < Height
    /\ session' = Syncing(build_latest_nullifier_index(wallet), Height, 0)
    /\ UNCHANGED <<world, messages, blocks, wallet, disk, events>>

\* sync_to_latest_block: the leader names its last block.
StartSync ==
    /\ world.host = "cli" /\ session = Idle /\ wallet.last_synced_block < Height
    /\ session' = Syncing(build_latest_nullifier_index(wallet), Height, 0)
    /\ UNCHANGED <<world, messages, blocks, wallet, disk, events>>

\* To the block the host names.
wallet_ffi_sync_to_block ==
    /\ world.host = "ffi" /\ session = Idle
    /\ \E target \in (wallet.last_synced_block + 1)..Height :
          session' = Syncing(build_latest_nullifier_index(wallet), target, 0)
    /\ UNCHANGED <<world, messages, blocks, wallet, disk, events>>

\* The notes of a message with the tag of a key, as that key reads them.
ReadByTag(message, handled, key) ==
    UNION {IF i \in handled \/ message[i].view_tag # compute_view_tag(key) THEN {}
           ELSE decrypt(message[i].note, key, message[i].nullifier) : i \in DOMAIN message}

\* New accounts of the wallet's own keys; the empty set stands for the panic on an
\* account that no key of the wallet has a place for.
sync_private_accounts_with_message(s, message) ==
    LET received == UNION {{[key |-> f.key, kind |-> note.kind, account |-> note.account] :
                               note \in ReadByTag(message, s.handled, f.key)} : f \in private_accounts(s.w)}
        step(sets, r) ==
            LET id == IdOf(r.key, r.kind)
            IN  UNION {{[t EXCEPT !.w = v, !.index = track(@, id, r.account, r.key)] :
                           v \in insert_private_account(t.w, id, r.kind, r.account)} : t \in sets}
    IN  UNION {FoldLeft(step, {s}, q) : q \in {SetToSeq(S) : S \in {received}}}

\* New shared accounts: the note's own kind is not looked at.
sync_shared_private_accounts_with_tx(s, message) ==
    LET key(id) == s.w.shared[id].key
        posted == UNION {{<<id, note>> : note \in ReadByTag(message, s.handled, key(id))} : id \in DOMAIN s.w.shared}
        step(before, p) ==
            The({[t EXCEPT !.w = update_shared_private_account_state(@, p[1], p[2].account),
                           !.index = track(@, p[1], p[2].account, key(p[1]))] : t \in {before}})
    IN  The({FoldLeft(step, s, q) : q \in {SetToSeq(S) : S \in {posted}}})

\* One message of a block: known accounts by nullifier, then new ones by tag.
Scanned(s, message) ==
    UNION {{sync_shared_private_accounts_with_tx(t, message) :
               t \in sync_private_accounts_with_message(found, message)} :
              found \in {sync_updates_via_nullifiers(s.w, s.index, message)}}

ScannedBlock(w, index, block) ==
    FoldLeft(LAMBDA sets, message : UNION {Scanned(s, message) : s \in sets},
             {[w |-> w, index |-> index, handled |-> {}]}, block)

\* SyncPersistenceCheckpoint.
record_block(unsaved) == (unsaved + 1) % SYNC_PERSIST_CHECKPOINT_BLOCKS

finish_sync_attempt(file, w, unsaved) == IF unsaved # 0 THEN to_persistent(w) ELSE file

\* One turn of the loop of sync_to_block.
SyncBlock ==
    /\ session.type = "sync" /\ wallet.last_synced_block < session.target
    /\ LET next == wallet.last_synced_block + 1
           unsaved == record_block(session.unsaved)
       IN  \E scanned \in {ScannedBlock(wallet, session.index, block) : block \in {Blocks(next, next)}} :
             \/ scanned = {} /\ session' = Panicked /\ UNCHANGED <<wallet, disk>>
             \/ \E s \in scanned :
                  /\ wallet' = [s.w EXCEPT !.last_synced_block = next]
                  /\ session' = [session EXCEPT !.index = s.index, !.unsaved = unsaved]
                  /\ disk' = IF unsaved = 0 THEN to_persistent(wallet') ELSE disk
    /\ UNCHANGED <<world, messages, blocks, events>>

\* Nodes with an account that is not empty.
Used(w) == {ci \in DOMAIN w.key_map : \E x \in DOMAIN w.key_map[ci] : w.key_map[ci][x] # DefaultAccount}

\* The end of sync_to_block; a restoration goes on to its cleanup.
FinishSync ==
    /\ session.type = "sync" /\ wallet.last_synced_block = session.target
    /\ session' = IF session.depth = 0 THEN Idle ELSE Cleaning(session.depth)
    /\ disk' = finish_sync_attempt(disk, wallet, session.unsaved)
    /\ UNCHANGED <<world, messages, blocks, wallet, events>>

\* The end of a restoration: empty nodes are removed and the file is written again.
FinishRestoration ==
    /\ session.type = "cleanup" /\ session' = Idle
    /\ \E tree \in cleanup_tree_remove_uninit_layered(DOMAIN wallet.key_map, session.depth, Used(wallet)) :
          Store(KeepNodes(wallet, tree))
    /\ UNCHANGED <<world, messages, blocks, events>>

\* The public tree is cleaned up first, and a request for one of its accounts fails.
CleanupFails ==
    /\ session.type = "cleanup" /\ events < MaxEvents
    /\ session' = Idle
    /\ wallet' = IF world.host = "cli" THEN from_persistent(disk) ELSE wallet
    /\ events' = events + 1
    /\ UNCHANGED <<world, messages, blocks, disk>>

\* Fetching a block fails: what was scanned is stored, and the command ends; a
\* host goes on with what is in memory.
SyncFails ==
    /\ session.type = "sync" /\ events < MaxEvents
    /\ session' = Idle
    /\ disk' = finish_sync_attempt(disk, wallet, session.unsaved)
    /\ wallet' = IF world.host = "cli" THEN from_persistent(disk') ELSE wallet
    /\ events' = events + 1
    /\ UNCHANGED <<world, messages, blocks>>

Crash ==
    /\ session.type \in {"sync", "cleanup", "sent"} /\ events < MaxEvents
    /\ session' = Idle
    /\ wallet' = from_persistent(disk)
    /\ events' = events + 1
    /\ UNCHANGED <<world, messages, blocks, disk>>

\* To a depth below which every node in use lies, while no message is on its way.
execute_keys_restoration ==
    /\ session = Idle /\ Sealed = Len(messages) /\ events < MaxEvents
    /\ \E d \in 2..MaxDepth :
         /\ \A ci \in DOMAIN wallet.key_map : depth(ci) < d
         /\ wallet' = restore(d)
         /\ session' = Syncing(build_latest_nullifier_index(wallet'), Height, d)
    /\ events' = events + 1
    /\ UNCHANGED <<world, messages, blocks, disk>>

\* wallet restore-keys.
RestoreKeys == world.host = "cli" /\ execute_keys_restoration

wallet_ffi_restore_data == world.host = "ffi" /\ execute_keys_restoration

-----------------------------------------------------------------------------

\* The account as AccountManager gives it to the circuit: an update when the ledger has the
\* cached state, otherwise a creation.
OwnActions(f) ==
    IF \E m \in 1..Sealed : \E note \in NotesOf(messages[m], IdOf(f.key, f.kind)) : note.account = f.account
    THEN {Update(f.key, f.kind, f.account, tag) : tag \in Tags(f.key)}
    ELSE {Creation(f.key, f.kind)}

\* The accounts a command may name.
resolve_private_account ==
    private_accounts(wallet) \cup
    {[key |-> e.key, kind |-> e.kind, account |-> e.account] : e \in {wallet.shared[id] : id \in DOMAIN wallet.shared}}

\* send_privacy_preserving_tx.  A message the ledger refuses changes nothing.
Send ==
    /\ world.host = "cli" /\ session = Idle /\ events < MaxEvents
    /\ Len(messages) < world.messages
    /\ \E f, g \in resolve_private_account :
       \E x \in OwnActions(f), y \in OwnActions(g) :
         LET message == IF f = g THEN <<x>> ELSE <<x, y>>
             ids == IF f = g THEN <<IdOf(f.key, f.kind)>> ELSE <<IdOf(f.key, f.kind), IdOf(g.key, g.kind)>>
         IN  /\ f = g => x = y
             /\ Fresh(message)
             /\ messages' = Append(messages, message)
             /\ session' = Sent(message, ids)
    /\ UNCHANGED <<world, blocks, wallet, disk>> /\ events' = events + 1

\* Each account's note, if the message has one for the state that is cached.
decode_insert_privacy_preserving_transaction_results(w, message, ids) ==
    LET step(sets, id) ==
            UNION {LET hit == locate_spend(v, id, message)
                   IN  IF hit = {} THEN {v}
                       ELSE UNION {UNION {insert_private_account(v, id, note.kind, note.account) :
                                             note \in decrypt(message[i].note, key, message[i].nullifier)} :
                                      i \in hit, key \in KeyFor(v, id)} : v \in sets}
    IN  FoldLeft(step, {w}, ids)

\* poll_and_finalize_pp_transaction, once the message is in a block.
Finalize ==
    /\ session.type = "sent"
    /\ \E m \in 1..Sealed : messages[m] = session.message
    /\ \E decoded \in {decode_insert_privacy_preserving_transaction_results(wallet, session.message, session.decode)} :
          IF decoded = {} THEN session' = Panicked /\ UNCHANGED <<wallet, disk>>
          ELSE \E w \in decoded : Store(w) /\ session' = Idle
    /\ UNCHANGED <<world, messages, blocks, events>>

\* The poll ends without an answer, or nobody asked for one.
GiveUp ==
    /\ session.type = "sent"
    /\ session' = Idle
    /\ UNCHANGED <<world, messages, blocks, wallet, disk, events>>

Next ==
    \/ Others \/ Seal
    \/ handle_private \/ handle_private_gms \/ import_private_account
    \/ wallet_ffi_create_private_accounts_key \/ wallet_ffi_import_private_account
    \/ wallet_ffi_save \/ wallet_ffi_open \/ wallet_ffi_sync_to_block \/ wallet_ffi_restore_data
    \/ StartSync \/ SyncBlock \/ FinishSync \/ SyncFails \/ Crash
    \/ RestoreKeys \/ FinishRestoration \/ CleanupFails
    \/ Send \/ Finalize \/ GiveUp

\* A wallet on the command line scans again and again (execute_continuous_run), a poll ends, and the
\* sequencer keeps answering now and then.
Fairness ==
    /\ WF_vars(Seal) /\ WF_vars(StartSync) /\ SF_vars(SyncBlock) /\ WF_vars(FinishSync)
    /\ WF_vars(FinishRestoration)
    /\ WF_vars(Finalize \/ GiveUp)

Spec == Init /\ [][Next]_vars /\ Fairness

-----------------------------------------------------------------------------

\* Every account the wallet shows.
Known ==
    {[id |-> IdOf(f.key, f.kind), account |-> f.account] : f \in private_accounts(wallet)} \cup
    {[id |-> id, account |-> wallet.shared[id].account] : id \in DOMAIN wallet.shared}

\* The cached state of every account is the ledger's after some message that is not
\* behind the scan; no account of a scanned block is missing.
CacheFollowsTheChain ==
    LET scanned == End(wallet.last_synced_block)
        nodes == {TreeKey(ci) : ci \in DOMAIN wallet.key_map}
    IN  /\ \A a \in Known : \E n \in scanned..Sealed : a.account = StateAfter(n, a.id)
        /\ \A m \in 1..scanned : \A i \in DOMAIN messages[m] :
              messages[m][i].note.vpk \in nodes => \E a \in Known : a.id = IdOfNote(messages[m][i].note)

\* The children of a node are numbered without a gap and every node has its parent, so
\* the search for a free place is right and a key is never derived twice.
KeyTreeIsDense ==
    LET tree == DOMAIN wallet.key_map
    IN  \A ci \in tree :
          /\ ci # Root => parent(ci) \in tree /\ \A n \in 0..(ci[Len(ci)] - 1) : nth_child(parent(ci), n) \in tree
          /\ generate_new_node(tree, ci) \notin tree /\ find_next_last_child_of_id(tree, ci) # Gap

\* When the chain stops growing, the scan reaches its end whatever came in between: with
\* CacheFollowsTheChain the wallet then has the ledger's state of all its accounts.
WalletConverges == <>[](world.host = "cli" => wallet.last_synced_block = Height)
=============================================================================
