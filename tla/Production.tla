----------------------------- MODULE Production ------------------------------
(***************************************************************************)
(* What one sequencer keeps and does around its blocks: the mempool, the   *)
(* gossip task, block production and the RPC handlers that read the chain. *)
(***************************************************************************)
EXTENDS SequencesExt, FiniteSets, Integers

-----------------------------------------------------------------------------
(***************************************************************************)
(* The mempool: a bounded channel that everyone pushes to, and a front     *)
(* buffer in which block production puts back what it could not place.     *)
(* The front buffer does not count against the bound.                      *)
(***************************************************************************)

EmptyPool == [channel |-> <<>>, front |-> <<>>]

is_empty(p) == p.channel = <<>> /\ p.front = <<>>

\* What pop returns: the front buffer's last entry, else the channel's first.
Popped(p) == IF p.front # <<>> THEN Last(p.front) ELSE Head(p.channel)

pop(p) ==
    IF p.front # <<>> THEN [p EXCEPT !.front = Front(@)] ELSE [p EXCEPT !.channel = Tail(@)]

push_front(p, t) == [p EXCEPT !.front = Append(@, t)]

\* try_push fails on a full channel.
HasRoom(p, max_size) == Len(p.channel) < max_size

try_push(p, t, max_size) ==
    IF HasRoom(p, max_size) THEN [p EXCEPT !.channel = Append(@, t)] ELSE p

Waiting(p) == ToSet(p.channel) \cup ToSet(p.front)

-----------------------------------------------------------------------------
(***************************************************************************)
(* The drive task of the gossip network of one node: the channel from the  *)
(* RPC service, the queue of publishes that failed, the cache of seen      *)
(* transactions, and admission to the mempool.  `known` stands for the     *)
(* duplicate cache inside gossipsub, which is a library.                   *)
(***************************************************************************)

CONSTANTS
    MaxTxSize,              \* max_block_size less the reserve for the header
    Size(_),                \* size of a transaction
    Stateless(_),           \* passes the stateless check
    SequencerOnly(_),       \* calls a program only the sequencer may call
    SEEN_CACHE_CAPACITY,
    TX_PUBLISH_CHANNEL_CAPACITY,
    PENDING_PUBLISH_CAPACITY

NewGossip == [out |-> <<>>, pending |-> <<>>, seen |-> <<>>, known |-> {}]

-----------------------------------------------------------------------------
\* The seen cache: oldest first, first in first out.

insert(seen, t) ==
    IF t \in ToSet(seen) THEN seen
    ELSE Append(IF Len(seen) >= SEEN_CACHE_CAPACITY THEN Tail(seen) ELSE seen, t)

-----------------------------------------------------------------------------
\* The RPC service and the gossip task admit the same transactions.
evaluate_transaction(t) == Size(t) <= MaxTxSize /\ Stateless(t) /\ ~SequencerOnly(t)

\* GossipTxPublisher::publish drops the transaction when the channel is full.
publish(g, t) ==
    IF Len(g.out) < TX_PUBLISH_CHANNEL_CAPACITY THEN [g EXCEPT !.out = Append(@, t)] ELSE g

\* Whether gossipsub hands the message on: it has a peer and does not know it.
Sends(g, t, connected) == connected /\ t \notin g.known

\* Mutant: a failed publish is not queued.
Mutpublish_transaction(g, t, connected) ==
    IF connected \/ t \in g.known
    THEN [g EXCEPT !.seen = insert(@, t), !.known = @ \cup {t}]
    ELSE g

publish_transaction(g, t, connected) ==
    IF connected \/ t \in g.known
    THEN [g EXCEPT !.seen = insert(@, t), !.known = @ \cup {t}]
    ELSE [g EXCEPT !.pending =
             Append(IF Len(@) >= PENDING_PUBLISH_CAPACITY THEN Tail(@) ELSE @, t)]

\* Everything that was queued is published again, in order.
flush_pending_publishes(g, connected) ==
    FoldLeft(LAMBDA acc, t : publish_transaction(acc, t, connected),
             [g EXCEPT !.pending = <<>>], g.pending)

\* A message from a peer, for the first time here: the mempool after it and
\* the gossip state after it.  A full mempool does not mark it seen.
Admits(g, t, pool, max_size) ==
    evaluate_transaction(t) /\ t \notin ToSet(g.seen) /\ HasRoom(pool, max_size)

on_gossip_message(g, t, pool, max_size) ==
    [g EXCEPT !.known = @ \cup {t},
              !.seen = IF Admits(g, t, pool, max_size) THEN insert(@, t) ELSE @]

-----------------------------------------------------------------------------
(***************************************************************************)
(* One sequencer's blocks: how a block is filled from the recorded         *)
(* deposits and the mempool, what a follow update does to the head, the    *)
(* deposit records and the mempool, and the lookup of transactions.        *)
(*                                                                         *)
(* A block is [id, prev, hash, txs]; its hash names the sequencer and how  *)
(* many blocks it made.  The clock transaction that ends every block is    *)
(* left out.  Ids are positions in the chain, genesis being the first.     *)
(***************************************************************************)

CONSTANTS
    Deposit,                \* deposit events of the L1
    Mintable(_),            \* the bridge's escrow covers the deposit
    Signer(_), Nonce(_),    \* of a user transaction
    MaxBlockSize,           \* room for transactions in a block
    max_num_tx_in_block

NoHash == <<>>

Genesis == [id |-> 1, prev |-> NoHash, hash |-> <<"genesis", 1>>, txs |-> <<>>]

NewBlock(parent, hash, txs) ==
    [id |-> parent.id + 1, prev |-> parent.hash, hash |-> hash, txs |-> txs]

TxsOf(chain) == UNION {ToSet(chain[i].txs) : i \in 1..Len(chain)}

-----------------------------------------------------------------------------
\* Block production.

\* A user's transaction executes at its nonce; a deposit is minted when the
\* escrow covers it, and a second mint does nothing.
Executes(done, t) ==
    IF t \in Deposit THEN Mintable(t)
    ELSE Nonce(t) = Cardinality({u \in done \ Deposit : Signer(u) = Signer(t)})

deposit_already_minted(done, d) == d \in done

\* The records whose mint is not in the chain the block is built on.
pending_deposits(records, done) ==
    SelectSeq(records, LAMBDA d : ~deposit_already_minted(done, d))

fits_in_an_empty_block(t) == Size(t) <= MaxBlockSize

\* The state of the filling loop: what is left in the store's queue and in the
\* mempool, the block so far, and what was taken out and left out.
Filling(store, pool) ==
    [store |-> store, pool |-> pool, txs |-> <<>>, size |-> 0, left_out |-> {}, go |-> TRUE]

\* Mutant: what does not fit is not put back.
MutDeferred(f, t, rest) == [rest EXCEPT !.go = FALSE]

\* The block is full: a transaction of the mempool goes to its front, one of
\* the store is still recorded.
Deferred(f, t, rest) ==
    [rest EXCEPT !.go = FALSE, !.pool = IF f.store = <<>> THEN push_front(@, t) ELSE @]

\* Mutant: a mint that fails ends the turn.
Mutapply_mempool_transaction(f, t, rest, done) ==
    IF Executes(done \cup ToSet(f.txs), t)
    THEN [rest EXCEPT !.txs = Append(@, t), !.size = @ + Size(t)]
    ELSE [rest EXCEPT !.left_out = @ \cup {t}, !.go = t \notin Deposit]

apply_mempool_transaction(f, t, rest, done) ==
    IF Executes(done \cup ToSet(f.txs), t)
    THEN [rest EXCEPT !.txs = Append(@, t), !.size = @ + Size(t)]
    ELSE [rest EXCEPT !.left_out = @ \cup {t}]

\* One turn of the loop.
Filled(f, done) ==
    LET from_store == f.store # <<>>
        t == IF from_store THEN Head(f.store) ELSE Popped(f.pool)
        rest == IF from_store THEN [f EXCEPT !.store = Tail(@)]
                              ELSE [f EXCEPT !.pool = pop(@)]
        applied == apply_mempool_transaction(f, t, rest, done)
    IN  IF f.size + Size(t) > MaxBlockSize
        THEN IF from_store /\ ~fits_in_an_empty_block(t) THEN rest ELSE Deferred(f, t, rest)
        ELSE [applied EXCEPT !.go = @ /\ Len(applied.txs) < max_num_tx_in_block]

RECURSIVE Fill(_, _)
Fill(f, done) ==
    IF ~f.go \/ (f.store = <<>> /\ is_empty(f.pool)) THEN f ELSE Fill(Filled(f, done), done)

build_block_from_mempool(node) ==
    LET done == TxsOf(node.view)
    IN  Fill(Filling(pending_deposits(node.deposits, done), node.pool), done)

next_block_height(node) == Len(node.view) + 1

rewound_below_published(node) == next_block_height(node) <= node.high_water

-----------------------------------------------------------------------------
\* The follow path.

CommonPrefix(c, d) ==
    CHOOSE k \in 0..Len(c) :
        /\ k <= Len(d) /\ SubSeq(c, 1, k) = SubSeq(d, 1, k)
        /\ k = Len(c) \/ k = Len(d) \/ c[k + 1] # d[k + 1]

\* Transactions of orphaned blocks that go back to the mempool, in order.
resubmittable_txs(b) == SelectSeq(b.txs, LAMBDA t : t \notin Deposit /\ ~SequencerOnly(t))

resubmit_txs(orphaned, final_height) ==
    FlattenSeq([i \in 1..Len(orphaned) |->
        IF orphaned[i].id > final_height THEN resubmittable_txs(orphaned[i]) ELSE <<>>])

\* Whether an irreversible block carries the mint of a deposit.
finalized_deposit_ids(irreversible) == TxsOf(irreversible) \cap Deposit

\* New events are appended unless they are recorded or settled by the same
\* update; then the settled ones go.
stage_pending_deposit_events(records, new_events, remove_op_ids) ==
    SelectSeq(
        FoldLeft(LAMBDA acc, d :
                     IF d \in remove_op_ids \/ d \in ToSet(acc) THEN acc ELSE Append(acc, d),
                 records, new_events),
        LAMBDA d : d \notin remove_op_ids)

Resubmitted(pool, txs, max_size) ==
    FoldLeft(LAMBDA acc, t : try_push(acc, t, max_size), pool, txs)

\* The node after one update that takes its head to `head`, finalizes up to
\* `final_height`, reports `orphaned` and tells of `deposits`; `irreversible`
\* are the blocks it reports final.
apply_follow_update(node, head, final_height, orphaned, deposits, irreversible, max_size) ==
    [node EXCEPT
        !.view = head,
        !.final = final_height,
        !.deposits = stage_pending_deposit_events(@, deposits, finalized_deposit_ids(irreversible)),
        !.pool = Resubmitted(@, resubmit_txs(orphaned, final_height), max_size)]

-----------------------------------------------------------------------------
\* The map from transactions to block ids is filled when the store is opened
\* and by blocks this node produced; blocks it followed are not entered.
block_to_transactions_map(chain) ==
    [t \in TxsOf(chain) |->
        CHOOSE i \in 1..Len(chain) : t \in ToSet(chain[i].txs)
            /\ \A j \in (i + 1)..Len(chain) : t \notin ToSet(chain[j].txs)]

\* What the lookup does: nothing known, the block, or a panic when the store
\* holds another block there by now.
get_transaction_by_hash(node, t) ==
    IF t \notin DOMAIN node.index THEN "none"
    ELSE IF node.index[t] <= Len(node.view) /\ t \in ToSet(node.view[node.index[t]].txs)
         THEN "found"
         ELSE "panic"

\* Publication went through: the mark is raised, and the block becomes the
\* head if the head is still its parent.
record_produced_block(node, parent, block) ==
    IF node.view = parent
    THEN [node EXCEPT !.view = Append(@, block),
                      !.high_water = IF @ > Len(parent) + 1 THEN @ ELSE Len(parent) + 1,
                      !.index = [t \in ToSet(block.txs) |-> Len(parent) + 1] @@ @]
    ELSE [node EXCEPT !.high_water = IF @ > Len(parent) + 1 THEN @ ELSE Len(parent) + 1]

-----------------------------------------------------------------------------

(***************************************************************************)
(* The handlers of the RPC service that read a node's chain in several     *)
(* asks.  Each ask is answered by the executor as of that moment, and the  *)
(* follow path may move the head between two of them.  A request `r` is a  *)
(* record; `pc` is the next ask.  The client's part is here as well: it    *)
(* reads a history page by page, and asks again for fewer blocks when an   *)
(* answer is too large.  `snapshot`, the chain of the first page's tip,    *)
(* and `view`, the node's chain when the last block of the page was read,  *)
(* are for the property.                                                   *)
(***************************************************************************)

CONSTANTS
    MAX_CONFIRMATIONS,      \* MAX_LOCAL_PUBLIC_TRANSACTION_RECEIPT_CONFIRMATIONS
    MAX_HISTORY_BLOCKS,     \* MAX_LOCAL_PUBLIC_BLOCK_HISTORY_BLOCKS
    GENESIS_BLOCK_ID

IdleRequest ==
    [kind |-> "none", pc |-> "idle", node |-> "none", tx |-> "none", depth |-> 0, start |-> 0,
     max |-> 0, expected |-> NoHash, tip |-> NoHash, at |-> 0, prev |-> NoHash, blocks |-> <<>>, read |-> <<>>,
     view |-> <<>>, snapshot |-> <<>>]

Failed(r) == [r EXCEPT !.pc = "failed", !.blocks = <<>>]

\* GetBlock: Absent ids are beyond the head.
Stored(node, id) == id \in 1..Len(node.view)

-----------------------------------------------------------------------------
\* A receipt: the block that holds a transaction and `depth` blocks on it.

validate_confirmation_depth(depth) == depth <= MAX_CONFIRMATIONS

ReceiptRequest(n, t, depth) ==
    [IdleRequest EXCEPT !.kind = "receipt", !.node = n, !.tx = t, !.depth = depth,
        !.pc = IF validate_confirmation_depth(depth) THEN "lookup" ELSE "failed"]

\* GetTransaction, when it does not panic.
Lookup(r, node) ==
    IF get_transaction_by_hash(node, r.tx) = "none" THEN [r EXCEPT !.pc = "answered"]
    ELSE [r EXCEPT !.pc = "height", !.at = node.index[r.tx]]

\* GetLastBlockId: too early an inclusion has no receipt yet.
DeepEnough(r, node) ==
    [r EXCEPT !.pc = IF Len(node.view) < r.at + r.depth THEN "answered" ELSE "inclusion"]

local_confirmation_header_receipt(b, expected_previous) == b.prev = expected_previous

local_inclusion_header_receipt(b, t) == t \in ToSet(b.txs)

\* One block of the receipt.
NextConfirmation(r, node) ==
    LET id == r.at + Len(r.blocks)
        b == node.view[id]
        good == Stored(node, id)
                /\ IF r.blocks = <<>> THEN local_inclusion_header_receipt(b, r.tx)
                   ELSE local_confirmation_header_receipt(b, Last(r.blocks).hash)
    IN  IF ~good THEN Failed(r)
        ELSE [r EXCEPT !.blocks = Append(@, b),
                       !.pc = IF Len(r.blocks) = r.depth THEN "answered" ELSE "inclusion"]

-----------------------------------------------------------------------------
\* A page of history.

normalize_local_public_block_history_start(start) == IF start = 0 THEN GENESIS_BLOCK_ID ELSE start

validate_local_public_block_history_request(r) ==
    r.start >= GENESIS_BLOCK_ID /\ r.max \in 1..MAX_HISTORY_BLOCKS

\* A page is asked of a node: the first has no expected tip.
PageRequest(r, n, max) ==
    LET q == [r EXCEPT !.node = n, !.max = max, !.blocks = <<>>,
                       !.start = normalize_local_public_block_history_start(@)]
    IN  IF validate_local_public_block_history_request(q)
        THEN [q EXCEPT !.pc = "tip_id"] ELSE Failed(q)

TipId(r, node) == [r EXCEPT !.pc = "tip", !.at = Len(node.view)]

\* Mutant: a page may start from another snapshot.
MutSnapshotChanged(r, tip) == FALSE

SnapshotChanged(r, tip) == r.expected # NoHash /\ r.expected # tip.hash

\* The tip's block; a start beyond it gives an empty last page.
TipBlock(r, node) ==
    IF ~Stored(node, r.at) \/ SnapshotChanged(r, node.view[r.at]) THEN Failed(r)
    ELSE [r EXCEPT !.tip = node.view[r.at].hash,
                   !.snapshot = IF r.expected = NoHash THEN SubSeq(node.view, 1, r.at) ELSE @,
                   !.pc = IF r.start > r.at THEN "answered"
                          ELSE IF r.start > GENESIS_BLOCK_ID THEN "predecessor" ELSE "range"]

Predecessor(r, node) ==
    IF ~Stored(node, r.start - 1) THEN Failed(r)
    ELSE [r EXCEPT !.prev = node.view[r.start - 1].hash, !.pc = "range"]

\* Mutant: the blocks are not compared with the ones before them.
Mutbuild_local_public_block_history_page(r) == [r EXCEPT !.pc = "answered"]

\* Every block must follow the one before it.
build_local_public_block_history_page(r) ==
    LET before(i) == IF i > 1 THEN r.blocks[i - 1].hash ELSE r.prev
        linked == \A i \in 1..Len(r.blocks) : before(i) = NoHash \/ r.blocks[i].prev = before(i)
    IN  IF linked THEN [r EXCEPT !.pc = "answered"] ELSE Failed(r)

end_block_id(r) == IF r.start + r.max - 1 < r.at THEN r.start + r.max - 1 ELSE r.at

\* GetBlockRange reads the store block by block, up to the last that is asked
\* for or the first that is missing.  The follow path writes between two reads.
BlockRange(r, node) ==
    LET id == r.start + Len(r.blocks)
        got == [r EXCEPT !.blocks = Append(@, node.view[id]), !.view = node.view]
    IN  IF ~Stored(node, id) THEN build_local_public_block_history_page(r)
        ELSE IF id = end_block_id(r) THEN build_local_public_block_history_page(got)
        ELSE got

\* next_block_id is absent when the page is empty or reaches the tip's id.
HasNext(r) == r.blocks # <<>> /\ r.start + Len(r.blocks) - 1 < r.at

-----------------------------------------------------------------------------
\* The client.

smaller_local_public_block_history_page(max) == max \div 2

\* The next page, with the tip of the first as the one expected.
Continued(r) ==
    [r EXCEPT !.read = @ \o r.blocks, !.blocks = <<>>, !.expected = r.tip, !.prev = NoHash,
              !.start = @ + Len(r.blocks), !.pc = IF HasNext(r) THEN "page" ELSE "complete"]
==============================================================================
