--------------------------- MODULE SequencerStore ---------------------------
(***************************************************************************)
(* The part of the sequencer's RocksDB store that a restart reads: block   *)
(* payloads, tip meta, head state, final snapshot, zone-sdk checkpoint,    *)
(* published high water mark and channel anchor                            *)
(* (lez/storage/src/sequencer/mod.rs).  Every write of the code is one     *)
(* WriteBatch, so an operation is a function of the store's value; only    *)
(* `create` is not, and leaves a Partial store when it is cut short.       *)
(***************************************************************************)
EXTENDS ChainOps, TLC

CONSTANTS
    NoSnapshot,     \* no final snapshot persisted yet, or none in an update
    NoCheckpoint,   \* no zone-sdk checkpoint
    NoAnchor        \* no channel anchor

\* A store that holds nothing but the genesis block, not yet finalized.
create(genesis) ==
    [blocks     |-> genesis.id :> [block |-> genesis, finalized |-> FALSE],
     last       |-> genesis.id,
     meta       |-> TipOf(genesis),
     state      |-> <<genesis>>,
     snapshot   |-> NoSnapshot,
     checkpoint |-> NoCheckpoint,
     high_water |-> 0,
     anchor     |-> NoAnchor]

\* The mark only rises.
raise_published_high_water(s, id) ==
    IF s.high_water >= id THEN s ELSE [s EXCEPT !.high_water = id]

\* What `StoreUpdate::new` leaves unset.
StoreUpdate(state) ==
    [checkpoint |-> NoCheckpoint, blocks |-> <<>>, head_tip |-> NoTip,
     head_state |-> state, final_snapshot |-> NoSnapshot, finalized_up_to |-> 0,
     zone_anchor |-> NoAnchor]

Holds(s, b) == b.id \in DOMAIN s.blocks /\ s.blocks[b.id].block.hash = b.hash

\* The payloads an update writes: a block the store holds is skipped unless it
\* comes finalized, and of two blocks with one id the later one is written.
Staged(s, blocks) ==
    LET after[i \in 0..Len(blocks)] ==
            IF i = 0 THEN <<>>
            ELSE IF Holds(s, blocks[i].block) /\ ~blocks[i].finalized THEN after[i - 1]
            ELSE (blocks[i].block.id :> blocks[i]) @@ after[i - 1]
    IN  after[Len(blocks)]

\* The stored pending blocks that become finalized.
collect_finalized_up_to(s, id) ==
    [i \in {j \in DOMAIN s.blocks : j <= id /\ ~s.blocks[j].finalized} |->
        [s.blocks[i] EXCEPT !.finalized = TRUE]]

\* Mutant: an update that only shortens the chain does not count.
MutMovedByPayload(s, u) ==
    u.final_snapshot # NoSnapshot \/ DOMAIN Staged(s, u.blocks) # {}

\* An update writes the tip, the head state and the final snapshot only if the
\* chain moved.
Moved(s, u) ==
    \/ u.final_snapshot # NoSnapshot
    \/ u.head_tip # NoTip /\ u.head_tip.block_id # s.last
    \/ DOMAIN Staged(s, u.blocks) # {}

\* Mutant: nothing above the tip is deleted.
MutKeepsStale(s, u, to_write) == {}

\* Blocks an update leaves above the tip it pins, staged by itself or stored.
StaleIds(s, u, to_write) ==
    (u.head_tip.block_id + 1)..Max({s.last} \cup DOMAIN to_write)

\* Everything one event wrote.
store_update(s, u) ==
    LET to_write == Staged(s, u.blocks) @@ collect_finalized_up_to(s, u.finalized_up_to)
        payloads == to_write @@ s.blocks
        written  == [s EXCEPT
            !.blocks     = payloads,
            !.checkpoint = IF u.checkpoint = NoCheckpoint THEN @ ELSE u.checkpoint,
            !.anchor     = IF u.zone_anchor = NoAnchor THEN @ ELSE u.zone_anchor]
    IN  IF ~Moved(s, u) \/ u.head_tip = NoTip THEN written
        ELSE [written EXCEPT
            !.blocks   = [i \in DOMAIN payloads \ StaleIds(s, u, to_write) |-> payloads[i]],
            !.last     = u.head_tip.block_id,
            !.meta     = u.head_tip,
            !.state    = u.head_state,
            !.snapshot = IF u.final_snapshot = NoSnapshot THEN @ ELSE u.final_snapshot]

\* A block this node produced, with the checkpoint that holds it as pending.
atomic_update(s, b, state, checkpoint) ==
    store_update(s, [StoreUpdate(state) EXCEPT
        !.checkpoint = checkpoint,
        !.blocks     = <<[block |-> b, finalized |-> FALSE]>>,
        !.head_tip   = TipOf(b)])

-----------------------------------------------------------------------------

\* open_db expects every block from genesis to the latest one.
Opens(s) == \A i \in GENESIS_BLOCK_ID..s.meta.block_id : i \in DOMAIN s.blocks

\* The stored blocks above the final snapshot, by height.
HeadOnDisk(s) ==
    LET boundary == IF s.snapshot = NoSnapshot THEN 0 ELSE s.snapshot.tip.block_id
        above    == {i \in DOMAIN s.blocks : i > boundary}
        nth[n \in 0..Cardinality(above)] ==
            IF n = 0 THEN <<>>
            ELSE LET id == CHOOSE i \in above : Cardinality({j \in above : j < i}) = n - 1
                 IN  Append(nth[n - 1], s.blocks[id].block)
    IN  nth[Cardinality(above)]

\* The final tier from the snapshot, the head by replaying every block above it.
restore_chain_state(s) ==
    LET base == IF s.snapshot = NoSnapshot THEN new
                ELSE from_final(s.snapshot.state, s.snapshot.tip)
        bs   == HeadOnDisk(s)
        after[i \in 0..Len(bs)] ==
            IF i = 0 THEN [chain |-> base, error |-> Ok]
            ELSE IF after[i - 1].error # Ok THEN after[i - 1]
            ELSE restore_head_block(after[i - 1].chain, bs[i])
    IN  after[Len(bs)]

\* Whether a restart loads the store: none of the panics of open_db and
\* restore_chain_state, the comparison with the persisted state included.
Loads(s) ==
    /\ Opens(s)
    /\ restore_chain_state(s).error = Ok
    /\ restore_chain_state(s).chain.head_state = s.state
=============================================================================
