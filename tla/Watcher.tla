------------------------------- MODULE Watcher -------------------------------
(***************************************************************************)
(* Cross-zone delivery on the sequencer's side: the watcher that reads a   *)
(* peer zone's finalized blocks and records their messages                 *)
(* (lez/sequencer/core/src/cross_zone_watcher.rs), block production that   *)
(* drains the records into blocks, and finality that settles them          *)
(* (lez/sequencer/core/src/lib.rs).                                        *)
(*                                                                         *)
(* The zone's own chain is this node's view of it: what the final state's  *)
(* seen shards hold, and the blocks above it, of which only the deliveries *)
(* matter.  How the node keeps that view is module Sequencer.  Blocks of   *)
(* other sequencers are adopted, and blocks that are not final can be      *)
(* orphaned.                                                               *)
(***************************************************************************)
EXTENDS PeerChain

-----------------------------------------------------------------------------
(***************************************************************************)
(* The part of the sequencer's store that cross-zone delivery uses         *)
(* (lez/storage/src/sequencer/mod.rs), as functions of its value:          *)
(*   floor       the delivery floor of the peer, 0 for none;               *)
(*   tip         the last peer block delivered from;                       *)
(*   pending     message key -> [msg, failed_attempts];                    *)
(*   count       the persisted number of pending records;                  *)
(*   dead        keys of the deliveries given up on, oldest first;         *)
(*   dead_count  how often this node gave up.                              *)
(* Each function is one write batch.                                       *)
(***************************************************************************)

CONSTANTS
    MAX_PENDING,        \* MAX_PENDING_CROSS_ZONE_DISPATCHES
    MAX_DEAD_LETTER,    \* MAX_DEAD_LETTER_CROSS_ZONE_DISPATCHES
    RETIRE_AFTER        \* RETIRE_DISPATCH_AFTER_FAILURES

ASSUME StoreBoundsAssumption ==
    MAX_PENDING \in Nat /\ MAX_DEAD_LETTER \in Nat /\ RETIRE_AFTER \in Nat \ {0}

EmptyStore ==
    [floor |-> 0, tip |-> NoTip, pending |-> [k \in {} |-> NoTip], count |-> 0,
     dead |-> <<>>, dead_count |-> 0]

Monus(a, b) == IF a < b THEN 0 ELSE a - b

\* Whether the new records among the deliveries fit under the cap.
HasRoom(db, deliveries) ==
    LET new == {m \in deliveries : message_key(m) \notin DOMAIN db.pending}
    IN  new = {} \/ db.count + Cardinality(new) <= MAX_PENDING

\* Records the deliveries of one block that are not recorded yet (HasRoom).
add_pending(db, deliveries) ==
    LET new == {m \in deliveries : message_key(m) \notin DOMAIN db.pending}
    IN  [db EXCEPT !.pending = @ @@ [k \in {message_key(m) : m \in new} |->
                                        [msg |-> CHOOSE m \in new : message_key(m) = k,
                                         failed_attempts |-> 0]],
                   !.count = @ + Cardinality(new)]

\* Mutant: a retirement leaves no dead letter.
MutRetireSilently(db, key) ==
    IF key \notin DOMAIN db.pending THEN db
    ELSE LET failed == db.pending[key].failed_attempts + 1
         IN  IF failed < RETIRE_AFTER
             THEN [db EXCEPT !.pending[key].failed_attempts = failed]
             ELSE [db EXCEPT !.pending = Restrict(@, DOMAIN @ \ {key}), !.count = Monus(@, 1)]

\* Counts a failed attempt; at the limit the record becomes a dead letter, one
\* entry per delivery and the oldest evicted at the cap.
record_dispatch_failure(db, key) ==
    IF key \notin DOMAIN db.pending THEN db
    ELSE LET failed == db.pending[key].failed_attempts + 1
             dead   == IF Contains(db.dead, key) THEN db.dead ELSE Append(db.dead, key)
         IN  IF failed < RETIRE_AFTER
             THEN [db EXCEPT !.pending[key].failed_attempts = failed]
             ELSE [db EXCEPT !.pending    = Restrict(@, DOMAIN @ \ {key}),
                             !.count      = Monus(@, 1),
                             !.dead       = SubSeq(dead, Monus(Len(dead), MAX_DEAD_LETTER) + 1,
                                                   Len(dead)),
                             !.dead_count = @ + 1]

\* stage_removed_dispatches: drops the records of settled deliveries and takes
\* their dead letters with them.
drop_settled(db, keys) ==
    [db EXCEPT !.pending = Restrict(@, DOMAIN @ \ keys),
               !.count   = Monus(@, Cardinality(keys \cap DOMAIN db.pending)),
               !.dead    = SelectSeq(@, LAMBDA k : k \notin keys)]

-----------------------------------------------------------------------------

CONSTANTS
    SlotContents,       \* message sequences that one slot of the peer can finalize
    ParentsFirst,       \* whether a peer block is always inscribed after its parent
    Failing,            \* deliveries that never execute
    Flaky,              \* deliveries whose execution can fail for the moment
    Size(_),            \* size of a delivery's transaction
    Before(_, _),       \* byte order of two message keys
    MaxBlockSize,       \* room for deliveries in an empty block
    Rooms,              \* room left by the transactions that go before them
    MaxTxInBlock,       \* max_num_tx_in_block
    MAX_DISPATCHES,     \* MAX_DISPATCHES_PER_BLOCK
    MaxSlots,           \* bound: slots of the peer with content
    MaxBlocks,          \* bound: blocks of the zone that are not final
    MaxOrphans,         \* bound: reorgs
    MaxFaults,          \* bound: crashes, failed writes or reads, forged blocks
    SettleFails         \* whether settling a reconstructed block's records may fail

VARIABLES
    peer,       \* finalized entries [slot, item] of the peer's channel
    now,        \* last slot of the peer with content
    db,         \* the store
    cursor,     \* the watcher's read position
    tip,        \* the watcher's tip
    todo,       \* what is left of the current pass
    slot,       \* in_progress, 0 for none
    pc,         \* "down", "stopped" (the watcher alone), "poll", "next" or
                \* "tip" (recorded, tip not yet stored)
    settled,    \* the deliveries that the final state's seen shards hold
    zone,       \* the zone's blocks that are not final: sequences of deliveries
    orphans,
    faults

memory == <<cursor, tip, todo, slot, pc>>
chain == <<settled, zone, orphans>>
watcherVars == <<peer, now, db, memory, chain, faults>>

BlockItem(b) == [kind |-> "block", block |-> b]

Undecodable == [kind |-> "garbage"]

OtherItem == [kind |-> "other"]

Fault == faults < MaxFaults /\ faults' = faults + 1

WatcherInit ==
    /\ peer = <<>> /\ now = 0
    /\ db = EmptyStore
    /\ cursor = 0 /\ tip = NoTip /\ todo = <<>> /\ slot = 0 /\ pc = "down"
    /\ settled = {} /\ zone = <<>> /\ orphans = 0
    /\ faults = 0

-----------------------------------------------------------------------------
\* The peer.

PeerBlocksIn(entries) ==
    LET only == SelectSeq(entries, LAMBDA e : e.item.kind = "block")
    IN  [k \in 1..Len(only) |-> only[k].item.block]

\* What precedes the first inscription that does not decode, where every reader
\* of the channel stops.
Readable ==
    LET bad == {k \in 1..Len(peer) : peer[k].item = Undecodable}
    IN  IF bad = {} THEN peer ELSE SubSeq(peer, 1, Min(bad) - 1)

\* The peer's chain, as its channel settles it.
PeerRun == RunOf(PeerBlocksIn(Readable))

InOrder(blocks) ==
    \A k \in 1..Len(blocks) :
        (\E b \in PeerBlock : b.hash = blocks[k].prev) =>
            \E j \in 1..(k - 1) : blocks[j].hash = blocks[k].prev

FinalizePeerSlot(items) ==
    /\ now < MaxSlots
    /\ now' = now + 1
    /\ peer' = peer \o [k \in 1..Len(items) |-> [slot |-> now + 1, item |-> items[k]]]
    /\ ParentsFirst => InOrder(PeerBlocksIn(peer'))
    /\ UNCHANGED <<db, memory, chain, faults>>

-----------------------------------------------------------------------------
\* The watcher.

\* resume_from: a floor without a tip is dropped, durably, before reading.
Start ==
    /\ pc = "down"
    /\ tip' = db.tip
    /\ cursor' = IF db.tip = NoTip THEN 0 ELSE db.floor
    /\ db' = IF db.tip = NoTip THEN [db EXCEPT !.floor = 0] ELSE db
    /\ todo' = <<>> /\ slot' = 0 /\ pc' = "poll"
    /\ UNCHANGED <<peer, now, chain, faults>>

\* The floor or the tip cannot be read, or a floor without tip not dropped: this
\* watcher stops, the sequencer goes on.
StartFails ==
    /\ pc = "down" /\ pc' = "stopped"
    /\ Fault
    /\ UNCHANGED <<peer, now, db, cursor, tip, todo, slot, chain>>

Poll ==
    /\ pc = "poll"
    /\ todo' = SelectSeq(peer, LAMBDA e : e.slot > cursor)
    /\ slot' = 0 /\ pc' = "next"
    /\ UNCHANGED <<peer, now, db, cursor, tip, chain, faults>>

\* advance_cursor: a floor that cannot be persisted is only logged.
AdvanceCursor(done) ==
    /\ cursor' = done
    /\ \/ db' = [db EXCEPT !.floor = done] /\ UNCHANGED faults
       \/ UNCHANGED db /\ Fault

\* A message from a later slot: the one before it is complete.
EnterSlot ==
    /\ pc = "next" /\ todo # <<>> /\ Head(todo).slot # slot
    /\ IF slot = 0 THEN UNCHANGED <<db, cursor, faults>> ELSE AdvanceCursor(slot)
    /\ slot' = Head(todo).slot
    /\ UNCHANGED <<peer, now, tip, todo, pc, chain>>

\* The item at the head of the stream is being handled.
Handling(kind) ==
    /\ pc = "next" /\ todo # <<>> /\ Head(todo).slot = slot
    /\ Head(todo).item.kind = kind
    /\ UNCHANGED <<peer, now, cursor, slot, chain>>

\* Mutant: blocks are not screened.
MutDeliverable(b) == link_to_tip(tip, b) = "Next"

\* The block at the head of the stream, if it is to be delivered from.
Deliverable(b) == screen_peer_block(b) /\ link_to_tip(tip, b) = "Next"

\* Deposits, withdrawals, refused blocks, blocks at or below the tip and blocks
\* off the chain are read past.
ReadPast ==
    /\ \/ Handling("other")
       \/ Handling("block") /\ ~Deliverable(Head(todo).item.block)
    /\ todo' = Tail(todo)
    /\ UNCHANGED <<db, tip, pc, faults>>

\* The pass ends inside the slot, which will be read again.
EndPass == pc' = "poll" /\ todo' = <<>>

\* A block that does not decode is never read past.
StopAtUndecodable ==
    /\ Handling("garbage")
    /\ EndPass
    /\ UNCHANGED <<db, tip, faults>>

\* record_block_deliveries: all of the block's deliveries, or none and the
\* floor holds.
RecordDeliveries ==
    /\ Handling("block") /\ Deliverable(Head(todo).item.block)
    /\ LET deliveries == DeliveriesOf(Head(todo).item.block)
       IN  IF HasRoom(db, deliveries)
           THEN db' = add_pending(db, deliveries) /\ pc' = "tip" /\ UNCHANGED todo
           ELSE EndPass /\ UNCHANGED db
    /\ UNCHANGED <<tip, faults>>

RecordFails ==
    /\ Handling("block") /\ Deliverable(Head(todo).item.block)
    /\ DeliveriesOf(Head(todo).item.block) # {}
    /\ EndPass /\ Fault
    /\ UNCHANGED <<db, tip>>

\* The tip is stored after the deliveries, and in memory after the store.
StoreTip ==
    /\ pc = "tip"
    /\ \/ /\ tip' = PeerTip(Head(todo).item.block)
          /\ db' = [db EXCEPT !.tip = tip']
          /\ todo' = Tail(todo) /\ pc' = "next"
          /\ UNCHANGED faults
       \/ EndPass /\ Fault /\ UNCHANGED <<db, tip>>
    /\ UNCHANGED <<peer, now, cursor, slot, chain>>

\* The stream drained, so the slot in progress is complete.
Drain ==
    /\ pc = "next" /\ todo = <<>>
    /\ IF slot = 0 THEN UNCHANGED <<db, cursor, faults>> ELSE AdvanceCursor(slot)
    /\ pc' = "poll"
    /\ UNCHANGED <<peer, now, tip, todo, slot, chain>>

\* The process stops at any step; what is not in the store is gone.
Crash ==
    /\ pc # "down" /\ pc' = "down"
    /\ cursor' = 0 /\ tip' = NoTip /\ todo' = <<>> /\ slot' = 0
    /\ Fault
    /\ UNCHANGED <<peer, now, db, chain>>

\* A stopped watcher shows up as unhealthy and the process is restarted.
Restart ==
    /\ pc = "stopped" /\ pc' = "down"
    /\ UNCHANGED <<peer, now, db, cursor, tip, todo, slot, chain, faults>>

-----------------------------------------------------------------------------
\* Block production.

\* The seen shards of the head state: those of the final state and what the
\* blocks above it delivered.
HeadSeen == settled \cup UNION {ToSet(zone[k]) : k \in 1..Len(zone)}

\* SeenShard::binds: one block id, one delivering block.
binds(seen, m) == \A d \in seen : d.block_id = m.block_id => d.block_hash = m.block_hash

\* dispatch_already_delivered: bound to this block and holding this index.
dispatch_already_delivered(seen, m) ==
    binds(seen, m) /\ \E d \in seen : message_key(d) = message_key(m)

\* What the inbox and the target program make of a dispatch: it executes
\* unless the shard is bound to another block or the target refuses.
DispatchExecutes(seen, m, failing) == binds(seen, m) /\ m \notin failing

\* The first n elements of a sequence, or all of them.
Take(s, n) == SubSeq(s, 1, Min({Len(s), n}))

\* Mutant: what is only in the head is offered again.
MutClassify(store, finalSeen, headSeen) ==
    LET Final(k) == dispatch_already_delivered(finalSeen, store.pending[k].msg)
        open == SelectSeq(SetToSortSeq(DOMAIN store.pending, Before), LAMBDA k : ~Final(k))
    IN  [dropped |-> {k \in DOMAIN store.pending : Final(k)},
         offered |-> Take(open, MAX_DISPATCHES)]

\* Each record is settled, on the head but not final, or offered to this block.
classify(store, finalSeen, headSeen) ==
    LET Final(k) == dispatch_already_delivered(finalSeen, store.pending[k].msg)
        OnHead(k) == dispatch_already_delivered(headSeen, store.pending[k].msg)
        open == SelectSeq(SetToSortSeq(DOMAIN store.pending, Before),
                          LAMBDA k : ~Final(k) /\ ~OnHead(k))
    IN  [dropped |-> {k \in DOMAIN store.pending : Final(k)},
         offered |-> Take(open, MAX_DISPATCHES)]

\* Mutant: a delivery that fits in no block is deferred like any other.
MutTakeOne(acc, m, failing) ==
    IF acc.stop THEN acc
    ELSE IF acc.used + Size(m) > acc.room THEN [acc EXCEPT !.stop = TRUE]
    ELSE IF DispatchExecutes(acc.seen, m, failing)
    THEN [acc EXCEPT !.msgs = Append(@, m), !.seen = @ \cup {m}, !.used = @ + Size(m),
                     !.stop = Len(acc.msgs) + 1 >= MaxTxInBlock]
    ELSE [acc EXCEPT !.failed = Append(@, m)]

\* One turn of the loop that fills a block: a delivery that fits in no block is
\* given up on, one that does not fit in this block ends it, one that fails to
\* execute is left out and counted.
take_one(acc, m, failing) ==
    IF acc.stop THEN acc
    ELSE IF acc.used + Size(m) > acc.room
    THEN IF Size(m) > MaxBlockSize
         THEN [acc EXCEPT !.failed = Append(@, m)]
         ELSE [acc EXCEPT !.stop = TRUE]
    ELSE IF DispatchExecutes(acc.seen, m, failing)
    THEN [acc EXCEPT !.msgs = Append(@, m), !.seen = @ \cup {m}, !.used = @ + Size(m),
                     !.stop = Len(acc.msgs) + 1 >= MaxTxInBlock]
    ELSE [acc EXCEPT !.failed = Append(@, m)]

\* build_block_from_mempool, as far as deliveries go: the block's deliveries and
\* the store after the turn.  Settled records are dropped in one write and each
\* failure is counted in one of its own; `lost` are the failures whose write fails.
build_block(store, finalSeen, headSeen, room, failing, dropped, lost) ==
    LET c   == classify(store, finalSeen, headSeen)
        acc == FoldLeft(LAMBDA a, k : take_one(a, store.pending[k].msg, failing),
                        [msgs |-> <<>>, seen |-> headSeen, used |-> 0, room |-> room,
                         failed |-> <<>>, stop |-> FALSE],
                        c.offered)
        kept == IF c.dropped = {} \/ ~dropped THEN store ELSE drop_settled(store, c.dropped)
        counted == SelectSeq(acc.failed, LAMBDA m : message_key(m) \notin lost)
    IN  [msgs  |-> acc.msgs,
         store |-> FoldLeft(LAMBDA d, m : record_dispatch_failure(d, message_key(m)),
                            kept, counted)]

\* A turn: `failing` do not execute this time; publication can fail after the
\* store was written, and the store can refuse each write of the bookkeeping.
Produce(room, failing, published, dropped, lost) ==
    LET b == build_block(db, settled, HeadSeen, room, Failing \cup failing, dropped, lost)
    IN  /\ pc # "down" /\ Len(zone) < MaxBlocks
        /\ IF published /\ dropped /\ lost = {} /\ failing = {} THEN UNCHANGED faults ELSE Fault
        /\ db' = b.store
        /\ zone' = IF published THEN Append(zone, b.msgs) ELSE zone
        /\ UNCHANGED <<peer, now, memory, settled, orphans>>

\* Another sequencer's block is adopted: it carries what that sequencer's
\* watcher recorded and this chain has not delivered.
Adopt(m) ==
    /\ pc # "down" /\ Len(zone) < MaxBlocks
    /\ m \in UNION {DeliveriesOf(PeerRun[k]) : k \in 1..Len(PeerRun)}
    /\ DispatchExecutes(HeadSeen, m, Failing)
    /\ ~dispatch_already_delivered(HeadSeen, m)
    /\ zone' = Append(zone, <<m>>)
    /\ UNCHANGED <<peer, now, db, memory, settled, orphans, faults>>

\* The blocks above the n-th are orphaned.
Orphan(n) ==
    /\ pc # "down" /\ orphans < MaxOrphans
    /\ zone' = SubSeq(zone, 1, n)
    /\ orphans' = orphans + 1
    /\ UNCHANGED <<peer, now, db, memory, settled, faults>>

\* The next block becomes irreversible; its deliveries' records go with the
\* write that makes it so.
FinalizeBlock ==
    /\ pc # "down" /\ zone # <<>>
    /\ settled' = settled \cup ToSet(Head(zone))
    /\ zone' = Tail(zone)
    /\ db' = drop_settled(db, {message_key(m) : m \in ToSet(Head(zone))})
    /\ UNCHANGED <<peer, now, memory, orphans, faults>>

\* settle_reconstructed_deliveries: on a reconstructed block the write may fail.
FinalizeUnwritten ==
    /\ SettleFails
    /\ pc # "down" /\ zone # <<>> /\ Head(zone) # <<>>
    /\ settled' = settled \cup ToSet(Head(zone))
    /\ zone' = Tail(zone)
    /\ Fault
    /\ UNCHANGED <<peer, now, db, memory, orphans>>

-----------------------------------------------------------------------------

AllDeliveries == UNION {DeliveriesOf(b) : b \in PeerBlock}

WatcherStep ==
    \/ Start \/ Poll \/ EnterSlot \/ ReadPast \/ StopAtUndecodable
    \/ RecordDeliveries \/ StoreTip \/ Drain

ChainStep ==
    \/ \E room \in Rooms, failing \in SUBSET Flaky, published, dropped \in BOOLEAN,
          lost \in SUBSET DOMAIN db.pending : Produce(room, failing, published, dropped, lost)
    \/ \E m \in AllDeliveries : Adopt(m)
    \/ \E n \in 0..(Len(zone) - 1) : Orphan(n)
    \/ FinalizeBlock
    \/ FinalizeUnwritten

WatcherNext ==
    \/ \E items \in SlotContents : FinalizePeerSlot(items)
    \/ WatcherStep \/ StartFails \/ RecordFails \/ Crash \/ Restart
    \/ ChainStep

WatcherSpec == WatcherInit /\ [][WatcherNext]_watcherVars

\* The watcher polls for ever and is restarted, the sequencer keeps taking its
\* turns with room for deliveries, and its blocks become final.  The last two
\* conjuncts are weak fairness with the enabling condition spelled out.
FairWatcherSpec ==
    /\ WatcherSpec
    /\ WF_watcherVars(Restart)
    /\ WF_watcherVars(FinalizeBlock)
    /\ []<>(pc = "stopped") \/ []<><<WatcherStep>>_watcherVars
    /\ \/ []<>(pc = "down" \/ Len(zone) >= MaxBlocks)
       \/ []<><<Produce(MaxBlockSize, {}, TRUE, TRUE, {})>>_watcherVars

-----------------------------------------------------------------------------

\* The type of the state.
WatcherTypeOK ==
    /\ now \in 0..MaxSlots /\ Len(zone) <= MaxBlocks
    /\ pc \in {"down", "stopped", "poll", "next", "tip"}
    /\ tip \in PeerTips \cup {NoTip} /\ cursor \in 0..now /\ slot \in 0..now
    /\ settled \subseteq AllDeliveries /\ HeadSeen \subseteq AllDeliveries
    /\ db.floor \in 0..now /\ db.tip \in PeerTips \cup {NoTip}
    /\ \A k \in DOMAIN db.pending : /\ db.pending[k].msg \in AllDeliveries
                                    /\ message_key(db.pending[k].msg) = k
                                    /\ db.pending[k].failed_attempts \in 0..(RETIRE_AFTER - 1)
    /\ Len(db.dead) <= MAX_DEAD_LETTER

\* The tip that is stored is a block of the peer's chain, whatever was re-read
\* after a crash or a refused write.
TipIsOnThePeersChain ==
    db.tip = NoTip \/ \E k \in 1..Len(PeerRun) : PeerTip(PeerRun[k]) = db.tip

\* "the highest slot every message of which was decoded and recorded": the floor
\* never passes a block of the peer's chain that the tip has not reached.
FloorBehindTip ==
    LET below == RunOf(PeerBlocksIn(SelectSeq(peer, LAMBDA e : e.slot <= db.floor)))
    IN  below = <<>> \/ (db.tip # NoTip /\ below[Len(below)].id <= db.tip.block_id)

\* The watcher follows the peer's chain, through crashes, failed writes and re-reads.
FollowsThePeer == TipIsOnThePeersChain /\ FloorBehindTip

\* Every message of every peer block at or below the stored tip is on record,
\* delivered for good, or in the dead letter: no crash, refused write, reorg,
\* failed publication or foreign block loses one.
NothingIsLost ==
    \A k \in 1..Len(PeerRun) :
        db.tip # NoTip /\ PeerRun[k].id <= db.tip.block_id =>
            \A m \in DeliveriesOf(PeerRun[k]) :
                \/ message_key(m) \in DOMAIN db.pending
                \/ m \in settled
                \/ Contains(db.dead, message_key(m))

\* No block of the chain carries a delivery that the chain below it has made.
DeliveredOnce ==
    /\ \A j, k \in 1..Len(zone) : \A i \in 1..Len(zone[j]), l \in 1..Len(zone[k]) :
          message_key(zone[j][i]) = message_key(zone[k][l]) => j = k /\ i = l
    /\ \A k \in 1..Len(zone) : \A m \in ToSet(zone[k]) :
          \A d \in settled : message_key(d) # message_key(m)

\* Every message of the peer's chain is delivered for good or given up on.
AllDecided ==
    \A k \in 1..Len(PeerRun) : \A m \in DeliveriesOf(PeerRun[k]) :
        m \in settled \/ Contains(db.dead, message_key(m))

\* Messages wait when the records are full, a block has no room or a turn fails,
\* but once the peer pauses each of them is decided.
EveryMessageIsDecided == []<>AllDecided
==============================================================================
