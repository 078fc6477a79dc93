------------------------------- MODULE Indexer -------------------------------
(***************************************************************************)
(* The indexer's ingest loop (lez/indexer/core/src/lib.rs): it reads the   *)
(* finalized messages of the channel slot by slot, applies the blocks to   *)
(* its store, and moves a durable cursor on slot boundaries.               *)
(*                                                                         *)
(* A step ends where the code awaits or where a durable write ends, so a   *)
(* crash can fall between any two writes.  Failures of the L1 node, of the *)
(* store, of a cross-zone peer or of an execution, and crashes, share the  *)
(* budget max_faults of the world.                                         *)
(***************************************************************************)
EXTENDS IndexerStore

CONSTANTS
    World,              \* a set of [slots, resets, allow_chain_reset, max_slots, max_faults]
    Dispatching,        \* blocks carrying a cross-zone dispatch
    Forged,             \* those of them whose dispatch the peer never emitted
    APPLY_RETRY_LIMIT,  \* failed attempts before a block is parked
    ParentsFirst        \* whether a block is always inscribed after its parent

\* A world is the configuration, what the L1 does and the bounds of the model: for each
\* L1, the message sequences one slot can finalize; how often the L1 is wiped, the option
\* to wipe the store of another chain, slots with content, failures and crashes.

ASSUME WorldAssumption ==
    \A w \in World :
        /\ w.resets \in Nat /\ w.max_slots \in Nat /\ w.max_faults \in Nat
        /\ w.allow_chain_reset \in BOOLEAN
        /\ \A k \in 1..(w.resets + 1) : \A messages \in w.slots[k] : messages \in Seq(Messages)

ASSUME ForgedAssumption == Forged \subseteq Dispatching

ASSUME LimitAssumption == APPLY_RETRY_LIMIT \in Nat \ {0}

VARIABLES
    world,      \* one of World
    channel,    \* finalized entries [slot, msg], in slot order
    now,        \* last wall-clock slot that had content
    resets,
    db,         \* the store
    state,      \* current_state
    cursor,     \* in-memory read cursor
    gate,       \* ApplyRetryGate: [id, attempts], id 0 for none
    todo,       \* what is left of the current pass's stream
    slot,       \* SlotProgress, 0 for none
    status,
    verdict,    \* of the last start-up check, until the first poll
    pc,
    faults

l1 == <<world, channel, now, resets>>
memory == <<state, cursor, gate, todo, slot, status, verdict, pc>>
vars == <<l1, db, memory, faults>>

Statuses == {"Starting", "Syncing", "CaughtUp", "Error", "Stalled"}

NoGate == [id |-> 0, attempts |-> 0]

Up == pc \in {"poll", "next", "clear"}

Init ==
    /\ world \in World
    /\ channel = <<>> /\ now = 0 /\ resets = 0
    /\ db = FreshStore
    /\ state = <<>> /\ cursor = 0 /\ gate = NoGate /\ todo = <<>> /\ slot = 0
    /\ status = "Starting" /\ verdict = "None" /\ pc = "down"
    /\ faults = 0

Fault == faults < world.max_faults /\ faults' = faults + 1

-----------------------------------------------------------------------------
\* The L1.

\* A slot with messages becomes final.
FinalizeSlot(messages) ==
    /\ now < world.max_slots
    /\ now' = now + 1
    /\ channel' = channel \o [k \in 1..Len(messages) |-> [slot |-> now + 1, msg |-> messages[k]]]
    /\ ParentsFirst => InOrder(channel')
    /\ UNCHANGED <<world, resets, db, memory, faults>>

\* The L1 restarts from nothing while the indexer is down; wall-clock slots go on.
Reset ==
    /\ resets < world.resets /\ channel # <<>> /\ ~Up
    /\ resets' = resets + 1
    /\ channel' = <<>>
    /\ UNCHANGED <<world, now, db, memory, faults>>

-----------------------------------------------------------------------------
\* Start-up.

\* IndexerCore::open: the state is rebuilt from the store.
Start ==
    /\ pc \in {"down", "refused", "halted"}
    /\ state' = final_state(db)
    /\ cursor' = db.cursor
    /\ gate' = NoGate /\ todo' = <<>> /\ slot' = 0 /\ status' = "Starting" /\ verdict' = "None"
    /\ pc' = "check"
    /\ UNCHANGED <<l1, db, faults>>

\* What IndexerCore::new does with the verdict.
Judge(v) ==
    /\ verdict' = v
    /\ IF v # "Inconsistent"
       THEN pc' = "poll" /\ UNCHANGED <<db, state, cursor>>
       ELSE IF world.allow_chain_reset
       THEN db' = FreshStore /\ state' = <<>> /\ cursor' = 0 /\ pc' = "poll"
       ELSE pc' = "refused" /\ UNCHANGED <<db, state, cursor>>
    /\ UNCHANGED <<l1, gate, todo, slot, status>>

Check ==
    LET anchor == get_startup_anchor(db)
    IN  /\ pc = "check"
        /\ Judge(IF anchor = NoAnchor THEN "Inconclusive"
                 ELSE verify_chain_consistency(anchor, channel))
        /\ UNCHANGED faults

\* The channel could not be read in time.
CheckFails == pc = "check" /\ Judge("Inconclusive") /\ Fault

-----------------------------------------------------------------------------
\* The ingest loop.

\* next_messages(cursor): the finalized messages of every later slot.
Poll ==
    /\ pc = "poll"
    /\ todo' = SubSeq(channel, ReadUpTo(channel, cursor) + 1, Len(channel))
    /\ slot' = 0 /\ verdict' = "None" /\ pc' = "next"
    /\ UNCHANGED <<l1, db, state, cursor, gate, status, faults>>

PollFails ==
    /\ pc = "poll"
    /\ status' = "Error" /\ verdict' = "None"
    /\ Fault
    /\ UNCHANGED <<l1, db, state, cursor, gate, todo, slot, pc>>

\* advance_cursor: the in-memory cursor moves even if it could not be persisted.
AdvanceCursor(done) ==
    /\ cursor' = done
    /\ \/ db' = [db EXCEPT !.cursor = done] /\ UNCHANGED faults
       \/ UNCHANGED db /\ Fault

\* Mutant: the cursor moves onto the slot that is being entered.
MutEnterSlot ==
    /\ pc = "next" /\ todo # <<>> /\ Head(todo).slot # slot
    /\ AdvanceCursor(Head(todo).slot)
    /\ slot' = Head(todo).slot
    /\ status' = IF slot = 0 THEN "Syncing" ELSE status
    /\ UNCHANGED <<l1, state, gate, todo, verdict, pc>>

\* SlotProgress::enter on the first message of a slot: the slot before it is
\* complete.  The first message of a pass announces syncing.
EnterSlot ==
    /\ pc = "next" /\ todo # <<>> /\ Head(todo).slot # slot
    /\ IF slot = 0 THEN UNCHANGED <<db, cursor, faults>> ELSE AdvanceCursor(slot)
    /\ slot' = Head(todo).slot
    /\ status' = IF slot = 0 THEN "Syncing" ELSE status
    /\ UNCHANGED <<l1, state, gate, todo, verdict, pc>>

\* The message at the head of the stream is being handled.
Handling(kind) ==
    /\ pc = "next" /\ todo # <<>> /\ Head(todo).slot = slot
    /\ Head(todo).msg.kind = kind
    /\ UNCHANGED <<l1, state, cursor, slot, verdict>>

\* On to the next message.
Continue == todo' = Tail(todo) /\ UNCHANGED pc

\* had_cycle_error: the pass ends and the slot will be read again.
Break == pc' = "poll" /\ todo' = <<>> /\ status' = "Error"

SkipOther == Handling("other") /\ Continue /\ UNCHANGED <<db, gate, status, faults>>

\* park_undeserializable: the stall must be durable before the loop goes on.
ParkGarbage ==
    /\ Handling("garbage")
    /\ db' = record_stall(db, NoHeader, slot)
    /\ status' = "Stalled"
    /\ Continue
    /\ UNCHANGED <<gate, faults>>

\* A write or a read of the store failed (the block's, or a stall's).
StoreFails ==
    /\ \/ Handling("garbage")
       \/ Handling("block") /\ Head(todo).msg.block \notin Forged
    /\ Break /\ Fault
    /\ UNCHANGED <<db, gate>>

\* The verifier found a dispatch the peer never emitted: ingestion ends.
HaltOnForged ==
    /\ Handling("block") /\ Head(todo).msg.block \in Forged
    /\ status' = "Error" /\ pc' = "halted" /\ todo' = <<>>
    /\ UNCHANGED <<db, gate, faults>>

\* The peer block behind a dispatch did not arrive in time.
PeerUnavailable ==
    /\ Handling("block") /\ Head(todo).msg.block \in Dispatching
    /\ Break /\ Fault
    /\ UNCHANGED <<db, gate>>

\* Mutant: every failure starts a fresh streak.
MutRegisterFailure(g, id) == [id |-> id, attempts |-> 1]

register_failure(g, id) ==
    [id |-> id, attempts |-> IF g.id = id THEN g.attempts + 1 ELSE 1]

\* A block that passed the verifier goes to accept_block.
AcceptBlock(flaky) ==
    LET b == Head(todo).msg.block
        r == accept_block(db, state, b, slot, flaky)
        g == register_failure(gate, b.id)
    IN  /\ Handling("block") /\ b \notin Forged
        /\ IF flaky THEN r.outcome = "RetryableFailure" /\ Fault ELSE UNCHANGED faults
        /\ CASE r.outcome = "Applied" ->
                  /\ db' = r.db /\ pc' = "clear"
                  /\ UNCHANGED <<gate, todo, status>>
             [] r.outcome = "AlreadyApplied" ->
                  Continue /\ UNCHANGED <<db, gate, status>>
             [] r.outcome = "Parked" ->
                  db' = r.db /\ status' = "Stalled" /\ Continue /\ UNCHANGED gate
             [] r.outcome = "RetryableFailure" ->
                  IF g.attempts >= APPLY_RETRY_LIMIT
                  THEN /\ db' = record_stall(db, TipOf(b), slot)
                       /\ status' = "Stalled" /\ gate' = NoGate /\ Continue
                  ELSE gate' = g /\ Break /\ UNCHANGED db

\* The attempts ran out and the stall could not be written: the streak is kept.
StallFails ==
    LET b == Head(todo).msg.block
        g == register_failure(gate, b.id)
    IN  /\ Handling("block") /\ b \notin Forged
        /\ accept_block(db, state, b, slot, FALSE).outcome = "RetryableFailure"
        /\ g.attempts >= APPLY_RETRY_LIMIT
        /\ gate' = g /\ Break /\ Fault
        /\ UNCHANGED db

\* The rest of an applied block: the in-memory state, the best-effort clearing
\* of the stall, the retry gate.
Applied ==
    /\ pc = "clear"
    /\ state' = Append(state, Head(todo).msg.block)
    /\ \/ db' = clear_stall_if_present(db) /\ UNCHANGED faults
       \/ db.stall # NoStall /\ UNCHANGED db /\ Fault
    /\ gate' = NoGate /\ status' = "Syncing" /\ todo' = Tail(todo) /\ pc' = "next"
    /\ UNCHANGED <<l1, cursor, slot, verdict>>

\* The stream is empty: its last slot is complete, and without a stall the
\* indexer is caught up.
Drain ==
    /\ pc = "next" /\ todo = <<>>
    /\ IF slot = 0 THEN UNCHANGED <<db, cursor, faults>> ELSE AdvanceCursor(slot)
    /\ status' = IF db.stall = NoStall THEN "CaughtUp" ELSE status
    /\ pc' = "poll"
    /\ UNCHANGED <<l1, state, gate, todo, slot, verdict>>

Crash ==
    /\ pc # "down"
    /\ pc' = "down"
    /\ state' = <<>> /\ cursor' = 0 /\ gate' = NoGate /\ todo' = <<>> /\ slot' = 0
    /\ status' = "Starting" /\ verdict' = "None"
    /\ Fault
    /\ UNCHANGED <<l1, db>>

\* What the indexer does when nothing fails.
Ingest ==
    \/ Start \/ Check \/ Poll \/ EnterSlot \/ SkipOther \/ ParkGarbage
    \/ HaltOnForged \/ AcceptBlock(FALSE) \/ Applied \/ Drain

Fail ==
    \/ CheckFails \/ PollFails \/ StoreFails \/ StallFails \/ PeerUnavailable
    \/ AcceptBlock(TRUE) \/ Crash

Next ==
    \/ \E messages \in world.slots[resets + 1] : FinalizeSlot(messages)
    \/ Reset
    \/ Ingest
    \/ Fail

Spec == Init /\ [][Next]_vars

\* The loop runs for ever, sleeping between passes, and the process is restarted.
FairSpec == Spec /\ WF_vars(Ingest)

-----------------------------------------------------------------------------

UpToSlot(s) == BlocksIn(SubSeq(channel, 1, ReadUpTo(channel, s)))

TypeOK ==
    /\ db.blocks \in Seq(Block) /\ state \in Seq(Block)
    /\ db.stall \in Stalls \cup {NoStall}
    /\ db.cursor \in 0..now /\ cursor \in 0..now /\ slot \in 0..now
    /\ gate.attempts \in 0..(APPLY_RETRY_LIMIT - 1 + world.max_faults)
    /\ status \in Statuses
    /\ verdict \in Verdicts \cup {"None"}

\* Neither cursor is ever past a message that could still be lost: everything the
\* channel settles up to it is stored.  A crash at any step, a failed write or a
\* retried execution therefore skips no block (SlotProgress, advance_cursor), as long
\* as there were fewer failures than it takes to park a good block.  "Caught up" is
\* said only of an indexer that holds all of it and is not parked.
CursorSkipsNothing ==
    resets = 0 /\ faults < APPLY_RETRY_LIMIT =>
        /\ Extends(Settled(UpToSlot(db.cursor)), db.blocks)
        /\ Up => Extends(Settled(UpToSlot(cursor)), db.blocks)
        /\ status = "CaughtUp" => db.stall = NoStall /\ db.blocks = Settled(UpToSlot(cursor))

\* The indexed state, and the state at every earlier block, is the replay of the
\* stored blocks, whatever snapshots but the first are missing
\* (calculate_state_for_id walks down to one that exists).
HistoryIsReplay ==
    /\ Up => state = IF pc = "clear" THEN SubSeq(db.blocks, 1, Len(db.blocks) - 1) ELSE db.blocks
    /\ \A lost \in SUBSET (DOMAIN db.breakpoints \ {0}) :
          LET kept == [db EXCEPT !.breakpoints = [k \in DOMAIN @ \ lost |-> @[k]]]
          IN  \A id \in 0..Len(db.blocks) :
                  calculate_state_for_id(kept, id) = SubSeq(db.blocks, 1, id)

\* The transactions of an account, from the stored blocks.
HistoryOf(acc) ==
    LET upto[k \in 0..Len(db.blocks)] ==
            IF k = 0 THEN <<>>
            ELSE upto[k - 1] \o SelectSeq(TxsOf(db.blocks[k]), LAMBDA t : acc \in AffectedBy(t))
    IN  upto[Len(db.blocks)]

\* The lookup columns answer as a scan of the stored blocks would: every page of
\* an account's transactions, every transaction and block by its hash, and every
\* page of blocks, newest first.
LookupsMatchScan ==
    /\ \A acc \in Account : LET all == HistoryOf(acc) IN
          \A offset, limit \in 0..Len(all) :
              get_acc_transactions(db, acc, offset, limit)
                  = SubSeq(all, offset + 1, Min({offset + limit, Len(all)}))
    /\ \A k \in 1..Len(db.blocks) :
          /\ db.hash_to_id[db.blocks[k].hash] = k
          /\ \A t \in Range(TxsOf(db.blocks[k])) : get_transaction_by_hash(db, t)
          /\ \A limit \in 0..Len(db.blocks) : LET page == get_block_batch(db, k + 1, limit) IN
                /\ Len(page) = Min({limit, k})
                /\ \A i \in 1..Len(page) : page[i] = db.blocks[k + 1 - i]

\* A store the start-up check lets through belongs to the connected channel: one of
\* the two chains continues the other.  Inconclusive is only accepted of a check
\* that could not read, found no block, or had nothing to compare.
ConsistentStoreIsOnChannel ==
    verdict = "Consistent" =>
        LET chain == Settled(BlocksIn(channel))
        IN  Extends(db.blocks, chain) \/ Extends(chain, db.blocks)

\* Every finalized slot is eventually read past, unless ingestion was halted by a
\* forged dispatch or refused at start-up, or the L1 was wiped.
EverySlotIsPassed == []<>(cursor = now \/ resets > 0 \/ pc \in {"halted", "refused"})

\* The worlds in which nothing but the channel decides what is stored: the L1 is not
\* wiped, the store is never wiped, and a good block is not parked for good.
Undisturbed ==
    /\ world.resets = 0 /\ ~world.allow_chain_reset
    /\ world.max_faults < APPLY_RETRY_LIMIT

\* The indexer implements a follower of its channel (module Follower).
FollowsChannel ==
    INSTANCE Follower WITH
        log    <- IF Undisturbed THEN BlocksIn(channel) ELSE <<>>,
        ledger <- IF Undisturbed THEN db.blocks ELSE <<>>

ImplementsFollower == FollowsChannel!Spec
==============================================================================
