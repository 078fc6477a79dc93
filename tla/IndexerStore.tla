---------------------------- MODULE IndexerStore -----------------------------
(***************************************************************************)
(* The indexer's store as a value and its operations as functions of it    *)
(* (lez/indexer/core/src/block_store.rs over lez/storage/src/indexer).     *)
(* put_block is one write batch, so a crash sees all of it or none.        *)
(*                                                                         *)
(*   blocks       the block column: applied blocks have consecutive ids,   *)
(*                so it is a sequence and its length is the last block id; *)
(*   tip_slot     L1 slot of the last block;                               *)
(*   stall        the stall marker, or NoStall;                            *)
(*   cursor       persisted read cursor, 0 for None (slots start at 1);    *)
(*   breakpoints  snapshot number -> state;                                *)
(*   hash_to_id, tx_to_id, acc_txs   the lookup columns.                   *)
(***************************************************************************)
EXTENDS Blocks, FiniteSetsExt

-----------------------------------------------------------------------------
(***************************************************************************)
(* The start-up check that the channel still carries the chain a store was *)
(* built from (lez/chain_state/src/consistency.rs).                        *)
(***************************************************************************)

CONSTANTS
    NoHeader    \* Anchor.block = None: anchored on an undecodable inscription

Verdicts == {"Consistent", "Inconclusive", "Inconsistent"}

\* The last slot of a channel, None (0) for one that does not exist.
TipSlot(channel) == IF channel = <<>> THEN 0 ELSE channel[Len(channel)].slot

\* Mutant: a block of the anchor's height is taken for the anchor.
MutProbeHeight(anchor, entry) ==
    CASE entry.slot < anchor.slot -> "KeepLooking"
      [] entry.slot >= anchor.slot /\ anchor.block = NoHeader ->
            IF entry.slot = anchor.slot THEN "SameChain" ELSE "Mismatch"
      [] OTHER ->
            IF entry.msg.kind # "block" THEN "KeepLooking"
            ELSE IF entry.msg.block.id = anchor.block.block_id THEN "SameChain"
            ELSE IF entry.msg.block.id > anchor.block.block_id THEN "Bail"
            ELSE IF entry.slot = anchor.slot THEN "KeepLooking" ELSE "Mismatch"

\* What one message tells about the anchor [slot, block].
probe_anchor_slot(anchor, entry) ==
    CASE entry.slot < anchor.slot -> "KeepLooking"
      [] entry.slot >= anchor.slot /\ anchor.block = NoHeader ->
            IF entry.slot = anchor.slot THEN "SameChain" ELSE "Mismatch"
      [] OTHER ->
            IF entry.msg.kind # "block" THEN "KeepLooking"
            ELSE IF entry.msg.block.id = anchor.block.block_id
            THEN IF entry.msg.block.hash = anchor.block.hash THEN "SameChain" ELSE "Mismatch"
            ELSE IF entry.msg.block.id > anchor.block.block_id THEN "Bail"
            ELSE IF entry.slot = anchor.slot THEN "KeepLooking" ELSE "Mismatch"

\* On the same chain the channel exists and reaches the anchor's slot.
frontier_verdict(anchor, tip_slot) ==
    IF tip_slot = 0 \/ tip_slot < anchor.slot THEN "Inconsistent" ELSE "None"

\* The first message that decides, in slot order.
observe(anchor, channel) ==
    LET telling == {k \in 1..Len(channel) : probe_anchor_slot(anchor, channel[k]) # "KeepLooking"}
        probe   == probe_anchor_slot(anchor, channel[Min(telling)])
    IN  IF telling = {} THEN "Inconclusive"
        ELSE CASE probe = "SameChain" -> "Consistent"
               [] probe = "Mismatch"  -> "Inconsistent"
               [] probe = "Bail"      -> "Inconclusive"

\* The verdict of a check whose reads answer; one whose reads fail or time out
\* is Inconclusive.
verify_chain_consistency(anchor, channel) ==
    LET frontier == frontier_verdict(anchor, TipSlot(channel))
    IN  IF frontier # "None" THEN frontier ELSE observe(anchor, channel)

-----------------------------------------------------------------------------

CONSTANTS
    Account,
    TxsOf(_),               \* transaction hashes of a block, in order
    AffectedBy(_),          \* affected_public_account_ids of a transaction
    BREAKPOINT_INTERVAL,    \* blocks between two snapshots
    CountMax,               \* where the counter of a stall saturates
    NoStall, NoAnchor,
    NoState                 \* DbError: no state for this id

ASSUME IntervalAssumption == BREAKPOINT_INTERVAL \in Nat \ {0}

ASSUME CountAssumption == CountMax \in Nat

Headers == Tips \cup {NoHeader}

Stalls == [header : Headers, l1_slot : Nat \ {0}, orphans_since : 0..CountMax]

\* A new store: open_or_create seeds snapshot 0 with the initial state.
FreshStore ==
    [blocks |-> <<>>, tip_slot |-> 0, stall |-> NoStall, cursor |-> 0,
     breakpoints |-> [k \in {0} |-> <<>>], hash_to_id |-> <<>>, tx_to_id |-> <<>>,
     acc_txs |-> [a \in Account |-> <<>>]]

validated_tip(db) == TipOfChain(db.blocks)

\* Mutant: the account counter is not advanced, so the next block overwrites.
MutAccountCounter(acc_txs, b) ==
    [a \in Account |->
        LET new == SelectSeq(TxsOf(b), LAMBDA t : a \in AffectedBy(t))
        IN  IF new = <<>> THEN acc_txs[a] ELSE new]

\* The transactions of b appended to the list of every account they affect.
put_account_transactions(acc_txs, b) ==
    [a \in Account |->
        acc_txs[a] \o SelectSeq(TxsOf(b), LAMBDA t : a \in AffectedBy(t))]

\* One key of a column written.
Put(column, key, value) ==
    [k \in DOMAIN column \cup {key} |-> IF k = key THEN value ELSE column[k]]

\* Mutant: the snapshot is filed one interval too early.
MutBreakpointEarly(breakpoints, b, post_state) ==
    IF b.id % BREAKPOINT_INTERVAL # 0 THEN breakpoints
    ELSE Put(breakpoints, b.id \div BREAKPOINT_INTERVAL - 1, post_state)

\* At a multiple of the interval the state after the block is kept.
put_breakpoint(breakpoints, b, post_state) ==
    IF b.id % BREAKPOINT_INTERVAL # 0 THEN breakpoints
    ELSE Put(breakpoints, b.id \div BREAKPOINT_INTERVAL, post_state)

put_block(db, b, slot, post_state) ==
    LET txs == Range(TxsOf(b))
    IN  [db EXCEPT
            !.blocks      = Append(@, b),
            !.tip_slot    = slot,
            !.hash_to_id  = Put(@, b.hash, b.id),
            !.tx_to_id    = [t \in DOMAIN @ \cup txs |-> IF t \in txs THEN b.id ELSE @[t]],
            !.acc_txs     = put_account_transactions(@, b),
            !.breakpoints = put_breakpoint(@, b, post_state)]

\* The first stall is kept verbatim; a later one only counts.
record_stall(db, header, slot) ==
    [db EXCEPT !.stall =
        IF @ = NoStall
        THEN [header |-> header, l1_slot |-> slot, orphans_since |-> 0]
        ELSE [@ EXCEPT !.orphans_since = IF @ < CountMax THEN @ + 1 ELSE @]]

clear_stall_if_present(db) == [db EXCEPT !.stall = NoStall]

-----------------------------------------------------------------------------

\* Mutant: the parent hash is not looked at.
MutAcceptBlock(db, state, b, slot, flaky) ==
    LET known == b.id \in 1..Len(db.blocks) /\ db.blocks[b.id].hash = b.hash
        err   == IF b.id # Len(db.blocks) + 1 THEN "UnexpectedBlockId"
                 ELSE apply_block_to_state(b, state)
    IN  CASE known -> [outcome |-> "AlreadyApplied", db |-> db]
          [] ~known /\ err = Ok ->
                [outcome |-> "Applied", db |-> put_block(db, b, slot, Append(state, b))]
          [] ~known /\ err = "StateTransition" ->
                [outcome |-> "RetryableFailure", db |-> db]
          [] OTHER -> [outcome |-> "Parked", db |-> record_stall(db, TipOf(b), slot)]

\* accept_block on the in-memory state: the outcome and the store after it.
\* `flaky` is an execution that failed for a reason of its own.  An applied
\* block's stall is cleared by a later write (clear_stall_if_present).
accept_block(db, state, b, slot, flaky) ==
    LET known  == b.id \in 1..Len(db.blocks) /\ db.blocks[b.id].hash = b.hash
        linked == validate_against_tip(validated_tip(db), b)
        err    == IF linked # Ok THEN linked
                  ELSE IF flaky /\ apply_block_to_state(b, state) = Ok THEN "StateTransition"
                  ELSE apply_block_to_state(b, state)
    IN  CASE known -> [outcome |-> "AlreadyApplied", db |-> db]
          [] ~known /\ err = Ok ->
                [outcome |-> "Applied", db |-> put_block(db, b, slot, Append(state, b))]
          [] ~known /\ err = "StateTransition" ->
                [outcome |-> "RetryableFailure", db |-> db]
          [] OTHER -> [outcome |-> "Parked", db |-> record_stall(db, TipOf(b), slot)]

\* The anchor of the start-up check: the parked block while stalled, else the
\* tip at its own slot, or at the cursor in a store that has no tip slot.
get_startup_anchor(db) ==
    LET slot == IF db.tip_slot # 0 THEN db.tip_slot ELSE db.cursor
    IN  CASE db.stall # NoStall -> [slot |-> db.stall.l1_slot, block |-> db.stall.header]
          [] db.stall = NoStall /\ slot # 0 /\ db.blocks # <<>> ->
                [slot |-> slot, block |-> validated_tip(db)]
          [] OTHER -> NoAnchor

-----------------------------------------------------------------------------

closest_breakpoint_id(id) == (IF id = 0 THEN 0 ELSE id - 1) \div BREAKPOINT_INTERVAL

\* The state after block id: the nearest snapshot at or below it, and the blocks
\* above that snapshot.
calculate_state_for_id(db, id) ==
    LET br_id == Max({k \in DOMAIN db.breakpoints : k <= closest_breakpoint_id(id)})
    IN  IF id > Len(db.blocks) THEN NoState
        ELSE db.breakpoints[br_id] \o SubSeq(db.blocks, BREAKPOINT_INTERVAL * br_id + 1, id)

final_state(db) == calculate_state_for_id(db, Len(db.blocks))

get_transaction_by_hash(db, tx) ==
    tx \in DOMAIN db.tx_to_id /\ tx \in Range(TxsOf(db.blocks[db.tx_to_id[tx]]))

\* One page of an account's transactions; every hash must lead to a block that
\* holds it, or the whole page is an error.
get_acc_transactions(db, acc, offset, limit) ==
    LET hashes == SubSeq(db.acc_txs[acc], offset + 1,
                         Min({offset + limit, Len(db.acc_txs[acc])}))
    IN  IF \A k \in 1..Len(hashes) : get_transaction_by_hash(db, hashes[k])
        THEN hashes ELSE NoState

\* A page of blocks, newest first, below `before` (0 for None).  The read stops
\* at the first id that is not stored.
get_block_batch(db, before, limit) ==
    LET start == IF before = 0 THEN Len(db.blocks) ELSE before - 1
    IN  IF start > Len(db.blocks) THEN <<>>
        ELSE [k \in 1..Min({limit, start}) |-> db.blocks[start - k + 1]]
==============================================================================
