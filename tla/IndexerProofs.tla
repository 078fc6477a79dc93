---------------------------- MODULE IndexerProofs ----------------------------
(***************************************************************************)
(* The indexer's safety properties for every set of blocks, every world    *)
(* and every interval of the snapshots.                                    *)
(***************************************************************************)
EXTENDS IndexerSteps

-----------------------------------------------------------------------------
(* The theorems.                                                           *)

\* The invariant holds in every state the indexer can be in.
THEOREM Invariance == Spec => []Inv
  BY InitInv, NextInv, PTL DEF Spec

\* The indexed state, and the state at every stored block, is the replay of the stored
\* blocks, in every crash, retry and wipe (accept_block, calculate_state_for_id).
THEOREM IndexedStateIsReplay == Spec => []HistoryIsReplay
<1>1. Inv => HistoryIsReplay
  <2> SUFFICES ASSUME Inv PROVE HistoryIsReplay
    OBVIOUS
  <2>1. /\ Memory /\ db.blocks \in Seq(Block) /\ Snapshots(db.breakpoints, db.blocks)
        /\ DOMAIN db = Fields
    BY DEF Inv, Base, StoreOK, IsChain
  <2>2. ASSUME Up PROVE state = IF pc = "clear" THEN SubSeq(db.blocks, 1, Len(db.blocks) - 1) ELSE db.blocks
    <3>1. CASE pc = "clear"
      <4> DEFINE b == Head(todo).msg.block
      <4>1. state \in Seq(Block) /\ db.blocks = Append(state, b) /\ todo \in Seq(Entry) /\ todo # <<>>
            /\ Head(todo).msg.kind = "block"
        BY <2>1, <3>1 DEF Memory
      <4>2. b \in Block
        BY <4>1, EntryTypes, EmptySeq
      <4> HIDE DEF b
      <4>3. Len(db.blocks) = Len(state) + 1 /\ Len(state) \in Nat
        BY <4>1, <4>2, AppendProperties
      <4>4. SubSeq(db.blocks, 1, Len(state)) = state
        <5>1. Extends(state, db.blocks)
          BY <4>1, <4>2, PrefixOfAppend
        <5> QED
          BY <4>1, <5>1, SubSeqFull DEF Extends
      <4> QED
        BY <3>1, <4>3, <4>4
    <3>2. CASE pc # "clear"
      BY <2>1, <2>2, <3>2 DEF Up, Memory
    <3> QED
      BY <3>1, <3>2
  <2>3. ASSUME NEW lost \in SUBSET (DOMAIN db.breakpoints \ {0}), NEW id \in 0..Len(db.blocks)
        PROVE  calculate_state_for_id(
                   [db EXCEPT !.breakpoints = [k \in DOMAIN @ \ lost |-> @[k]]], id)
                   = SubSeq(db.blocks, 1, id)
    <3> DEFINE kept == [db EXCEPT !.breakpoints = [k \in DOMAIN @ \ lost |-> @[k]]]
    <3>1. /\ kept.blocks = db.blocks
          /\ kept.breakpoints = [k \in DOMAIN db.breakpoints \ lost |-> db.breakpoints[k]]
      BY <2>1 DEF Fields
    <3> HIDE DEF kept
    <3>2. Snapshots(kept.breakpoints, kept.blocks)
      BY <2>1, <3>1 DEF Snapshots
    <3>3. calculate_state_for_id(kept, id) = SubSeq(kept.blocks, 1, id)
      BY <2>1, <3>1, <3>2, StateForId
    <3> QED
      BY Zenon, <3>1, <3>3 DEF kept
  <2> QED
    BY <2>2, <2>3, Zenon DEF HistoryIsReplay
<1> QED
  BY <1>1, Invariance, PTL

\* On a channel that carries every block after its parent, neither cursor passes a block
\* that is not stored, and "caught up" is said of a complete, unparked store only
\* (SlotProgress, advance_cursor, the retry gate).
THEOREM NothingIsSkipped ==
    ASSUME ParentsFirst
    PROVE  Spec => []CursorSkipsNothing
<1>1. Inv => CursorSkipsNothing
  <2> SUFFICES ASSUME Inv, resets = 0, faults < APPLY_RETRY_LIMIT
               PROVE  /\ Extends(Settled(UpToSlot(db.cursor)), db.blocks)
                      /\ Up => Extends(Settled(UpToSlot(cursor)), db.blocks)
                      /\ status = "CaughtUp" =>
                            db.stall = NoStall /\ db.blocks = Settled(UpToSlot(cursor))
    BY Zenon DEF CursorSkipsNothing
  <2>1. Base /\ Memory /\ Following /\ CaughtUp
    BY DEF Inv, Follows
  <2>2. \A s : Settled(UpToSlot(s)) = ChainAt(channel, ReadUpTo(channel, s))
    BY DEF UpToSlot, ChainAt
  <2>3. /\ channel \in Seq(Entry) /\ Len(channel) \in Nat
        /\ ReadUpTo(channel, cursor) \in 0..Len(channel)
        /\ ReadUpTo(channel, db.cursor) \in 0..Len(channel)
    BY <2>1, Cursors
  <2>4. PICK h \in 0..Len(channel) :
          /\ db.blocks = ChainAt(channel, h)
          /\ ReadUpTo(channel, db.cursor) <= h
          /\ pc = "poll" => ReadUpTo(channel, cursor) <= h
          /\ pc \in {"next", "clear"} => \E p, q \in 0..Len(channel) : InPass(h, p, q)
    BY <2>1 DEF Following
  <2>5. Up => ReadUpTo(channel, cursor) <= h
    <3>1. ASSUME NEW p \in 0..Len(channel), NEW q \in 0..Len(channel), InPass(h, p, q)
          PROVE  ReadUpTo(channel, cursor) <= h
      <4>1. p <= h /\ ReadUpTo(channel, cursor) <= p
        BY <3>1 DEF InPass
      <4> QED
        BY <2>3, <4>1
    <3> QED
      BY <2>4, <3>1 DEF Up
  <2>6. ASSUME NEW r \in 0..Len(channel), r <= h PROVE Extends(ChainAt(channel, r), db.blocks)
    <3>1. r \in Nat /\ h \in Nat /\ h <= Len(channel)
      BY <2>3
    <3>2. Extends(ChainAt(channel, r), ChainAt(channel, h))
      BY <2>3, <2>6, <3>1, ChainAtGrows
    <3> QED
      BY <2>4, <3>2 
  <2> QED
    BY <2>1, <2>2, <2>3, <2>4, <2>5, <2>6 DEF CaughtUp
<1> QED
  BY <1>1, Invariance, PTL

-----------------------------------------------------------------------------
(* The indexer implements a follower of its channel.                       *)

\* The definitions that the instance of Follower brings with it are those of Blocks.
LEMMA SameExtends == ASSUME NEW s, NEW t PROVE FollowsChannel!Extends(s, t) = Extends(s, t)
  BY DEF FollowsChannel!Extends, Extends

LEMMA SameSettle == ASSUME NEW c, NEW b PROVE FollowsChannel!Settle(c, b) = Settle(c, b)
  BY Zenon DEF FollowsChannel!Settle, FollowsChannel!apply_block, FollowsChannel!validate_against_tip,
     FollowsChannel!apply_block_to_state, FollowsChannel!TipOfChain, FollowsChannel!TipOf,
     FollowsChannel!GENESIS_BLOCK_ID, FollowsChannel!Ok, Settle, apply_block,
     validate_against_tip, apply_block_to_state, TipOfChain, TipOf, GENESIS_BLOCK_ID, Ok

LEMMA SameSettled == ASSUME NEW bs PROVE FollowsChannel!Settled(bs) = Settled(bs)
<1>1. FollowsChannel!SettledUpTo(bs) = SettledUpTo(bs)
  BY SameSettle, Zenon DEF FollowsChannel!SettledUpTo, SettledUpTo
<1> QED
  BY <1>1 DEF FollowsChannel!Settled, Settled

\* Unless the store may be wiped, it only grows, and the channel is the business of the L1.
LEMMA StoreOnlyGrows ==
    ASSUME Inv, [Next]_vars, ~world.allow_chain_reset
    PROVE  /\ UNCHANGED world /\ Extends(db.blocks, db'.blocks)
           /\ \/ UNCHANGED channel
              \/ Reset
              \/ UNCHANGED db /\ \E messages \in world.slots[resets + 1] : FinalizeSlot(messages)
<1> DEFINE Goal == /\ UNCHANGED world /\ Extends(db.blocks, db'.blocks)
                   /\ \/ UNCHANGED channel
                      \/ Reset
                      \/ UNCHANGED db /\ \E messages \in world.slots[resets + 1] : FinalizeSlot(messages)
<1>0. Base /\ Memory /\ StoreOK(db) /\ db.blocks \in Seq(Block) /\ Extends(db.blocks, db.blocks)
  BY PrefixRefl DEF Inv, Base, StoreOK, IsChain
<1>1. ASSUME NEW messages \in world.slots[resets + 1], FinalizeSlot(messages) PROVE Goal
  BY Zenon, <1>0, <1>1 DEF FinalizeSlot
<1>2. CASE Reset
  BY <1>0, <1>2 DEF Reset
<1>3. ASSUME UNCHANGED l1, db'.blocks = db.blocks PROVE Goal
  BY <1>0, <1>3 DEF l1
<1>4. \A x, y : record_stall(db, x, y).blocks = db.blocks
  <2>1. \A x, y : LET e == record_stall(db, x, y)
                  IN  StoreOK(e) /\ e.blocks = db.blocks /\ e.cursor = db.cursor
    BY <1>0, OtherWritesOK, Zenon
  <2> QED
    BY <2>1
<1>5. CASE Start \/ Poll \/ PollFails \/ Crash \/ UNCHANGED vars
  BY <1>3, <1>5 DEF Start, Poll, PollFails, Crash, vars
<1>6. CASE Check \/ CheckFails
  <2>1. PICK v : Judge(v)
    BY <1>6, Zenon DEF Check, CheckFails
  <2>2. UNCHANGED l1 /\ UNCHANGED db
    BY <2>1 DEF Judge
  <2> QED
    BY <1>3, <2>2
<1>7. CASE EnterSlot \/ Drain
  <2>1. UNCHANGED l1 /\ IF slot = 0 THEN UNCHANGED <<db, cursor, faults>> ELSE AdvanceCursor(slot)
    BY Zenon, <1>7 DEF EnterSlot, Drain
  <2> QED
    BY <1>0, <1>3, <2>1, AdvanceFacts
<1>8. CASE SkipOther \/ StoreFails \/ PeerUnavailable \/ HaltOnForged \/ StallFails
  <2>1. UNCHANGED l1 /\ UNCHANGED db
    BY Zenon, <1>8 DEF SkipOther, StoreFails, PeerUnavailable, HaltOnForged, StallFails, Handling
  <2> QED
    BY <1>3, <2>1
<1>9. CASE ParkGarbage
  <2>1. UNCHANGED l1 /\ db' = record_stall(db, NoHeader, slot)
    BY <1>9 DEF ParkGarbage, Handling
  <2> QED
    BY <1>3, <1>4, <2>1
<1>10. CASE Applied
  <2>1. UNCHANGED l1 /\ (db' = clear_stall_if_present(db) \/ UNCHANGED db)
    BY <1>10 DEF Applied
  <2> QED
    BY <1>0, <1>3, <2>1, OtherWritesOK
<1>11. ASSUME NEW flaky \in BOOLEAN, AcceptBlock(flaky) PROVE Goal
  <2> DEFINE b == Head(todo).msg.block
             r == accept_block(db, db.blocks, b, slot, flaky)
  <2>1. Handling("block")
    BY <1>11 DEF AcceptBlock
  <2>2. b \in Block /\ state = db.blocks /\ UNCHANGED l1
    BY <1>0, <2>1, HandlingFacts
  <2>3. \/ r.outcome \in {"Applied", "Parked"} /\ db' = r.db
        \/ r.outcome = "AlreadyApplied" /\ UNCHANGED db
        \/ UNCHANGED db \/ db' = record_stall(db, TipOf(b), slot)
    <3>1. r = accept_block(db, state, b, slot, flaky)
      BY <2>2
    <3> HIDE DEF r
    <3>2. CASE r.outcome = "Applied"
      BY Zenon, <1>11, <3>1, <3>2 DEF AcceptBlock
    <3>3. CASE r.outcome = "Parked"
      BY Zenon, <1>11, <3>1, <3>3 DEF AcceptBlock
    <3>4. CASE r.outcome = "AlreadyApplied"
      BY Zenon, <1>11, <3>1, <3>4 DEF AcceptBlock
    <3>5. CASE r.outcome = "RetryableFailure"
      BY Zenon, <1>11, <3>1, <3>5 DEF AcceptBlock
    <3>6. \/ r.outcome = "Applied" \/ r.outcome = "Parked"
          \/ r.outcome = "AlreadyApplied" \/ r.outcome = "RetryableFailure"
      BY <1>0, <2>2, Outcomes, Zenon DEF r
    <3> QED
      BY <3>2, <3>3, <3>4, <3>5, <3>6
  <2>4. \/ /\ r.outcome = "Applied" /\ Extending(db.blocks, b)
           /\ r.db = put_block(db, b, slot, Append(db.blocks, b))
        \/ r.outcome = "Parked" /\ r.db = record_stall(db, TipOf(b), slot)
        \/ r.outcome \notin {"Applied", "Parked"}
    BY Zenon, <1>0, <2>2, Outcomes
  <2> HIDE DEF r, b
  <2>5. record_stall(db, TipOf(b), slot).blocks = db.blocks
    BY <1>4
  <2>6. CASE r.outcome = "Applied" /\ db' = r.db
    <3>1. db'.blocks = Append(db.blocks, b)
      BY <1>0, <2>2, <2>4, <2>6, PutBlockOK
    <3>2. Extends(db.blocks, db'.blocks)
      BY <1>0, <2>2, <3>1, PrefixOfAppend
    <3> QED
      BY <2>2, <3>2 DEF l1
  <2> QED
    BY <1>3, <2>2, <2>3, <2>4, <2>5, <2>6
<1> QED
  BY Zenon, <1>1, <1>2, <1>5, <1>6, <1>7, <1>8, <1>9, <1>10, <1>11 DEF Next, Ingest, Fail

\* A slot that becomes final extends the list of blocks.
LEMMA FinalizeExtends ==
    ASSUME Inv, NEW messages \in world.slots[resets + 1], FinalizeSlot(messages)
    PROVE  Extends(BlocksIn(channel), BlocksIn(channel'))
<1>1. /\ channel \in Seq(Entry) /\ Sorted(channel) /\ now \in Nat
      /\ \A k \in 1..Len(channel) : channel[k].slot <= now
      /\ resets \in 0..world.resets /\ world \in World
  BY DEF Inv, Base
<1>2. messages \in Seq(Messages)
  BY <1>1, WorldAssumption
<1>3. channel' = Finalized(channel, now, messages)
  BY DEF FinalizeSlot, Finalized, Stamped
<1>4. PICK gs : gs = Finalized(channel, now, messages)
  OBVIOUS
<1>5. /\ gs \in Seq(Entry) /\ Len(channel) <= Len(gs) /\ Len(channel) \in Nat
      /\ \A k \in 1..Len(channel) : gs[k] = channel[k]
  BY SMTT(30), <1>1, <1>2, <1>4, SlotFinalized
<1>6. SubSeq(gs, 1, Len(channel)) = channel
  BY <1>1, <1>5
<1>7. Extends(BlocksIn(SubSeq(gs, 1, Len(channel))), BlocksIn(gs))
  BY <1>5, BlocksGrow
<1> QED
  BY Zenon, <1>3, <1>4, <1>6, <1>7

\* A step of the indexer is a step of the follower, or leaves it alone.
LEMMA StepFollows ==
    ASSUME ParentsFirst, Inv, Inv', [Next]_vars
    PROVE  [FollowsChannel!Finalize \/ FollowsChannel!Follow]_(FollowsChannel!vars)
<1> DEFINE log    == IF Undisturbed THEN BlocksIn(channel) ELSE <<>>
           ledger == IF Undisturbed THEN db.blocks ELSE <<>>
<1>1. SUFFICES \/ Extends(log, log') /\ ledger' = ledger
               \/ /\ Extends(ledger, ledger') /\ Extends(ledger', Settled(log)) /\ log' = log
               \/ log' = log /\ ledger' = ledger
  BY Zenon, SameExtends, SameSettled
  DEF FollowsChannel!Finalize, FollowsChannel!Follow, FollowsChannel!vars
<1>2. UNCHANGED world
  BY Zenon DEF Next, Ingest, Fail, vars, l1, FinalizeSlot, Reset, Start, Check, CheckFails, Judge, Poll, PollFails,
     EnterSlot, Drain, SkipOther, ParkGarbage, StoreFails, PeerUnavailable, HaltOnForged, StallFails,
     AcceptBlock, Applied, Crash, Handling
<1>3. Undisturbed' = Undisturbed
  BY <1>2 DEF Undisturbed
<1>4. CASE ~Undisturbed
  BY <1>3, <1>4
<1>5. CASE Undisturbed
  <2>1. /\ log = BlocksIn(channel) /\ log' = BlocksIn(channel')
        /\ ledger = db.blocks /\ ledger' = db'.blocks
    BY <1>3, <1>5
  <2> HIDE DEF log, ledger
  <2>2. ~world.allow_chain_reset /\ world.resets = 0 /\ world.max_faults < APPLY_RETRY_LIMIT
    BY <1>5 DEF Undisturbed
  <2>3. /\ Extends(db.blocks, db'.blocks)
        /\ \/ UNCHANGED channel
           \/ Reset
           \/ UNCHANGED db /\ \E messages \in world.slots[resets + 1] : FinalizeSlot(messages)
    BY <2>2, StoreOnlyGrows
  <2>4. resets = 0 /\ ~Reset
    BY <2>2 DEF Inv, Base, Reset
  <2>5. CASE UNCHANGED channel
    <3>1. Base' /\ Following'
      <4>1. Inv' /\ resets' \in 0..world'.resets /\ faults' \in 0..world'.max_faults
        BY DEF Inv, Base
      <4>2. world \in World /\ world.max_faults \in Nat
        BY WorldAssumption DEF Inv, Base
      <4>3. resets' = 0 /\ faults' < APPLY_RETRY_LIMIT
        BY <1>2, <2>2, <4>1, <4>2, LimitAssumption
      <4> QED
        BY <4>1, <4>3 DEF Inv, Follows
    <3>2. PICK h \in 0..Len(channel) : db'.blocks = ChainAt(channel, h)
      BY <2>5, <3>1 DEF Following
    <3>3. channel \in Seq(Entry) /\ Len(channel) \in Nat
      BY DEF Inv, Base
    <3>4. Extends(ChainAt(channel, h), ChainAt(channel, Len(channel)))
      <4>1. h \in Nat /\ h <= Len(channel) /\ Len(channel) <= Len(channel)
        BY <3>3
      <4> QED
        BY <3>3, <4>1, ChainAtGrows
    <3>5. Extends(db'.blocks, Settled(BlocksIn(channel)))
      BY Zenon, <3>2, <3>3, <3>4, ChainAtEnd
    <3> QED
      BY Zenon, <2>1, <2>3, <2>5, <3>5
  <2>6. ASSUME NEW messages \in world.slots[resets + 1], FinalizeSlot(messages), UNCHANGED db
        PROVE  Extends(log, log') /\ ledger' = ledger
    BY <2>1, <2>6, FinalizeExtends
  <2> QED
    BY <2>3, <2>4, <2>5, <2>6
<1> QED
  BY <1>4, <1>5

\* On a channel that carries every block after its parent, where the L1 and the store
\* are not wiped and failures do not park a good block, the indexer is a follower: its
\* chain only grows, by what the finalized channel settles, whatever crashes, retries,
\* failed writes and re-read slots come between.
THEOREM IndexerFollowsChannel ==
    ASSUME ParentsFirst
    PROVE  Spec => ImplementsFollower
<1>1. Init => FollowsChannel!Init
  <2> SUFFICES ASSUME Init PROVE FollowsChannel!Init
    OBVIOUS
  <2>1. channel = <<>> /\ db.blocks = <<>>
    BY FreshStoreOK DEF Init
  <2>2. BlocksIn(<<>>) = <<>>
    BY BlocksUnfold DEF BlocksIn
  <2> QED
    BY <2>1, <2>2 DEF FollowsChannel!Init
<1>2. Inv /\ Inv' /\ [Next]_vars => [FollowsChannel!Finalize \/ FollowsChannel!Follow]_(FollowsChannel!vars)
  BY StepFollows
<1> QED
  BY <1>1, <1>2, Invariance, PTL DEF Spec, FollowsChannel!Spec, ImplementsFollower
==============================================================================
