----------------------------- MODULE Sequencer -----------------------------
(***************************************************************************)
(* One sequencer process (lez/sequencer/core/src/lib.rs, the executor      *)
(* actor and the zone-sdk publisher) over its store and the Bedrock        *)
(* channel: start-up, reconstruction, the production turn with its awaits, *)
(* the follow path that the publisher's drive task runs, and crashes.      *)
(*                                                                         *)
(* External, modelled from how the code uses it: the channel (`branch`,    *)
(* its finalized prefix `lib`, inscriptions waiting for inclusion          *)
(* `posted`), the other sequencers, and the zone-sdk (`sdk`: the lineage   *)
(* it last reported, how much of it as finalized, and our inscriptions it  *)
(* holds as pending).  A checkpoint is the value of `sdk`.                 *)
(* User transactions and the mempool are not part of this module.          *)
(***************************************************************************)
EXTENDS SequencerStore, SequencesExt

CONSTANTS
    Genesis,        \* the genesis block this node builds from its configuration
    OwnBlock,       \* blocks this node can build (Genesis among them)
    PeerBlock,      \* blocks the other sequencers can inscribe
    OwnMsg,         \* the message under which we inscribe a block
    PeerMsg,        \* the message under which a peer inscribes it
    Absent, Partial,            \* no database; one whose creation was cut short
    NoMsg, NoBlock,
    MaxChannel,         \* bound: inscriptions on the branch
    MaxDisturbances     \* bound: crashes and L1 reorgs, together

ASSUME SequencerAssumption ==
    /\ Genesis \in OwnBlock /\ Genesis.id = GENESIS_BLOCK_ID
    /\ OwnBlock \subseteq Block /\ PeerBlock \subseteq Block
    /\ OwnMsg \in [Block -> Msg \ Hash] /\ PeerMsg \in [PeerBlock -> Msg \ Hash]
    /\ \A b, c \in Block : OwnMsg[b] = OwnMsg[c] => b = c
    /\ \A b, c \in PeerBlock : PeerMsg[b] = PeerMsg[c] => b = c
    /\ \A b \in Block, c \in PeerBlock : OwnMsg[b] # PeerMsg[c]

VARIABLES
    store,      \* the database on disk
    phase,      \* how far the process is: see Phases
    chain,      \* the two-tier chain state
    start,      \* start-up locals: fresh start, channel absent, blocks to handle
    turn,       \* the production turn: program counter, block, message, checkpoint
    sdk,        \* zone-sdk: reported lineage, reported finality, our pending
    branch, lib, posted,        \* the channel
    inscribed,  \* history: blocks this node handed to the channel
    tx_map,     \* blocks whose transactions are in tx_hash_to_block_map
    crashes, reorgs             \* bound the environment

node == <<store, phase, chain, start, turn, tx_map>>
channel == <<branch, lib, posted, reorgs>>
vars == <<node, channel, sdk, inscribed, crashes>>

Phases == {"down", "refused", "creating", "backfill", "starting", "reconstructing",
           "publishing", "running"}

Idle == [pc |-> "idle", block |-> NoBlock, msg |-> NoMsg, checkpoint |-> NoCheckpoint]

NoStart == [fresh |-> FALSE, absent |-> FALSE, todo |-> <<>>]

ColdSdk == [seen |-> <<>>, lib |-> 0, pending |-> <<>>]

\* The publisher's drive task runs.
Up == phase \notin {"down", "refused", "creating"}

Complete == store \notin {Absent, Partial}

Own(b) == [msg |-> OwnMsg[b], block |-> b]

TipMsg(line) == IF line = <<>> THEN NoMsg ELSE Last(line).msg

Init ==
    /\ store = Absent /\ phase = "down" /\ chain = new
    /\ start = NoStart /\ turn = Idle /\ sdk = ColdSdk
    /\ branch = <<>> /\ lib = 0 /\ posted = {}
    /\ inscribed = {} /\ tx_map = {} /\ crashes = 0 /\ reorgs = 0

-----------------------------------------------------------------------------
\* The channel and its other writers (external).

\* An honest peer inscribes a block whose parent is on the branch, possibly one
\* that another inscription already extended.
PeerInscribe(b) ==
    LET i == [msg |-> PeerMsg[b], block |-> b]
    IN  /\ Len(branch) < MaxChannel
        /\ i \notin ToSet(branch) \cup {p.inscription : p \in posted}
        /\ \/ b.id = GENESIS_BLOCK_ID /\ branch = <<>>
           \/ \E j \in ToSet(branch) : j.block.hash = b.prev
        /\ branch' = Append(branch, i)
        /\ UNCHANGED <<node, lib, posted, reorgs, sdk, inscribed, crashes>>

\* A posted inscription is included while its parent message is the tip.
Include(p) ==
    /\ Len(branch) < MaxChannel
    /\ p.parent = TipMsg(branch)
    /\ branch' = Append(branch, p.inscription)
    /\ posted' = posted \ {p}
    /\ UNCHANGED <<node, lib, reorgs, sdk, inscribed, crashes>>

\* An L1 reorg drops an unfinalized suffix, which may be included again.
Reorg(n) ==
    /\ crashes + reorgs < MaxDisturbances
    /\ n \in lib..(Len(branch) - 1)
    /\ branch' = SubSeq(branch, 1, n)
    /\ posted' = posted \cup
          {[inscription |-> branch[k], parent |-> TipMsg(SubSeq(branch, 1, k - 1))] :
              k \in (n + 1)..Len(branch)}
    /\ reorgs' = reorgs + 1
    /\ UNCHANGED <<node, lib, sdk, inscribed, crashes>>

Finalize ==
    /\ lib < Len(branch)
    /\ lib' = lib + 1
    /\ UNCHANGED <<node, branch, posted, reorgs, sdk, inscribed, crashes>>

-----------------------------------------------------------------------------
\* The follow path.

SharedPrefix(s, t) ==
    Cardinality({n \in 1..Len(s) : n <= Len(t) /\ SubSeq(s, 1, n) = SubSeq(t, 1, n)})

\* One Event::BlocksProcessed, moving the sdk to the first n inscriptions of the
\* branch with l of them final.  Our pending inscriptions survive as long as
\* nothing but they themselves extended the lineage; otherwise they are orphaned.
\* A backfill reports what is final already as finalized only.  `extra` are our
\* inscriptions still on the branch that the sdk reports as orphaned all the same.
SdkEvent(n, l, backfill, extra) ==
    LET target == SubSeq(branch, 1, n)
        k      == SharedPrefix(sdk.seen, target)
        lost   == SubSeq(sdk.seen, k + 1, Len(sdk.seen))
        news   == SubSeq(target, k + 1, n)
        valid  == lost = <<>> /\ (IsPrefix(news, sdk.pending) \/ IsPrefix(sdk.pending, news))
        dead   == SelectSeq(sdk.pending, LAMBDA i : i \notin ToSet(news))
    IN  [adopted    |-> SubSeq(target, (IF backfill /\ l > k THEN l ELSE k) + 1, n),
         orphaned   |-> lost \o (IF valid THEN <<>> ELSE dead) \o extra,
         finalized  |-> SubSeq(target, sdk.lib + 1, l),
         checkpoint |-> [seen |-> target, lib |-> l, pending |-> IF valid THEN dead ELSE <<>>]]

\* The chain after each of the inscriptions was given to `op`, with its outcome.
Feed(op(_, _, _), c, list) ==
    LET after[i \in 0..Len(list)] ==
            IF i = 0 THEN Result(c, "Applied")
            ELSE op(after[i - 1].chain, list[i].msg, list[i].block)
    IN  after

\* The blocks of a list whose outcome was "Applied", as store payloads.
Payloads(list, fed, finalized) ==
    LET kept[i \in 0..Len(list)] ==
            IF i = 0 THEN <<>>
            ELSE IF fed[i].outcome = "Applied"
            THEN Append(kept[i - 1], [block |-> list[i].block, finalized |-> finalized])
            ELSE kept[i - 1]
    IN  kept[Len(list)]

\* Mutant: an adopted block goes to the final tier at once.
MutAdoptedIsFinal(c, s, e) ==
    LET fed == Feed(apply_finalized, revert_orphans(c, e.orphaned), e.adopted)
        end == fed[Len(e.adopted)].chain
    IN  [chain |-> end,
         store |-> store_update(s, [StoreUpdate(end.head_state) EXCEPT
            !.checkpoint     = e.checkpoint,
            !.blocks         = Payloads(e.adopted, fed, TRUE),
            !.head_tip       = head_tip(end),
            !.final_snapshot = IF end.final_state = c.final_state THEN NoSnapshot
                               ELSE [state |-> end.final_state, tip |-> end.final_tip]])]

\* Mutant: the final snapshot is not taken.
MutNoSnapshot(c, s, e) ==
    LET adopting   == Feed(apply_adopted, revert_orphans(c, e.orphaned), e.adopted)
        finalizing == Feed(apply_finalized, adopting[Len(e.adopted)].chain, e.finalized)
        end        == finalizing[Len(e.finalized)].chain
    IN  [chain |-> end,
         store |-> store_update(s, [StoreUpdate(end.head_state) EXCEPT
            !.checkpoint = e.checkpoint,
            !.blocks     = Payloads(e.adopted, adopting, FALSE)
                               \o Payloads(e.finalized, finalizing, TRUE),
            !.head_tip   = head_tip(end)])]

\* apply_follow_update: orphans, adoptions, finalizations, then one store write,
\* all under the chain lock.
apply_follow_update(c, s, e) ==
    LET adopting   == Feed(apply_adopted, revert_orphans(c, e.orphaned), e.adopted)
        finalizing == Feed(apply_finalized, adopting[Len(e.adopted)].chain, e.finalized)
        end        == finalizing[Len(e.finalized)].chain
        held       == {i \in 1..Len(e.finalized) :
                          finalizing[i].outcome \in {"Applied", "AlreadyApplied"}}
        advanced   == \E i \in held : finalizing[i].outcome = "Applied"
    IN  [chain |-> end,
         store |-> store_update(s, [StoreUpdate(end.head_state) EXCEPT
            !.checkpoint      = e.checkpoint,
            !.blocks          = Payloads(e.adopted, adopting, FALSE)
                                    \o Payloads(e.finalized, finalizing, TRUE),
            !.head_tip        = head_tip(end),
            !.final_snapshot  = IF advanced THEN [state |-> end.final_state, tip |-> end.final_tip]
                                ELSE NoSnapshot,
            !.finalized_up_to = Max({0} \cup {e.finalized[i].block.id : i \in held})])]

FollowUpdate(n, l, backfill, extra) ==
    /\ Up
    /\ backfill => l > SharedPrefix(sdk.seen, branch)
    /\ \E e \in {SdkEvent(n, l, backfill, extra)} :
       \E r \in {apply_follow_update(chain, store, e)} :
           /\ chain' = r.chain
           /\ store' = r.store
           /\ sdk' = e.checkpoint
    /\ UNCHANGED <<phase, start, turn, tx_map, channel, inscribed, crashes>>

-----------------------------------------------------------------------------
\* The production turn: every step ends at an await or at a durable write.

next_block_height(c) ==
    IF head_tip(c) = NoTip THEN GENESIS_BLOCK_ID ELSE head_tip(c).block_id + 1

rewound_below_published(c, s) == next_block_height(c) <= s.high_water

\* The ProduceBlock handler up to its first await.  The sdk says that it is our
\* turn on a channel it knows only.
CheckTurn ==
    /\ phase = "running" /\ turn.pc = "idle"
    /\ sdk.seen \o sdk.pending # <<>>
    /\ ~rewound_below_published(chain, store)
    /\ turn' = [turn EXCEPT !.pc = "checked"]
    /\ UNCHANGED <<store, phase, chain, start, tx_map, channel, sdk, inscribed, crashes>>

\* build_block_from_mempool on the head as it is now.  A timestamp never comes
\* back, so a block is built once.
BuildBlock(b) ==
    /\ turn.pc = "checked"
    /\ b \notin inscribed
    /\ apply_block(head_tip(chain), b, chain.head_state) = Ok
    /\ turn' = [turn EXCEPT !.pc = "built", !.block = b]
    /\ UNCHANGED <<store, phase, chain, start, tx_map, channel, sdk, inscribed, crashes>>

\* The sdk takes an inscription with its parent and posts it.
Publish(b, parent) ==
    /\ sdk' = [sdk EXCEPT !.pending = Append(@, Own(b))]
    /\ posted' = posted \cup {[inscription |-> Own(b), parent |-> parent]}
    /\ inscribed' = inscribed \cup {b}

\* On top of what the sdk holds.
publish_block(b) == Publish(b, TipMsg(sdk.seen \o sdk.pending))

\* With a founding committee, the operation that creates the channel is in the same
\* transaction and is the parent: it can be included on an empty channel only.
publish_genesis_creating_channel(b) == b.id = GENESIS_BLOCK_ID /\ Publish(b, NoMsg)

\* The inscription is handed over, in the drive task.
PublishBlock ==
    /\ turn.pc = "built"
    /\ publish_block(turn.block)
    /\ turn' = [turn EXCEPT !.pc = "published", !.msg = OwnMsg[turn.block], !.checkpoint = sdk']
    /\ UNCHANGED <<store, phase, chain, start, tx_map, branch, lib, reorgs, crashes>>

\* The mark is raised as soon as the inscription was handed over.
RaiseHighWater ==
    /\ turn.pc = "published"
    /\ store' = raise_published_high_water(store, turn.block.id)
    /\ turn' = [turn EXCEPT !.pc = "raised"]
    /\ UNCHANGED <<phase, chain, start, tx_map, channel, sdk, inscribed, crashes>>

\* record_produced_block: persisted only if the block became the head.
RecordProducedBlock ==
    LET r == apply_produced(chain, turn.msg, turn.block)
        applied == r.outcome = "Applied"
    IN  /\ turn.pc = "raised"
        /\ chain' = r.chain
        /\ store' = IF applied
                    THEN atomic_update(store, turn.block, r.chain.head_state, turn.checkpoint)
                    ELSE store
        /\ tx_map' = IF applied THEN tx_map \cup {turn.block} ELSE tx_map
        /\ turn' = Idle
        /\ UNCHANGED <<phase, start, channel, sdk, inscribed, crashes>>

-----------------------------------------------------------------------------
\* Start-up and crashes.

\* restore_chain_state, then BP::new with the stored checkpoint.
Boot(s) ==
    /\ chain' = restore_chain_state(s).chain
    /\ tx_map' = {s.blocks[i].block : i \in GENESIS_BLOCK_ID..s.meta.block_id}
    /\ start' = [NoStart EXCEPT !.fresh = s.checkpoint = NoCheckpoint]
    /\ sdk' = IF s.checkpoint = NoCheckpoint THEN ColdSdk ELSE s.checkpoint
    /\ phase' = "backfill"
    /\ UNCHANGED <<turn, channel, inscribed, crashes>>

\* open_or_create_store without a database: the cells are written one by one.
BeginCreate ==
    /\ ~Up /\ store = Absent
    /\ store' = Partial /\ phase' = "creating"
    /\ UNCHANGED <<chain, start, turn, tx_map, channel, sdk, inscribed, crashes>>

EndCreate ==
    /\ phase = "creating"
    /\ store' = create(Genesis)
    /\ Boot(store')

\* open_or_create_store with a database.
OpenStore ==
    /\ phase \in {"down", "refused"} /\ Complete /\ Loads(store)
    /\ Boot(store)
    /\ UNCHANGED store

\* A database that does not load: the process panics.
OpenFails ==
    /\ phase \in {"down", "refused"} /\ store # Absent
    /\ Complete => ~Loads(store)
    /\ phase' = "refused"
    /\ UNCHANGED <<store, chain, start, turn, tx_map, channel, sdk, inscribed, crashes>>

\* BP::new returns once the sdk is ready: it has caught up with finality, and its
\* events have left a checkpoint.
Ready ==
    /\ phase = "backfill"
    /\ sdk.lib = lib /\ store.checkpoint # NoCheckpoint
    /\ phase' = "starting"
    /\ UNCHANGED <<store, chain, start, turn, tx_map, channel, sdk, inscribed, crashes>>

\* The process stops and keeps nothing but the store.
Halt(p) ==
    /\ phase' = p
    /\ chain' = new /\ start' = NoStart /\ turn' = Idle /\ sdk' = ColdSdk /\ tx_map' = {}
    /\ UNCHANGED <<channel, inscribed>>

\* A slot is a channel position; 0 stands for a channel that does not exist.
channel_tip_slot == Len(branch)

\* The finalized messages after a slot.
read_channel_after(slot) ==
    [k \in 1..(lib - slot) |-> [slot |-> slot + k, block |-> branch[slot + k].block]]

\* verify_and_reconstruct up to the message stream: a store with a checkpoint
\* from an earlier run refuses a channel that does not exist.  The messages are
\* those from the anchor's slot on, and the anchor check always finds the anchor's
\* block there: see module IndexerStore.
Verify ==
    /\ phase = "starting"
    /\ IF ~start.fresh /\ channel_tip_slot = 0
       THEN Halt("refused") /\ UNCHANGED <<store, crashes>>
       ELSE /\ start' = [start EXCEPT
                  !.absent = channel_tip_slot = 0,
                  !.todo   = read_channel_after(IF store.anchor = NoAnchor THEN 0 ELSE store.anchor.slot - 1)]
            /\ phase' = "reconstructing"
            /\ UNCHANGED <<store, chain, turn, tx_map, channel, sdk, inscribed, crashes>>

\* apply_reconstructed_block: held verbatim, in conflict with the final tier, or
\* finalized; an error ends the process.
apply_reconstructed_block(c, s, m) ==
    LET b      == m.block
        record == [slot |-> m.slot, tip |-> TipOf(b)]
        r      == apply_finalized(c, b.hash, b)
    IN  IF b.id <= s.meta.block_id /\ Holds(s, b)
        THEN [chain |-> c, store |-> [s EXCEPT !.anchor = record], error |-> FALSE]
        ELSE IF c.final_tip # NoTip /\ b.id <= c.final_tip.block_id
        THEN [chain |-> c, store |-> s, error |-> FALSE]
        ELSE IF r.outcome = "Parked"
        THEN [chain |-> r.chain, store |-> s, error |-> TRUE]
        ELSE [chain |-> r.chain,
              store |-> store_update(s, [StoreUpdate(r.chain.head_state) EXCEPT
                !.blocks         = <<[block |-> b, finalized |-> TRUE]>>,
                !.head_tip       = head_tip(r.chain),
                !.final_snapshot = IF r.chain.final_tip = NoTip THEN NoSnapshot
                                   ELSE [state |-> r.chain.final_state, tip |-> r.chain.final_tip],
                !.zone_anchor    = record]),
              error |-> FALSE]

ReconstructBlock ==
    LET r == apply_reconstructed_block(chain, store, Head(start.todo))
    IN  /\ phase = "reconstructing" /\ start.todo # <<>>
        /\ IF r.error
           THEN Halt("refused") /\ UNCHANGED <<store, crashes>>
           ELSE /\ chain' = r.chain /\ store' = r.store
                /\ start' = [start EXCEPT !.todo = Tail(@)]
                /\ UNCHANGED <<phase, turn, tx_map, channel, sdk, inscribed, crashes>>

\* The stored blocks not finalized yet, by height.
PendingBlocks(s) ==
    SetToSortSeq({s.blocks[i].block : i \in {j \in DOMAIN s.blocks : ~s.blocks[j].finalized}},
                 LAMBDA a, b : a.id < b.id)

\* Seed the high water mark; a fresh start on an absent channel publishes next,
\* and asserts that it starts with genesis.
FinishReconstruction ==
    LET pending == PendingBlocks(store)
        create_channel == start.fresh /\ start.absent
    IN  /\ phase = "reconstructing" /\ start.todo = <<>>
        /\ store' = raise_published_high_water(store, store.meta.block_id)
        /\ IF create_channel /\ pending # <<>> /\ Head(pending).id # GENESIS_BLOCK_ID
           THEN Halt("refused") /\ UNCHANGED crashes
           ELSE /\ phase' = IF create_channel THEN "publishing" ELSE "running"
                /\ start' = IF create_channel THEN [start EXCEPT !.todo = pending] ELSE NoStart
                /\ UNCHANGED <<chain, turn, tx_map, channel, sdk, inscribed, crashes>>

\* One block of the republishing loop.
PublishPending ==
    LET b == Head(start.todo)
    IN  /\ phase = "publishing" /\ start.todo # <<>>
        /\ publish_block(b) \/ publish_genesis_creating_channel(b)
        /\ store' = raise_published_high_water(store, b.id)
        /\ start' = [start EXCEPT !.todo = Tail(@)]
        /\ turn' = [turn EXCEPT !.checkpoint = sdk']
        /\ UNCHANGED <<phase, chain, tx_map, branch, lib, reorgs, crashes>>

\* The last checkpoint of the loop is persisted on its own.
FinishPublishing ==
    /\ phase = "publishing" /\ start.todo = <<>>
    /\ store' = IF turn.checkpoint = NoCheckpoint THEN store
                ELSE [store EXCEPT !.checkpoint = turn.checkpoint]
    /\ phase' = "running" /\ start' = NoStart /\ turn' = Idle
    /\ UNCHANGED <<chain, tx_map, channel, sdk, inscribed, crashes>>

Crash ==
    /\ phase \notin {"down", "refused"} /\ crashes + reorgs < MaxDisturbances
    /\ crashes' = crashes + 1
    /\ Halt("down") /\ UNCHANGED store

NodeStep ==
    \/ CheckTurn
    \/ \E b \in OwnBlock : BuildBlock(b)
    \/ PublishBlock
    \/ RaiseHighWater
    \/ RecordProducedBlock
    \/ BeginCreate
    \/ EndCreate
    \/ OpenStore
    \/ OpenFails
    \/ Ready
    \/ Verify
    \/ ReconstructBlock
    \/ FinishReconstruction
    \/ PublishPending
    \/ FinishPublishing

Next ==
    \/ \E b \in PeerBlock : PeerInscribe(b)
    \/ \E p \in posted : Include(p)
    \/ \E n \in 0..MaxChannel : Reorg(n)
    \/ Finalize
    \/ \E n \in SharedPrefix(sdk.seen, branch)..Len(branch) :
          \E l \in sdk.lib..(IF lib < n THEN lib ELSE n) :
              \E extra \in {<<>>} \cup {<<i>> : i \in {Own(b) : b \in inscribed} \cap ToSet(sdk.seen)} :
                  \E backfill \in BOOLEAN : FollowUpdate(n, l, backfill, extra)
    \/ NodeStep
    \/ Crash

Spec == Init /\ [][Next]_vars

-----------------------------------------------------------------------------

\* The turn holds a block exactly while one is in flight, the channel's finality
\* is a prefix of it, and the sdk reports no more as final than it has seen.
TypeOK ==
    /\ phase \in Phases
    /\ chain \in Chains
    /\ turn.pc \in {"idle", "checked", "built", "published", "raised"}
    /\ turn.block = NoBlock <=> turn.pc \in {"idle", "checked"}
    /\ lib \in 0..Len(branch) /\ Len(branch) <= MaxChannel
    /\ sdk.lib <= Len(sdk.seen)

\* A complete store loads after a first crash at any step: its blocks reach the tip
\* without a gap, replay on the final snapshot and give the persisted state.  (An
\* L1 reorg, or a restart from a checkpoint that the publishing loop left behind,
\* can hand over two blocks of one height at once, which the store does not
\* survive: see the README.)
CrashLeavesLoadableStore == Complete /\ crashes + reorgs = 0 => Loads(store)

\* Disk writes land in apply order: outside a step the persisted state and tip are
\* those of the head, except for an emptied head, which the store cannot hold.  (On
\* a store that an L1 reorg broke, a later one can go unnoticed.)
DiskFollowsHead ==
    Up /\ reorgs = 0 /\ head_tip(chain) # NoTip =>
        store.state = chain.head_state /\ store.meta = head_tip(chain)

\* The final tier is what the finalized part of the channel settles and nothing
\* else, whatever was adopted, orphaned or reorganised: two nodes that follow one
\* channel never finalize different blocks.  (Two ways around it are in the README:
\* reconstruction after a crash can finalize a rival of a block it holds, and a
\* block of ours that is recorded after its inscription was orphaned can become
\* final below its successor without ever being on the channel.)
FinalIsSettled ==
    Up /\ crashes = 0 /\ ToSet(chain.final_state) \subseteq ToSet(BlocksOf(branch)) =>
        IsPrefix(chain.final_state, Settled(BlocksOf(SubSeq(branch, 1, lib))))

\* A checkpoint is never ahead of its effects: as many blocks as it has seen
\* settled are in the persisted final tier, so resuming from it after a crash skips
\* nothing.  (After a first crash reconstruction can finalize a rival, as above.)
CheckpointNotAhead ==
    Complete /\ crashes = 0 /\ store.checkpoint # NoCheckpoint =>
        Len(Settled(BlocksOf(SubSeq(store.checkpoint.seen, 1, store.checkpoint.lib))))
            <= IF store.snapshot = NoSnapshot THEN 0 ELSE Len(store.snapshot.state)

-----------------------------------------------------------------------------
\* What comments and messages of the code say, and the code does not do.

\* "Never inscribe a second block at a height we already published".
PublishedOnce == \A b, c \in inscribed : b.id = c.id => b = c

=============================================================================
