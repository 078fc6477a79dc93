------------------------------ MODULE PeerChain ------------------------------
(***************************************************************************)
(* How a zone follows another zone's chain: the acceptance policy that the *)
(* sequencer's watcher and the indexer's verifier share                    *)
(* (lez/cross_zone/src/acceptance.rs) and the verifier's cache of peer     *)
(* blocks (lez/indexer/core/src/cross_zone_verifier.rs).                   *)
(*                                                                         *)
(* A peer block is its header, whether its contents match its hash and are *)
(* signed by the pinned key, and one entry per transaction: "send" emits a *)
(* message to this zone, "inbox" one to this zone's inbox program,         *)
(* "abroad" one to another zone, "plain" nothing.                          *)
(***************************************************************************)
EXTENDS Integers, FiniteSetsExt, SequencesExt, Functions

CONSTANTS
    PeerBlock,  \* blocks that can appear on the peer's channel
    NoTip,      \* Option<PeerChainTip>::None
    Pinned      \* whether a block-signing key is configured for the peer

ASSUME PeerBlockAssumption ==
    \A b \in PeerBlock : /\ b.id \in Nat
                         /\ b.intact \in BOOLEAN /\ b.signed \in BOOLEAN
                         /\ b.txs \in Seq({"send", "inbox", "abroad", "plain"})

\* A hash commits to the contents of a block.
ASSUME PeerHashAssumption ==
    \A b, c \in PeerBlock : b.intact /\ c.intact /\ b.hash = c.hash => b = c

GENESIS_BLOCK_ID == 1

PeerTip(b) == [block_id |-> b.id, hash |-> b.hash]

PeerTips == {PeerTip(b) : b \in PeerBlock}

\* The hash of the contents, then the pinned key.
screen_peer_block(b) == b.intact /\ (Pinned => b.signed)

\* Where a screened block sits relative to the chain that the tip pins.
link_to_tip(tip, b) ==
    IF tip = NoTip
    THEN IF b.id = GENESIS_BLOCK_ID THEN "Next" ELSE "NotTheGenesis"
    ELSE IF b.id <= tip.block_id THEN "AlreadySeen"
    ELSE IF b.id > tip.block_id + 1 THEN "SkipsAhead"
    ELSE IF b.prev # tip.hash THEN "DoesNotLink"
    ELSE "Next"

\* A delivery: what a dispatch says about the emission it carries.
Delivery(b, i) == [block_id |-> b.id, block_hash |-> b.hash, tx_index |-> i]

\* The replay key does not cover the block's hash.
message_key(m) == <<m.block_id, m.tx_index>>

\* The deliveries that the watcher records for a block: the emissions that
\* target this zone, less those into the sequencer-only inbox.
DeliveriesOf(b) == {Delivery(b, i) : i \in {k \in DOMAIN b.txs : b.txs[k] = "send"}}

\* What the verifier re-derives from a block: any emission that targets this zone.
EmissionsOf(b) == {Delivery(b, i) : i \in {k \in DOMAIN b.txs : b.txs[k] \in {"send", "inbox"}}}

-----------------------------------------------------------------------------
\* The verifier's cache of one peer: [blocks, prefix], prefix the verified run.

EmptyCache == [blocks |-> [i \in {} |-> NoTip], prefix |-> NoTip]

RunLength(c) == IF c.prefix = NoTip THEN GENESIS_BLOCK_ID - 1 ELSE c.prefix.block_id

\* Walks the verified run through the cached blocks as far as they link.
extend_prefix(c) ==
    LET n == RunLength(c)
        Links(j) == /\ j \in DOMAIN c.blocks
                    /\ link_to_tip(IF j = n + 1 THEN c.prefix ELSE PeerTip(c.blocks[j - 1]),
                                   c.blocks[j]) = "Next"
        end == Max({k \in {n} \cup DOMAIN c.blocks : k >= n /\ \A j \in (n + 1)..k : Links(j)})
    IN  IF end = n THEN c ELSE [c EXCEPT !.prefix = PeerTip(c.blocks[end])]

\* Mutant: a block read later replaces the one that is held.
MutLastWins(c, b) ==
    IF link_to_tip(c.prefix, b) \notin {"NotTheGenesis", "SkipsAhead"}
    THEN extend_prefix([c EXCEPT !.blocks = (b.id :> b) @@ @])
    ELSE c

\* PeerBlocks::insert: only the next id of the run is cached; there, a block
\* that continues the run displaces one that does not.
insert(c, b) ==
    LET link == link_to_tip(c.prefix, b)
        held == b.id \in DOMAIN c.blocks
    IN  IF \/ link \notin {"Next", "DoesNotLink"}
           \/ held /\ c.blocks[b.id].hash = b.hash
           \/ held /\ link = "DoesNotLink"
        THEN c
        ELSE extend_prefix([c EXCEPT !.blocks = (b.id :> b) @@ @])

\* Mutant: a block the reader has not got to counts as absent.
MutResolveNoWait(c, id) == IF id \in DOMAIN c.blocks THEN "Cached" ELSE "InsideRun"

\* PeerBlocks::resolve, under one lock.
resolve(c, id) ==
    IF c.prefix = NoTip \/ RunLength(c) < id THEN "Behind"
    ELSE IF id \in DOMAIN c.blocks THEN "Cached" ELSE "InsideRun"

-----------------------------------------------------------------------------

\* The reference: the run of blocks a reader gets that goes once through a list
\* of blocks, following the first one that continues the chain.
RunOf(blocks) ==
    LET run[i \in 0..Len(blocks)] ==
            IF i = 0 THEN <<>>
            ELSE LET got == run[i - 1]
                     tip == IF got = <<>> THEN NoTip ELSE PeerTip(got[Len(got)])
                 IN  IF screen_peer_block(blocks[i]) /\ link_to_tip(tip, blocks[i]) = "Next"
                     THEN Append(got, blocks[i])
                     ELSE got
    IN  run[Len(blocks)]
==============================================================================
